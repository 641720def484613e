------------------------------ MODULE MCLocks ------------------------------
(***************************************************************************)
(* Three threads and two locks: an RWMutex that they use through scoped    *)
(* guards, so that a writer waits while two readers share it, and a        *)
(* CASLock that two of them spin on while the third holds it.  The locks   *)
(* know nothing of each other: their steps interleave freely.              *)
(***************************************************************************)
EXTENDS ScopedLock, CASLock

LocksInit == Init /\ CASInit

LocksNext ==
  \/ Next /\ UNCHANGED casVars
  \/ CASNext /\ UNCHANGED vars

LocksSpec == LocksInit /\ [][LocksNext]_<<vars, casVars>> /\ Fairness
=============================================================================
