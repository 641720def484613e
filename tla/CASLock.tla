------------------------------ MODULE CASLock ------------------------------
(***************************************************************************)
(* CASLock of src/src/thread.h: lock spins on an atomic test-and-set of    *)
(* m_mutex, unlock clears it.  The lock does not know its holder.          *)
(***************************************************************************)
EXTENDS LockThreads

VARIABLES
  m_mutex,   \* the std::atomic_flag
  at         \* "out", "spin" in lock, "held" between lock and unlock

casVars == <<m_mutex, at>>

CASInit ==
  /\ m_mutex = FALSE
  /\ at = [t \in Threads |-> "out"]

Call(t) ==
  /\ at[t] = "out"
  /\ at' = [at EXCEPT ![t] = "spin"]
  /\ UNCHANGED m_mutex

\* Mutant of TestAndSet: the returned value is not used.
TestAndSetOnce(t) ==
  /\ at[t] = "spin"
  /\ m_mutex' = TRUE
  /\ at' = [at EXCEPT ![t] = "held"]

\* One turn of while(test_and_set(&m_mutex)): the flag is set in any case, and
\* the loop is left when it was not set before.
TestAndSet(t) ==
  /\ at[t] = "spin"
  /\ m_mutex' = TRUE
  /\ at' = [at EXCEPT ![t] = IF m_mutex THEN "spin" ELSE "held"]

\* Mutant of Clear: the flag stays set.
ClearOmitted(t) ==
  /\ at[t] = "held"
  /\ at' = [at EXCEPT ![t] = "out"]
  /\ UNCHANGED m_mutex

\* unlock
Clear(t) ==
  /\ at[t] = "held"
  /\ m_mutex' = FALSE
  /\ at' = [at EXCEPT ![t] = "out"]

CASNext == \E t \in Threads : Call(t) \/ TestAndSet(t) \/ Clear(t)

\* A spinning thread goes on spinning, and a critical section ends.
Fairness == \A t \in Threads : WF_casVars(TestAndSet(t)) /\ WF_casVars(Clear(t))

CASSpec == CASInit /\ [][CASNext]_casVars /\ Fairness

-----------------------------------------------------------------------------
(* Properties *)

\* Type invariant; the flag is set exactly while some thread is in its critical
\* section, so a spinning thread that sets it again sets nothing.
CASTypeOK ==
  /\ m_mutex \in BOOLEAN
  /\ at \in [Threads -> {"out", "spin", "held"}]
  /\ m_mutex <=> \E t \in Threads : at[t] = "held"

\* Two threads never hold the lock together.
MutualExclusion ==
  \A t, u \in Threads : at[t] = "held" /\ at[u] = "held" => t = u

\* While threads wait, one of them always gets the lock in the end (not each
\* of them: the lock is not fair).
SomeoneEnters ==
  (\E t \in Threads : at[t] = "spin") ~> (\E t \in Threads : at[t] = "held")

\* The lock that the flag implements: an RWMutex without readers, held by the
\* thread whose test-and-set found the flag clear.
Holder == IF \E t \in Threads : at[t] = "held"
          THEN CHOOSE t \in Threads : at[t] = "held"
          ELSE NULL
L == INSTANCE RWMutex WITH readers <- {}, writer <- Holder
IsALock == L!Spec
=============================================================================
