---------------------------- MODULE ThreadProofs ----------------------------
(***************************************************************************)
(* Proofs about Thread, for any number of objects: the handshake keeps run *)
(* away from a destroyed object and every pthread is reaped once, unless a *)
(* signal ended the constructor.                                           *)
(***************************************************************************)
EXTENDS Thread, TLAPS

\* The points of run at which it still needs its object.
Before == {"start", "swap", "notify"}

\* The semaphore counts nothing before the notify, and nothing that a
\* constructor has not yet waited for is lost.
SemInv(o) ==
  /\ run[o] \in Before \cup {"none"} => sem[o] = 0
  /\ owner[o] = "wait" /\ run[o] \in {"cb", "done"} => sem[o] = 1

\* Where run may be while its owner is at each point of the object's life, and
\* that the handle is there exactly while the pthread is still to be reaped.
LifeInv(o) ==
  /\ owner[o] = "none" => run[o] = "none" /\ reaped[o] = 0
  /\ owner[o] = "wait" => run[o] # "none" /\ reaped[o] = 0 /\ m_thread[o]
  /\ owner[o] = "live" =>
       /\ run[o] \in {"cb", "done"}
       /\ m_thread[o] => reaped[o] = 0
       /\ ~m_thread[o] => reaped[o] = 1 /\ run[o] = "done"
  /\ owner[o] = "join" => run[o] \in {"cb", "done"} /\ reaped[o] = 0 /\ m_thread[o]

\* After the destructor run is in the callback, which does not use the object, or
\* at its end.  A constructor that threw has left no thread, or one whose object
\* is gone.
DeadInv(o) ==
  /\ o \in interrupted => owner[o] = "dead" /\ run[o] # "none" /\ reaped[o] = 0
  /\ owner[o] = "dead" /\ o \notin interrupted =>
       \/ run[o] = "none" /\ reaped[o] = 0
       \/ run[o] = "cb" /\ reaped[o] = 1 /\ o \notin Namers
       \/ run[o] = "done" /\ reaped[o] = 1

ObjInv(o) == SemInv(o) /\ LifeInv(o) /\ DeadInv(o)

IInv ==
  /\ TypeOK
  /\ \A o \in Threads : ObjInv(o)
  /\ NoUseAfterDestruction

-----------------------------------------------------------------------------
\* The initial states satisfy the invariant.
LEMMA InitInv == Init => IInv
<1> SUFFICES ASSUME Init PROVE IInv
  OBVIOUS
<1> USE DEF Init
<1>1. TypeOK
  BY DEF TypeOK, Owner, Run
<1>2. \A o \in Threads : ObjInv(o)
  BY DEF ObjInv, SemInv, LifeInv, DeadInv, Before
<1>3. NoUseAfterDestruction
  BY DEF NoUseAfterDestruction
<1> QED BY <1>1, <1>2, <1>3 DEF IInv

\* The owner's calls keep the invariant: the constructor with its three ends.
LEMMA ConstructStep ==
  ASSUME IInv, NEW o \in Threads,
         \/ \E name \in Names \cup {EMPTY} : Construct(o, name)
         \/ ConstructFails(o)
         \/ Constructed(o)
         \/ ConstructInterrupted(o)
  PROVE  IInv'
<1> USE ThreadAssumption DEF IInv, OwnerGoto, RunGoto, fields, local
<1>1. CASE \E name \in Names \cup {EMPTY} : Construct(o, name)
  <2>1. PICK name \in Names \cup {EMPTY} : Construct(o, name)
    BY <1>1
  <2> USE <2>1 DEF Construct
  <2>2. TypeOK'
    BY DEF TypeOK, Owner, Run, NameOf
  <2>3. ASSUME NEW p \in Threads PROVE ObjInv(p)'
    BY DEF ObjInv, SemInv, LifeInv, DeadInv, Before, TypeOK
  <2>4. NoUseAfterDestruction'
    BY DEF NoUseAfterDestruction
  <2> QED BY <2>2, <2>3, <2>4
<1>2. CASE ConstructFails(o)
  <2> USE <1>2 DEF ConstructFails
  <2>1. TypeOK'
    BY DEF TypeOK, Owner
  <2>2. ASSUME NEW p \in Threads PROVE ObjInv(p)'
    BY DEF ObjInv, SemInv, LifeInv, DeadInv, Before, TypeOK
  <2>3. NoUseAfterDestruction'
    BY DEF NoUseAfterDestruction
  <2> QED BY <2>1, <2>2, <2>3
<1>3. CASE Constructed(o)
  <2> USE <1>3 DEF Constructed
  <2>1. TypeOK'
    BY DEF TypeOK, Owner
  <2>2. ASSUME NEW p \in Threads PROVE ObjInv(p)'
    BY DEF ObjInv, SemInv, LifeInv, DeadInv, Before, TypeOK, Run
  <2>3. NoUseAfterDestruction'
    BY DEF NoUseAfterDestruction
  <2> QED BY <2>1, <2>2, <2>3
<1>4. CASE ConstructInterrupted(o)
  <2> USE <1>4 DEF ConstructInterrupted
  <2>1. TypeOK'
    BY DEF TypeOK, Owner
  <2>2. ASSUME NEW p \in Threads PROVE ObjInv(p)'
    BY DEF ObjInv, SemInv, LifeInv, DeadInv, Before, TypeOK
  <2>3. NoUseAfterDestruction'
    BY DEF NoUseAfterDestruction
  <2> QED BY <2>1, <2>2, <2>3
<1> QED BY <1>1, <1>2, <1>3, <1>4

\* run keeps the invariant: while it uses the object, the owner is still in the
\* constructor, or a signal has ended it.
LEMMA RunStep ==
  ASSUME IInv, NEW o \in Threads,
         RunStart(o) \/ RunSwap(o) \/ RunNotify(o) \/ RunEnd(o)
  PROVE  IInv'
<1> USE DEF IInv, RunGoto, fields, local
<1>1. run[o] \in Before /\ owner[o] = "dead" => o \in interrupted
  BY DEF ObjInv, DeadInv, Before
<1>2. CASE RunStart(o)
  <2> USE <1>2 DEF RunStart, Use
  <2>1. TypeOK'
    BY DEF TypeOK, Run
  <2>2. ASSUME NEW p \in Threads PROVE ObjInv(p)'
    BY DEF ObjInv, SemInv, LifeInv, DeadInv, Before, TypeOK
  <2>3. NoUseAfterDestruction'
    BY <1>1 DEF NoUseAfterDestruction, Before
  <2> QED BY <2>1, <2>2, <2>3
<1>3. CASE RunSwap(o)
  <2> USE <1>3 DEF RunSwap, Use
  <2>1. TypeOK'
    BY DEF TypeOK, Run
  <2>2. ASSUME NEW p \in Threads PROVE ObjInv(p)'
    BY DEF ObjInv, SemInv, LifeInv, DeadInv, Before, TypeOK
  <2>3. NoUseAfterDestruction'
    BY <1>1 DEF NoUseAfterDestruction, Before
  <2> QED BY <2>1, <2>2, <2>3
<1>4. CASE RunNotify(o)
  <2> USE <1>4 DEF RunNotify, Use
  <2>1. TypeOK'
    BY DEF TypeOK, Run, ObjInv, SemInv, Before
  <2>2. ASSUME NEW p \in Threads PROVE ObjInv(p)'
    BY DEF ObjInv, SemInv, LifeInv, DeadInv, Before, TypeOK
  <2>3. NoUseAfterDestruction'
    BY <1>1 DEF NoUseAfterDestruction, Before
  <2> QED BY <2>1, <2>2, <2>3
<1>5. CASE RunEnd(o)
  <2> USE <1>5 DEF RunEnd
  <2>1. TypeOK'
    BY DEF TypeOK, Run
  <2>2. ASSUME NEW p \in Threads PROVE ObjInv(p)'
    BY DEF ObjInv, SemInv, LifeInv, DeadInv, Before, TypeOK
  <2>3. NoUseAfterDestruction'
    BY DEF NoUseAfterDestruction
  <2> QED BY <2>1, <2>2, <2>3
<1> QED BY <1>2, <1>3, <1>4, <1>5

\* setName writes to an object that is there until it was joined.
LEMMA SetNameStep ==
  ASSUME IInv, NEW o \in Threads, NEW name \in Names, SetName(o, name)
  PROVE  IInv'
<1> USE DEF IInv, SetName
<1>1. TypeOK'
  BY DEF TypeOK, Use
<1>2. ASSUME NEW p \in Threads PROVE ObjInv(p)'
  BY DEF ObjInv, SemInv, LifeInv, DeadInv, Before, TypeOK
<1>3. NoUseAfterDestruction'
  BY DEF NoUseAfterDestruction, Use, ObjInv, DeadInv
<1> QED BY <1>1, <1>2, <1>3

\* join and the destructor reap the pthread once between them.
LEMMA ReapStep ==
  ASSUME IInv, NEW o \in Threads, Join(o) \/ Joined(o) \/ Destroy(o)
  PROVE  IInv'
<1> USE DEF IInv, OwnerGoto, fields, local
<1>1. CASE Join(o)
  <2> USE <1>1 DEF Join
  <2>1. TypeOK'
    BY DEF TypeOK, Owner
  <2>2. ASSUME NEW p \in Threads PROVE ObjInv(p)'
    BY DEF ObjInv, SemInv, LifeInv, DeadInv, Before, TypeOK
  <2>3. NoUseAfterDestruction'
    BY DEF NoUseAfterDestruction
  <2> QED BY <2>1, <2>2, <2>3
<1>2. CASE Joined(o)
  <2> USE <1>2 DEF Joined
  <2>1. TypeOK'
    BY DEF TypeOK, Owner
  <2>2. ASSUME NEW p \in Threads PROVE ObjInv(p)'
    BY DEF ObjInv, SemInv, LifeInv, DeadInv, Before, TypeOK
  <2>3. NoUseAfterDestruction'
    BY DEF NoUseAfterDestruction
  <2> QED BY <2>1, <2>2, <2>3
<1>3. CASE Destroy(o)
  <2> USE <1>3 DEF Destroy, Detach
  <2>1. TypeOK'
    BY DEF TypeOK, Owner
  <2>2. ASSUME NEW p \in Threads PROVE ObjInv(p)'
    BY DEF ObjInv, SemInv, LifeInv, DeadInv, Before, TypeOK
  <2>3. NoUseAfterDestruction'
    BY DEF NoUseAfterDestruction
  <2> QED BY <2>1, <2>2, <2>3
<1> QED BY <1>1, <1>2, <1>3

-----------------------------------------------------------------------------
\* The invariant holds in every reachable state.
THEOREM Invariant == Spec => []IInv
<1>1. IInv /\ [Next]_vars => IInv'
  <2> SUFFICES ASSUME IInv, [Next]_vars PROVE IInv'
    OBVIOUS
  <2>1. CASE Next
    <3>1. PICK o \in Threads :
            \/ \E name \in Names \cup {EMPTY} : Construct(o, name)
            \/ ConstructFails(o) \/ Constructed(o) \/ ConstructInterrupted(o)
            \/ RunStart(o) \/ RunSwap(o) \/ RunNotify(o) \/ RunEnd(o)
            \/ \E name \in Names : SetName(o, name)
            \/ Join(o) \/ Joined(o) \/ Destroy(o)
      BY <2>1, Zenon DEF Next
    <3> QED BY <3>1, ConstructStep, RunStep, SetNameStep, ReapStep
  <2>2. CASE UNCHANGED vars
    BY <2>2 DEF vars, fields, local, IInv, TypeOK, ObjInv, SemInv, LifeInv, DeadInv,
                NoUseAfterDestruction
  <2> QED BY <2>1, <2>2
<1> QED BY <1>1, InitInv, PTL DEF Spec

\* Type correctness; the semaphore never counts more than one notify.
THEOREM TypeCorrect == Spec => []TypeOK
<1>1. IInv => TypeOK
  BY DEF IInv
<1> QED BY <1>1, Invariant, PTL

\* run, the callback and setName use no destroyed Thread object but one whose
\* constructor a signal ended (thread.cpp:29).
THEOREM HandshakeProtects == Spec => []NoUseAfterDestruction
<1>1. IInv => NoUseAfterDestruction
  BY DEF IInv
<1> QED BY <1>1, Invariant, PTL

\* join and ~Thread (thread.cpp:89-107) reap every pthread exactly once, but that
\* of a constructor that a signal ended, which nobody reaps.
THEOREM EachReapedOnce == Spec => []ReapedOnce
<1>1. IInv => ReapedOnce
  <2> SUFFICES ASSUME IInv, NEW o \in Threads
               PROVE  /\ reaped[o] <= 1
                      /\ owner[o] = "dead" /\ run[o] # "none"
                           => (reaped[o] = 1 <=> o \notin interrupted)
    BY DEF ReapedOnce
  <2> QED BY DEF IInv, TypeOK, Owner, ObjInv, LifeInv, DeadInv
<1> QED BY <1>1, Invariant, PTL
=============================================================================
