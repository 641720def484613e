----------------------------- MODULE LockProofs -----------------------------
(***************************************************************************)
(* The locks, for any set of threads.  The scoped guards hold their lock   *)
(* exactly when their flag says so, exclude each other, and use the lock   *)
(* as RWMutex demands; CASLock excludes, and is such a lock.               *)
(***************************************************************************)
EXTENDS ScopedLock, CASLock, TLAPS

(***************************************************************************)
(* GuardOwnsTheLock speaks of threads outside the guard's methods.  Inside *)
(* them flag and lock disagree in a way that depends on the point, which   *)
(* HoldInv spells out; ModeInv ties the lock to the class of the guard.    *)
(***************************************************************************)
HoldInv ==
  \A t \in Threads :
    /\ pc[t] \in {"none", "lock"} => ~Holds(t) /\ ~m_locked[t]
    /\ pc[t] = "set"    => Holds(t) /\ ~m_locked[t]
    /\ pc[t] = "scope"  => (m_locked[t] <=> Holds(t))
    /\ pc[t] = "unlock" => Holds(t) /\ m_locked[t]
    /\ pc[t] = "clear"  => ~Holds(t) /\ m_locked[t]

ModeInv ==
  /\ writer # NULL => readers = {}
  /\ \A t \in Threads : t \in readers => mode[t] = "read"
  /\ \A t \in Threads : writer = t => mode[t] = "write"

IInv == TypeOK /\ HoldInv /\ ModeInv

\* Before the first guard nobody holds the lock.
LEMMA InitIInv == Init => IInv
BY LockAssumption DEF Init, IInv, TypeOK, PC, HoldInv, ModeInv, Holds

\* Every step of a constructor, of lock, unlock and a destructor keeps it.
LEMMA NextIInv == IInv /\ [Next]_vars => IInv'
<1> SUFFICES ASSUME IInv, [Next]_vars PROVE IInv'
    OBVIOUS
<1> USE LockAssumption DEF IInv, TypeOK, PC, HoldInv, ModeInv, Holds, Goto, mutex
<1>1. CASE UNCHANGED vars
    BY <1>1 DEF vars
<1>2. ASSUME NEW t \in Threads, NEW m \in {"read", "write"}, Construct(t, m) PROVE IInv'
    BY <1>2 DEF Construct
<1>3. ASSUME NEW t \in Threads, Lock(t) PROVE IInv'
    BY <1>3 DEF Lock, LockTarget
<1>4. ASSUME NEW t \in Threads, Unlock(t) PROVE IInv'
    BY <1>4 DEF Unlock, UnlockTarget
<1>5. ASSUME NEW t \in Threads, Destruct(t) PROVE IInv'
    BY <1>5 DEF Destruct, UnlockTarget
<1>6. ASSUME NEW t \in Threads, MutexLock(t) PROVE IInv'
    BY <1>6 DEF MutexLock, NoHolder
<1>7. ASSUME NEW t \in Threads, SetLocked(t) PROVE IInv'
    BY <1>7 DEF SetLocked
<1>8. ASSUME NEW t \in Threads, MutexUnlock(t) PROVE IInv'
    BY <1>8 DEF MutexUnlock
<1>9. ASSUME NEW t \in Threads, ClearLocked(t) PROVE IInv'
    BY <1>9 DEF ClearLocked
<1>10. QED
    BY <1>1, <1>2, <1>3, <1>4, <1>5, <1>6, <1>7, <1>8, <1>9 DEF Next

\* The inductive invariant holds in every reachable state of the guards.
THEOREM Invariant == Spec => []IInv
BY InitIInv, NextIInv, PTL DEF Spec

\* The flags and program points of the guards stay in their ranges, and no
\* destructor returns to the scope.
THEOREM TypeCorrect == Spec => []TypeOK
<1>1. IInv => TypeOK
    BY DEF IInv
<1>2. QED
    BY Invariant, <1>1, PTL

\* A thread without a guard holds nothing, and m_locked is right in the scope.
THEOREM GuardsOwn == Spec => []GuardOwnsTheLock
<1>1. IInv => GuardOwnsTheLock
    BY DEF IInv, HoldInv, GuardOwnsTheLock
<1>2. QED
    BY Invariant, <1>1, PTL

\* A locked write guard is alone in its scope.
THEOREM GuardsExclude == Spec => []Exclusion
<1>1. IInv => Exclusion
    BY LockAssumption DEF IInv, TypeOK, HoldInv, ModeInv, Holds, Exclusion
<1>2. QED
    BY Invariant, <1>1, PTL

-----------------------------------------------------------------------------
\* A step of a guard locks or unlocks the mutex as RWMutex allows, or leaves it.
LEMMA StepRefines == IInv /\ [Next]_vars => [M!Next]_<<readers, writer>>
<1> SUFFICES ASSUME IInv, [Next]_vars PROVE [M!Next]_<<readers, writer>>
    OBVIOUS
<1>1. CASE UNCHANGED vars
    BY <1>1 DEF vars, mutex
<1>2. ASSUME NEW t \in Threads,
             \/ \E m \in {"read", "write"} : Construct(t, m)
             \/ Lock(t) \/ Unlock(t) \/ Destruct(t) \/ SetLocked(t) \/ ClearLocked(t)
      PROVE  UNCHANGED <<readers, writer>>
    BY <1>2 DEF Construct, Lock, Unlock, Destruct, SetLocked, ClearLocked, mutex
<1>3. ASSUME NEW t \in Threads, MutexLock(t) PROVE M!rdlock(t) \/ M!wrlock(t)
    BY <1>3 DEF MutexLock, NoHolder, IInv, HoldInv, Holds, M!rdlock, M!wrlock
<1>4. ASSUME NEW t \in Threads, MutexUnlock(t) PROVE M!unlock(t)
    <2>1. Holds(t)
        BY <1>4 DEF MutexUnlock, IInv, HoldInv
    <2>2. t \in readers => writer = NULL
        BY DEF IInv, ModeInv
    <2>3. QED
        BY <1>4, <2>1, <2>2 DEF MutexUnlock, Holds, M!unlock
<1>5. QED
    BY <1>1, <1>2, <1>3, <1>4 DEF Next, M!Next

\* Whatever lock and unlock calls a scope makes, the mutex below is locked only
\* by a thread that does not hold it and unlocked only by one that does.
THEOREM GuardsUseTheLock == Spec => UsesTheLock
<1>1. Init => M!Init
    BY DEF Init, M!Init
<1>2. QED
    BY <1>1, InitIInv, NextIInv, StepRefines, PTL DEF Spec, UsesTheLock, M!Spec

-----------------------------------------------------------------------------
(* CASLock *)

(***************************************************************************)
(* Mutual exclusion is not inductive by itself: a test-and-set that finds  *)
(* the flag clear must know that nobody is inside, which is what the last  *)
(* conjunct of CASTypeOK says.                                             *)
(***************************************************************************)
CInv == CASTypeOK /\ MutualExclusion

\* The first thread to call lock finds the flag clear and nobody inside.
LEMMA InitCInv == CASInit => CInv
BY DEF CASInit, CInv, CASTypeOK, MutualExclusion

\* Every call, every turn of the spin loop and every unlock keeps the flag and
\* the critical sections in step.
LEMMA NextCInv == CInv /\ [CASNext]_casVars => CInv'
<1> SUFFICES ASSUME CInv, [CASNext]_casVars PROVE CInv'
    OBVIOUS
<1> USE DEF CInv, CASTypeOK, MutualExclusion
<1>1. CASE UNCHANGED casVars
    BY <1>1 DEF casVars
<1>2. ASSUME NEW t \in Threads, Call(t) PROVE CInv'
    BY <1>2 DEF Call
<1>3. ASSUME NEW t \in Threads, TestAndSet(t) PROVE CInv'
    BY <1>3 DEF TestAndSet
<1>4. ASSUME NEW t \in Threads, Clear(t) PROVE CInv'
    BY <1>4 DEF Clear
<1>5. QED
    BY <1>1, <1>2, <1>3, <1>4 DEF CASNext

\* The inductive invariant holds in every reachable state of lock and unlock.
THEOREM CASInvariant == CASSpec => []CInv
BY InitCInv, NextCInv, PTL DEF CASSpec

\* Two threads are never between lock and unlock of one CASLock, for any number
\* of threads that call it.
THEOREM CASExcludes == CASSpec => []MutualExclusion
<1>1. CInv => MutualExclusion
    BY DEF CInv
<1>2. QED
    BY CASInvariant, <1>1, PTL

\* The flag is set exactly while some thread is between lock and unlock.
THEOREM FlagIsExact == CASSpec => []CASTypeOK
<1>1. CInv => CASTypeOK
    BY DEF CInv
<1>2. QED
    BY CASInvariant, <1>1, PTL

-----------------------------------------------------------------------------
\* A thread inside is the holder that the refinement mapping names.
LEMMA HolderIs ==
  ASSUME CInv, NEW t \in Threads, at[t] = "held"
  PROVE  Holder = t
BY DEF CInv, MutualExclusion, Holder

\* Without a thread inside, the mapping names none.
LEMMA HolderIsNot ==
  ASSUME \A t \in Threads : at[t] # "held"
  PROVE  Holder = NULL
BY DEF Holder

\* A step of the flag is a step, or a stutter, of the abstract lock.
LEMMA CASStepRefines == CInv /\ CInv' /\ [CASNext]_casVars => [L!Next]_<<{}, Holder>>
<1> SUFFICES ASSUME CInv, CInv', [CASNext]_casVars PROVE [L!Next]_<<{}, Holder>>
    OBVIOUS
<1>0. at \in [Threads -> {"out", "spin", "held"}]
    BY DEF CInv, CASTypeOK
<1>1. CASE UNCHANGED casVars
    BY <1>1 DEF casVars, Holder
<1>2. ASSUME NEW t \in Threads, Call(t) PROVE [L!Next]_<<{}, Holder>>
    <2>1. \A u \in Threads : (at'[u] = "held") <=> (at[u] = "held")
        BY <1>0, <1>2 DEF Call
    <2>2. Holder' = Holder
        BY <2>1 DEF Holder
    <2>3. QED
        BY <2>2
<1>3. ASSUME NEW t \in Threads, TestAndSet(t) PROVE [L!Next]_<<{}, Holder>>
    <2>1. CASE m_mutex
        <3>1. at' = at
            BY <1>0, <1>3, <2>1 DEF TestAndSet
        <3>2. QED
            BY <3>1 DEF Holder
    <2>2. CASE ~m_mutex
        <3>1. Holder = NULL
            BY <2>2 DEF CInv, CASTypeOK, Holder
        <3>2. at'[t] = "held"
            BY <1>0, <1>3, <2>2 DEF TestAndSet
        <3>3. Holder' = t
            BY <3>2 DEF CInv, MutualExclusion, Holder
        <3>4. L!wrlock(t)
            BY <3>1, <3>3 DEF L!wrlock
        <3>5. QED
            BY <3>4 DEF L!Next
    <2>3. QED
        BY <2>1, <2>2
<1>4. ASSUME NEW t \in Threads, Clear(t) PROVE [L!Next]_<<{}, Holder>>
    <2>1. Holder = t
        BY <1>4, HolderIs DEF Clear
    <2>2. \A u \in Threads : at'[u] # "held"
        BY <1>0, <1>4 DEF Clear, CInv, MutualExclusion
    <2>3. Holder' = NULL
        BY <2>2 DEF Holder
    <2>4. L!unlock(t)
        BY <2>1, <2>3 DEF L!unlock
    <2>5. QED
        BY <2>4 DEF L!Next
<1>5. QED
    BY <1>1, <1>2, <1>3, <1>4 DEF CASNext

\* The spin lock implements the lock that its users rely on: taken only when
\* free, released only by its holder.
THEOREM CASRefines == CASSpec => IsALock
<1>1. CASInit => L!Init
    BY HolderIsNot DEF CASInit, L!Init
<1>2. QED
    BY <1>1, InitCInv, NextCInv, CASStepRefines, PTL DEF CASSpec, IsALock, L!Spec
=============================================================================
