----------------------------- MODULE ScopedLock -----------------------------
(***************************************************************************)
(* The scoped guards of src/src/thread.h on one lock: ReadScopedLockImpl   *)
(* and WriteScopedLockImpl; ScopedLockImpl is a write guard.  Each thread  *)
(* has at most one guard at a time, and calls its lock and unlock as it    *)
(* likes before the destructor.  m_locked is written after the call on the *)
(* mutex, so the two disagree in between.                                  *)
(***************************************************************************)
EXTENDS LockThreads

VARIABLES
  readers, writer,   \* m_mutex: a pthread_rwlock_t
  m_locked, mode,    \* the guard of thread t: its flag, and its class
  pc, dying          \* where the thread is in the guard, and in the destructor or not

mutex == <<readers, writer>>
vars  == <<mutex, m_locked, mode, pc, dying>>

\* "none" without a guard, "scope" outside its methods; "lock" before
\* m_mutex.lock(), "set" behind it, "unlock" before m_mutex.unlock(), "clear"
\* behind it.
PC == {"none", "scope", "lock", "set", "unlock", "clear"}

Init ==
  /\ readers = {}
  /\ writer = NULL
  /\ m_locked = [t \in Threads |-> FALSE]
  /\ mode = [t \in Threads |-> "read"]
  /\ pc = [t \in Threads |-> "none"]
  /\ dying = [t \in Threads |-> FALSE]

Holds(t) == writer = t \/ t \in readers

Goto(t, label) == pc' = [pc EXCEPT ![t] = label]

-----------------------------------------------------------------------------
\* The constructor, which calls m_mutex.lock() at once.
Construct(t, m) ==
  /\ pc[t] = "none"
  /\ mode' = [mode EXCEPT ![t] = m]
  /\ dying' = [dying EXCEPT ![t] = FALSE]
  /\ Goto(t, "lock")
  /\ UNCHANGED <<mutex, m_locked>>

\* if(!m_locked) of lock, if(m_locked) of unlock
LockTarget(t)   == IF m_locked[t] THEN "scope" ELSE "lock"
UnlockTarget(t) == IF m_locked[t] THEN "unlock" ELSE IF dying'[t] THEN "none" ELSE "scope"

Lock(t) ==
  /\ pc[t] = "scope"
  /\ Goto(t, LockTarget(t))
  /\ UNCHANGED <<mutex, m_locked, mode, dying>>

Unlock(t) ==
  /\ pc[t] = "scope"
  /\ UNCHANGED dying
  /\ Goto(t, UnlockTarget(t))
  /\ UNCHANGED <<mutex, m_locked, mode>>

\* The destructor is unlock().
Destruct(t) ==
  /\ pc[t] = "scope"
  /\ dying' = [dying EXCEPT ![t] = TRUE]
  /\ Goto(t, UnlockTarget(t))
  /\ UNCHANGED <<mutex, m_locked, mode>>

-----------------------------------------------------------------------------
\* What a writer waits for; the mutant lets it in beside readers.
NoWriter == writer = NULL
NoHolder == writer = NULL /\ readers = {}

\* m_mutex.rdlock() and m_mutex.wrlock() return.
MutexLock(t) ==
  /\ pc[t] = "lock"
  /\ IF mode[t] = "read"
     THEN writer = NULL /\ readers' = readers \cup {t} /\ UNCHANGED writer
     ELSE NoHolder /\ writer' = t /\ UNCHANGED readers
  /\ Goto(t, "set")
  /\ UNCHANGED <<m_locked, mode, dying>>

\* m_locked = true
SetLocked(t) ==
  /\ pc[t] = "set"
  /\ m_locked' = [m_locked EXCEPT ![t] = TRUE]
  /\ Goto(t, "scope")
  /\ UNCHANGED <<mutex, mode, dying>>

\* m_mutex.unlock(): undefined if the thread does not hold the lock, it may take
\* the lock from others.
MutexUnlock(t) ==
  /\ pc[t] = "unlock"
  /\ IF Holds(t)
     THEN readers' = readers \ {t} /\ writer' = IF writer = t THEN NULL ELSE writer
     ELSE readers' \in {readers \ {u} : u \in Threads} /\ writer' \in {writer, NULL}
  /\ Goto(t, "clear")
  /\ UNCHANGED <<m_locked, mode, dying>>

\* Mutant of ClearLocked: m_locked stays set.
ClearNothing(t) ==
  /\ pc[t] = "clear"
  /\ Goto(t, IF dying[t] THEN "none" ELSE "scope")
  /\ UNCHANGED <<mutex, m_locked, mode, dying>>

\* m_locked = false
ClearLocked(t) ==
  /\ pc[t] = "clear"
  /\ m_locked' = [m_locked EXCEPT ![t] = FALSE]
  /\ Goto(t, IF dying[t] THEN "none" ELSE "scope")
  /\ UNCHANGED <<mutex, mode, dying>>

Next ==
  \E t \in Threads :
    \/ \E m \in {"read", "write"} : Construct(t, m)
    \/ Lock(t) \/ Unlock(t) \/ Destruct(t)
    \/ MutexLock(t) \/ SetLocked(t) \/ MutexUnlock(t) \/ ClearLocked(t)

Spec == Init /\ [][Next]_vars

-----------------------------------------------------------------------------
(* Properties *)

\* Type invariant; a destructor never goes back to the scope.
TypeOK ==
  /\ readers \in SUBSET Threads
  /\ writer \in Threads \cup {NULL}
  /\ m_locked \in [Threads -> BOOLEAN]
  /\ mode \in [Threads -> {"read", "write"}]
  /\ pc \in [Threads -> PC]
  /\ dying \in [Threads -> BOOLEAN]
  /\ \A t \in Threads : dying[t] => pc[t] \in {"unlock", "clear", "none"}

\* "to prevent a forgotten unlock: the constructor locks, the destructor unlocks"
\* (thread.h:29): a thread without a guard holds no lock, whatever explicit lock
\* and unlock calls came before, and in the scope the flag says whether it holds.
GuardOwnsTheLock ==
  \A t \in Threads :
    /\ pc[t] = "none" => ~Holds(t)
    /\ pc[t] = "scope" => (m_locked[t] <=> Holds(t))

\* The thread of a locked write guard is alone; read guards share only with
\* read guards.
Exclusion ==
  \A t, u \in Threads :
    t # u /\ pc[t] = "scope" /\ pc[u] = "scope" /\ m_locked[t] /\ m_locked[u]
      => mode[t] = "read" /\ mode[u] = "read"

\* Every sequence of guard calls uses the lock as RWMutex demands.
M == INSTANCE RWMutex
UsesTheLock == M!Spec
=============================================================================
