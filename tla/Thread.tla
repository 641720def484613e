------------------------------- MODULE Thread -------------------------------
(***************************************************************************)
(* The Thread class of src/src/thread.cpp: the constructor, which starts   *)
(* run and waits for it on a semaphore, join, the destructor, setName, and *)
(* run itself on the new thread.  A Thread object o and the pthread it     *)
(* creates are both named o.  Each object has one owner, which constructs, *)
(* joins and destroys it; owner[o] is where that owner is, run[o] where    *)
(* the new thread is.  A signal may interrupt the constructor's sem_wait,   *)
(* which is not retried.                                                   *)
(***************************************************************************)
EXTENDS Naturals

CONSTANTS
  Threads,   \* the Thread objects
  Names,     \* the names passed to constructors and setName
  UNKNOW,    \* the default name
  EMPTY,     \* the empty string as a constructor argument
  Namers     \* the objects whose callback calls setName

ASSUME ThreadAssumption ==
  /\ Namers \subseteq Threads
  /\ UNKNOW \notin Names
  /\ EMPTY \notin Names \cup {UNKNOW}

VARIABLES
  m_id, m_cb, m_name, m_thread,  \* the fields of every object
  sem,                           \* the value of m_semaphore
  owner, run,
  t_thread, t_thread_name,       \* the thread_local variables of the new thread
  reaped,                        \* how often the pthread was joined or detached
  stale,                         \* the objects used after their destruction
  interrupted                    \* those whose constructor a signal ended

fields == <<m_id, m_cb, m_name, m_thread, sem>>
local  == <<t_thread, t_thread_name>>
vars   == <<fields, owner, run, local, reaped, stale, interrupted>>

\* "none" before, "wait" in the constructor, "live" outside any call, "join" in
\* join, "dead" after the destructor or after a constructor that threw.
Owner == {"none", "wait", "live", "join", "dead"}

\* The points of run: its first lines, cb.swap, notify, the callback, the end.
Run == {"none", "start", "swap", "notify", "cb", "done"}

Init ==
  /\ m_id = [o \in Threads |-> FALSE]
  /\ m_cb = [o \in Threads |-> FALSE]
  /\ m_name = [o \in Threads |-> UNKNOW]
  /\ m_thread = [o \in Threads |-> FALSE]
  /\ sem = [o \in Threads |-> 0]
  /\ owner = [o \in Threads |-> "none"]
  /\ run = [o \in Threads |-> "none"]
  /\ t_thread = [o \in Threads |-> FALSE]
  /\ t_thread_name = [o \in Threads |-> UNKNOW]
  /\ reaped = [o \in Threads |-> 0]
  /\ stale = {}
  /\ interrupted = {}

-----------------------------------------------------------------------------
\* The new thread dereferences its Thread object.
Use(o) == stale' = IF owner[o] = "dead" THEN stale \cup {o} ELSE stale

OwnerGoto(o, label) == owner' = [owner EXCEPT ![o] = label]
RunGoto(o, label)   == run' = [run EXCEPT ![o] = label]

\* An empty name becomes "UNKNOW"; the mutant forgets that.
NameAsGiven(name) == name
NameOf(name) == IF name = EMPTY THEN UNKNOW ELSE name

(* The constructor up to m_semaphore.wait() *)
Construct(o, name) ==
  /\ owner[o] = "none"
  /\ m_cb' = [m_cb EXCEPT ![o] = TRUE]
  /\ m_name' = [m_name EXCEPT ![o] = NameOf(name)]
  /\ m_thread' = [m_thread EXCEPT ![o] = TRUE]
  /\ RunGoto(o, "start")
  /\ OwnerGoto(o, "wait")
  /\ UNCHANGED <<m_id, sem, local, reaped, stale, interrupted>>

\* pthread_create fails: the constructor throws, and no object is left.
ConstructFails(o) ==
  /\ owner[o] = "none"
  /\ OwnerGoto(o, "dead")
  /\ UNCHANGED <<fields, run, local, reaped, stale, interrupted>>

\* Mutant of Constructed: the constructor does not wait.
ConstructedAtOnce(o) ==
  /\ owner[o] = "wait"
  /\ OwnerGoto(o, "live")
  /\ UNCHANGED <<fields, run, local, reaped, stale, interrupted>>

\* m_semaphore.wait() returns, and with it the constructor.
Constructed(o) ==
  /\ owner[o] = "wait"
  /\ sem[o] > 0
  /\ sem' = [sem EXCEPT ![o] = @ - 1]
  /\ OwnerGoto(o, "live")
  /\ UNCHANGED <<m_id, m_cb, m_name, m_thread, run, local, reaped, stale, interrupted>>

\* sem_wait fails with EINTR: the constructor throws.  What it had made is
\* destroyed, ~Thread is not called, and run is on its way.
ConstructInterrupted(o) ==
  /\ owner[o] = "wait"
  /\ interrupted' = interrupted \cup {o}
  /\ OwnerGoto(o, "dead")
  /\ UNCHANGED <<fields, run, local, reaped, stale>>

(* Thread::run on the new thread *)
RunStart(o) ==
  /\ run[o] = "start"
  /\ t_thread' = [t_thread EXCEPT ![o] = TRUE]
  /\ m_id' = [m_id EXCEPT ![o] = TRUE]
  /\ Use(o)
  /\ RunGoto(o, "swap")
  /\ UNCHANGED <<m_cb, m_name, m_thread, sem, owner, t_thread_name, reaped, interrupted>>

RunSwap(o) ==
  /\ run[o] = "swap"
  /\ m_cb' = [m_cb EXCEPT ![o] = FALSE]
  /\ Use(o)
  /\ RunGoto(o, "notify")
  /\ UNCHANGED <<m_id, m_name, m_thread, sem, owner, local, reaped, interrupted>>

\* Mutant of RunNotify: the notify is forgotten.
RunNotifyLost(o) ==
  /\ run[o] = "notify"
  /\ Use(o)
  /\ RunGoto(o, "cb")
  /\ UNCHANGED <<fields, owner, local, reaped, interrupted>>

RunNotify(o) ==
  /\ run[o] = "notify"
  /\ sem' = [sem EXCEPT ![o] = @ + 1]
  /\ Use(o)
  /\ RunGoto(o, "cb")
  /\ UNCHANGED <<m_id, m_cb, m_name, m_thread, owner, local, reaped, interrupted>>

\* Thread::setName called in the callback
SetName(o, name) ==
  /\ run[o] = "cb"
  /\ o \in Namers
  /\ t_thread[o]
  /\ m_name' = [m_name EXCEPT ![o] = name]
  /\ t_thread_name' = [t_thread_name EXCEPT ![o] = name]
  /\ Use(o)
  /\ UNCHANGED <<m_id, m_cb, m_thread, sem, owner, run, t_thread, reaped, interrupted>>

\* cb() returns, and run with it.
RunEnd(o) ==
  /\ run[o] = "cb"
  /\ RunGoto(o, "done")
  /\ UNCHANGED <<fields, owner, local, reaped, stale, interrupted>>

(* join: without a thread handle it returns at once *)
Join(o) ==
  /\ owner[o] = "live"
  /\ OwnerGoto(o, IF m_thread[o] THEN "join" ELSE "live")
  /\ UNCHANGED <<fields, run, local, reaped, stale, interrupted>>

\* Mutant of Joined: m_thread keeps the handle.
JoinedKeepsHandle(o) ==
  /\ owner[o] = "join"
  /\ run[o] = "done"
  /\ reaped' = [reaped EXCEPT ![o] = @ + 1]
  /\ OwnerGoto(o, "live")
  /\ UNCHANGED <<fields, run, local, stale, interrupted>>

\* pthread_join returns; m_thread = 0
Joined(o) ==
  /\ owner[o] = "join"
  /\ run[o] = "done"
  /\ reaped' = [reaped EXCEPT ![o] = @ + 1]
  /\ m_thread' = [m_thread EXCEPT ![o] = FALSE]
  /\ OwnerGoto(o, "live")
  /\ UNCHANGED <<m_id, m_cb, m_name, sem, run, local, stale, interrupted>>

(* ~Thread: a thread that was not joined is detached *)
Detach(o) ==
  /\ owner[o] = "live"
  /\ reaped' = [reaped EXCEPT ![o] = IF m_thread[o] THEN @ + 1 ELSE @]
  /\ OwnerGoto(o, "dead")
  /\ UNCHANGED <<fields, run, local, stale, interrupted>>

\* The owner keeps an object until it was joined if its callback uses it.
Destroy(o) == (m_thread[o] => o \notin Namers) /\ Detach(o)

Next ==
  \E o \in Threads :
    \/ \E name \in Names \cup {EMPTY} : Construct(o, name)
    \/ ConstructFails(o) \/ Constructed(o) \/ ConstructInterrupted(o)
    \/ RunStart(o) \/ RunSwap(o) \/ RunNotify(o) \/ RunEnd(o)
    \/ \E name \in Names : SetName(o, name)
    \/ Join(o) \/ Joined(o) \/ Destroy(o)

\* The kernel schedules the new thread and the callback ends; an owner blocked
\* in a call continues when it can.
Fairness ==
  \A o \in Threads :
    WF_vars(RunStart(o) \/ RunSwap(o) \/ RunNotify(o) \/ RunEnd(o))
      /\ WF_vars(Constructed(o)) /\ WF_vars(Joined(o))

Spec == Init /\ [][Next]_vars /\ Fairness

-----------------------------------------------------------------------------
(* Properties *)

\* Type invariant; the semaphore never counts more than the one notify.
TypeOK ==
  /\ m_id \in [Threads -> BOOLEAN]
  /\ m_cb \in [Threads -> BOOLEAN]
  /\ m_name \in [Threads -> Names \cup {UNKNOW}]
  /\ m_thread \in [Threads -> BOOLEAN]
  /\ sem \in [Threads -> 0..1]
  /\ owner \in [Threads -> Owner]
  /\ run \in [Threads -> Run]
  /\ t_thread \in [Threads -> BOOLEAN]
  /\ t_thread_name \in [Threads -> Names \cup {UNKNOW}]
  /\ reaped \in [Threads -> Nat]
  /\ stale \in SUBSET Threads
  /\ interrupted \in SUBSET Threads

\* run and the callback never use the Thread object after its destruction,
\* although a detaching owner may destroy it as soon as the constructor returns,
\* unless a signal ended the constructor's wait (thread.cpp:29).
NoUseAfterDestruction == stale \subseteq interrupted

\* A pthread is joined or detached exactly once: never by join and then again by
\* join or ~Thread, and never not at all once its object is destroyed, unless a
\* signal ended its constructor, which leaves it to nobody.
ReapedOnce ==
  \A o \in Threads :
    /\ reaped[o] <= 1
    /\ owner[o] = "dead" /\ run[o] # "none" => (reaped[o] = 1 <=> o \notin interrupted)

\* The constructor and join return, the constructor perhaps by throwing: the
\* notify is never lost, and the handle that join waits on belongs to a thread
\* that ends.
CallsReturn ==
  \A o \in Threads : owner[o] \in {"wait", "join"} ~> (owner[o] = "live" \/ o \in interrupted)
=============================================================================
