------------------------------ MODULE RWMutex ------------------------------
(***************************************************************************)
(* What the lock classes of src/src/thread.h promise and require: many     *)
(* readers or one writer, unlocked only by a thread that holds the lock,   *)
(* never locked again by a thread that holds it (which would never return  *)
(* or is undefined).  A Mutex, Spinlock or CASLock is one without readers. *)
(***************************************************************************)
CONSTANTS
  Threads,
  NULL      \* no thread

VARIABLES readers, writer

Init ==
  /\ readers = {}
  /\ writer = NULL

rdlock(t) ==
  /\ writer = NULL
  /\ t \notin readers
  /\ readers' = readers \cup {t}
  /\ writer' = writer

wrlock(t) ==
  /\ writer = NULL
  /\ readers = {}
  /\ writer' = t
  /\ readers' = readers

unlock(t) ==
  /\ writer = t \/ t \in readers
  /\ readers' = readers \ {t}
  /\ writer' = NULL

Next == \E t \in Threads : rdlock(t) \/ wrlock(t) \/ unlock(t)

Spec == Init /\ [][Next]_<<readers, writer>>
=============================================================================
