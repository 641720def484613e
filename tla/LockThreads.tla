---------------------------- MODULE LockThreads ----------------------------
(***************************************************************************)
(* The threads that use the locks of src/src/thread.h, for the modules on  *)
(* its guards and on CASLock.                                              *)
(***************************************************************************)
CONSTANTS
  Threads,
  NULL      \* no thread

ASSUME LockAssumption == NULL \notin Threads
=============================================================================
