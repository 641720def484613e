------------------------------ MODULE MCFiber ------------------------------
(***************************************************************************)
(* Two threads and two sub-fibers: enough for a fiber to be suspended on   *)
(* one thread and resumed on the other while a second fiber does the same. *)
(***************************************************************************)
EXTENDS Fiber
=============================================================================
