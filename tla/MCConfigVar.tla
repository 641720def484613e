---------------------------- MODULE MCConfigVar ----------------------------
(***************************************************************************)
(* Instances of ConfigVar.  MCConfigVar: two setters and two threads that  *)
(* add and remove listeners on one variable, with a throwing callback.     *)
(* MCConfigVarIds: two threads that register listeners on two variables of *)
(* one type.  Threads of a kind are interchangeable.                       *)
(***************************************************************************)
EXTENDS ConfigVar, TLC

ThreadSymmetry == Permutations(Setters) \cup Permutations(Listeners)
=============================================================================
