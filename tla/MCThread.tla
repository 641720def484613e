------------------------------ MODULE MCThread ------------------------------
(***************************************************************************)
(* Two Thread objects, one of which names itself from its callback.        *)
(***************************************************************************)
EXTENDS Thread
=============================================================================
