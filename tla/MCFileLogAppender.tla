------------------------- MODULE MCFileLogAppender -------------------------
(***************************************************************************)
(* Two threads, three seconds and three files: one thread can be overtaken *)
(* in log by another that logs in the next second, across two deletions.   *)
(***************************************************************************)
EXTENDS FileLogAppender
=============================================================================
