------------------------------ MODULE MCLogger ------------------------------
(***************************************************************************)
(* Configurations of the shape of src/src/log.yml, for "root" and one more *)
(* logger.                                                                 *)
(***************************************************************************)
EXTENDS Logger, TLC

CONSTANTS root, system, f0, f1

Stdout(f) == [type |-> 2, level |-> UNKNOW, formatter |-> f]
File(f)   == [type |-> 1, level |-> UNKNOW, formatter |-> f]
Def(level, f, appenders) == [level |-> level, formatter |-> f, appenders |-> appenders]

A == (root :> Def(FATAL, BAD, <<Stdout(f1), File(BAD)>>))
B == (root :> Def(DEBUG, f1, <<Stdout(NULL)>>)) @@ (system :> Def(UNKNOW, NULL, <<File(NULL)>>))

\* B with another root: "system" stays the same.
D == (root :> Def(FATAL, f1, <<>>)) @@ B

MCConfigs == {A, B, D}

CONSTANTS r1, r2, t1, u1, u2
MCPrograms == {{r1, t1}, {r1, u1}, {t1, u1, u2}, {r1, r2}}
=============================================================================
