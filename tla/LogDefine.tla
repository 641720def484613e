----------------------------- MODULE LogDefine -----------------------------
(***************************************************************************)
(* The "logs" configuration as text: the LexicalCasts that log.cpp         *)
(* specialises for set<LogDefine>, and the toYamlString of loggers and     *)
(* appenders.                                                              *)
(*                                                                         *)
(* A YAML node is a record of its fields, NULL where one is not defined,   *)
(* and <<>> where it has no appenders: the loop over those is the same.    *)
(* Strings are what the code tells apart.                                  *)
(***************************************************************************)
EXTENDS Naturals, Sequences, SequencesExt

CONSTANTS
  Formatters,  \* the valid patterns
  DefaultFmt,  \* the one of the Logger constructor
  EMPTY,       \* ""
  NULL         \* a field that is not defined

\* The names of levels and of types of appenders
LevelNames == {"debug", "DEBUG", "fatal", "FATAL"}
TypeNames == {"FileLogAppender", "StdoutLogAppender"}

ASSUME LogDefineAssumption ==
  /\ DefaultFmt \in Formatters
  /\ EMPTY \notin Formatters \cup LevelNames
  /\ NULL \notin Formatters \cup {EMPTY} \cup LevelNames \cup TypeNames

-----------------------------------------------------------------------------
(* LogLevel *)

UNKNOW == 0
DEBUG  == 1
FATAL  == 5
Level == {UNKNOW, DEBUG, FATAL}
LevelToString(level) ==
  IF level = DEBUG THEN "DEBUG" ELSE IF level = FATAL THEN "FATAL" ELSE "UNKNOW"
LevelFromString(s) ==
  IF s \in {"debug", "DEBUG"} THEN DEBUG ELSE IF s \in {"fatal", "FATAL"} THEN FATAL ELSE UNKNOW

Or(field, default) == IF field = NULL THEN default ELSE field

(* LexicalCast<std::string, std::set<LogDefine>> *)

\* Mutant of Accepted: an unknown type is not refused.
AcceptedAnyType(a) == a.type # NULL /\ (a.type = "FileLogAppender" => a.file # NULL)

\* The appender nodes that are not skipped by a continue.
Accepted(a) == \/ a.type = "FileLogAppender" /\ a.file # NULL
               \/ a.type = "StdoutLogAppender"

\* The level of the node is not read.
ReadAppender(a) ==
  [type |-> IF a.type = "FileLogAppender" THEN 1 ELSE IF a.type = "StdoutLogAppender" THEN 2 ELSE 0,
   level |-> UNKNOW,
   formatter |-> Or(a.formatter, EMPTY),
   file |-> IF a.type = "FileLogAppender" THEN a.file ELSE EMPTY]

\* What the loop has pushed behind each node; its last value.
Pushed(nodes, before, k) ==
  IF k = 0 THEN <<>>
  ELSE IF Accepted(nodes[k]) THEN Append(before[k - 1], ReadAppender(nodes[k]))
  ELSE before[k - 1]
ReadAppenders(nodes) ==
  LET after[k \in 0 .. Len(nodes)] == Pushed(nodes, after, k) IN after[Len(nodes)]

ReadDefine(n) ==
  [level |-> LevelFromString(Or(n.level, EMPTY)),
   formatter |-> Or(n.formatter, EMPTY),
   appenders |-> ReadAppenders(n.appenders)]

\* The set is ordered by name, and insert keeps the definition that is there.
ReadLogs(doc) ==
  [name \in {doc[i].name : i \in DOMAIN doc} \ {NULL} |->
     ReadDefine(doc[CHOOSE i \in DOMAIN doc :
       doc[i].name = name /\ \A j \in DOMAIN doc : doc[j].name = name => i <= j])]

(* LexicalCast<std::set<LogDefine>, std::string> *)

LevelField(level) == IF level = UNKNOW THEN NULL ELSE LevelToString(level)
TypeField(type) ==
  IF type = 1 THEN "FileLogAppender" ELSE IF type = 2 THEN "StdoutLogAppender" ELSE NULL
FileField(a) == IF a.type = 1 THEN a.file ELSE NULL

PrintAppender(a) ==
  [type |-> TypeField(a.type), file |-> FileField(a), level |-> LevelField(a.level),
   formatter |-> IF a.formatter = EMPTY THEN NULL ELSE a.formatter]

\* if(i.formatter.empty()) n["formatter"] = i.formatter
PrintDefine(name, d) ==
  [name |-> name, level |-> LevelField(d.level),
   formatter |-> IF d.formatter = EMPTY THEN d.formatter ELSE NULL,
   appenders |-> [i \in DOMAIN d.appenders |-> PrintAppender(d.appenders[i])]]

PrintLogs(ds) == SetToSeq({PrintDefine(name, ds[name]) : name \in DOMAIN ds})

-----------------------------------------------------------------------------
(* The listener applied to a logger as its constructor leaves it, and       *)
(* toYamlString                                                             *)

ApplyAppender(a, fmt) ==
  LET own == a.formatter \in Formatters IN
  [type |-> a.type, file |-> a.file, m_level |-> a.level,
   m_formatter |-> IF own THEN a.formatter ELSE fmt, m_hasFormatter |-> own]

Apply(d) ==
  LET fmt == IF d.formatter \in Formatters THEN d.formatter ELSE DefaultFmt IN
  [m_level |-> d.level, m_formatter |-> fmt,
   m_appenders |-> [i \in DOMAIN d.appenders |-> ApplyAppender(d.appenders[i], fmt)]]

\* Mutant of AppenderToYaml: an inherited formatter is written, too.
AppenderToYamlAll(a) ==
  [type |-> TypeField(a.type), file |-> FileField(a), level |-> LevelField(a.m_level),
   formatter |-> a.m_formatter]

AppenderToYaml(a) ==
  [type |-> TypeField(a.type), file |-> FileField(a), level |-> LevelField(a.m_level),
   formatter |-> IF a.m_hasFormatter THEN a.m_formatter ELSE NULL]

LoggerToYaml(name, l) ==
  [name |-> name, level |-> LevelField(l.m_level), formatter |-> l.m_formatter,
   appenders |-> [i \in DOMAIN l.m_appenders |-> AppenderToYaml(l.m_appenders[i])]]

ManagerToYaml(ls) == SetToSeq({LoggerToYaml(name, ls[name]) : name \in DOMAIN ls})
=============================================================================
