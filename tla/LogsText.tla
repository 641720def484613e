------------------------------ MODULE LogsText ------------------------------
(***************************************************************************)
(* The configuration variable "logs" of src/src/log.cpp and its text: a    *)
(* document is read, and either printed and read again, or applied to the  *)
(* loggers of a new manager, which are exported and read again.            *)
(*                                                                         *)
(* The steps of fromString and toString take what the casts give, and are  *)
(* those of the other variables (module ConfigText), too.                  *)
(***************************************************************************)
EXTENDS LogDefine

CONSTANT LogTexts  \* documents for "logs": sequences of logger nodes

ASSUME LogsTextAssumption ==
  /\ NULL # "root"
  /\ \A doc \in LogTexts :
       /\ doc \in Seq(ToSet(doc))
       /\ \A k \in DOMAIN doc : doc[k].appenders \in Seq(ToSet(doc[k].appenders))

VARIABLES
  stage,
  type,    \* T of the ConfigVar<T>
  text,    \* the text in hand
  val,     \* m_val
  again,   \* the value of a variable that the text printed is read into
  loggers  \* m_loggers of the LoggerManager

textVars == <<stage, type, text, val, again, loggers>>

\* set<LogDefine>
Logs == <<"set", "LogDefine">>

\* The logger of the LoggerManager's constructor: StdoutLogAppender() has a level,
\* and follows the formatter of its logger.
DefaultRoot ==
  [m_level |-> DEBUG, m_formatter |-> DefaultFmt,
   m_appenders |-> <<[type |-> 2, file |-> EMPTY, m_level |-> DEBUG,
                      m_formatter |-> DefaultFmt, m_hasFormatter |-> FALSE]>>]

LogsInit ==
  /\ type = Logs
  /\ text \in LogTexts
  /\ val = <<>>
  /\ again = <<>>
  /\ loggers = [name \in {"root"} |-> DefaultRoot]
  /\ stage = "text"

-----------------------------------------------------------------------------
(* fromString, and toString *)

ReadText(v) ==
  /\ stage = "text"
  /\ val' = v
  /\ stage' = "read"
  /\ UNCHANGED <<type, text, again, loggers>>

PrintValue(t) ==
  /\ stage \in {"read", "set"}
  /\ text' = t
  /\ stage' = IF stage = "read" THEN "printed" ELSE "printed set"
  /\ UNCHANGED <<type, val, again, loggers>>

\* The printed or exported text is read.
ReadAgain(v) ==
  /\ stage \in {"printed", "printed set", "exported"}
  /\ again' = v
  /\ stage' = IF stage = "printed" THEN "reread"
              ELSE IF stage = "printed set" THEN "reread set" ELSE "imported"
  /\ UNCHANGED <<type, text, val, loggers>>

-----------------------------------------------------------------------------
(* The loggers *)

\* The change listener of "logs": a logger that no definition names, which can
\* only be the root logger, stays as it is.
Configure ==
  /\ stage = "read"
  /\ loggers' = [name \in DOMAIN loggers \cup DOMAIN val |->
                   IF name \in DOMAIN val THEN Apply(val[name]) ELSE loggers[name]]
  /\ stage' = "applied"
  /\ UNCHANGED <<type, text, val, again>>

\* LoggerManager::toYamlString
Export ==
  /\ stage = "applied"
  /\ text' = ManagerToYaml(loggers)
  /\ stage' = "exported"
  /\ UNCHANGED <<type, val, again, loggers>>

LogsNext ==
  \/ ReadText(ReadLogs(text)) \/ PrintValue(PrintLogs(val)) \/ ReadAgain(ReadLogs(text))
  \/ Configure \/ Export

LogsSpec == LogsInit /\ [][LogsNext]_textVars

-----------------------------------------------------------------------------
(* Properties *)

\* Type invariant; every appender that is read is a file appender with a file or
\* a stdout appender, whatever the text, so that the listener, which makes no
\* appender of another type, never has a null one (log.cpp:892-899).
TypeOK ==
  /\ stage \in {"text", "set", "read", "printed", "printed set", "applied", "exported",
                "reread", "reread set", "imported"}
  /\ type = Logs => \A ds \in {val, again} : \A name \in DOMAIN ds :
       /\ ds[name].level \in Level
       /\ \A k \in DOMAIN ds[name].appenders :
            LET a == ds[name].appenders[k] IN
            (a.type = 1 /\ a.file # NULL) \/ a.type = 2

\* A logger whose appenders have lost their levels.
Unlevelled(l) ==
  [m_level |-> l.m_level, m_formatter |-> l.m_formatter,
   m_appenders |-> [k \in DOMAIN l.m_appenders |-> [l.m_appenders[k] EXCEPT !.m_level = UNKNOW]]]

\* What toYamlString exports is read back as the loggers of the manager, the root
\* logger that no definition names included: same loggers, level, formatters and
\* appenders, and the same appenders follow their logger's formatter.  Lost are the
\* levels of appenders, which are written (log.cpp:455, 503) and not read (768-789): an
\* appender comes back with UNKNOW, and so takes every event.
ExportReimports ==
  stage = "imported" =>
    /\ DOMAIN again = DOMAIN loggers
    /\ \A name \in DOMAIN again : Apply(again[name]) = Unlevelled(loggers[name])

\* What toString writes of "logs" is read as its value, and every formatter of a
\* logger is lost on the way: the test of log.cpp:816 is inverted, and writes a
\* formatter only when it is empty.  Nothing else is lost.
LogsReread ==
  stage = "reread" /\ type = Logs =>
    again = [name \in DOMAIN val |-> [val[name] EXCEPT !.formatter = EMPTY]]
=============================================================================
