------------------------------- MODULE Logger -------------------------------
(***************************************************************************)
(* Logger, LoggerManager and the listener that applies a changed "logs"    *)
(* configuration to them (src/src/log.cpp), while other threads log, set   *)
(* formatters, and add and remove an appender of their own.                *)
(*                                                                         *)
(* A method of Logger and LoggerManager is one critical section of its     *)
(* spinlock, and one step here, but for three that are followed inside:    *)
(* log, which holds the lock while it walks the list of appenders, the     *)
(* addAppender of an appender that other threads know, which looks at its  *)
(* formatter and sets it in two sections of the appender's lock, and       *)
(* delAppender, which takes no lock to search the list and to erase.       *)
(*                                                                         *)
(* A configuration is the set<LogDefine>: a function from logger names to  *)
(* their definitions.  Definitions are compared as a whole, found by name. *)
(* A formatter is a model value; BAD stands for one with an error in its   *)
(* pattern, which formats nevertheless.                                    *)
(***************************************************************************)
EXTENDS Naturals, Sequences, SequencesExt

CONSTANTS
  Reloaders,   \* the threads that set the "logs" variable
  Threads,     \* the threads that log
  Users,       \* the threads that change loggers and the appender they share
  Programs,    \* the programs: sets of such threads
  Names, Root, \* the logger names, and "root"
  Configs,     \* the configurations that are set
  Formatters,  \* the valid formatters
  DefaultFmt,  \* the one of the Logger constructor
  BAD,         \* a pattern with an error
  NULL         \* nullptr, and the empty formatter string of a definition

\* LogLevel::Level: UNKNOW, DEBUG, INFO, FATAL, and the cast 100 of a deleted logger
UNKNOW == 0
DEBUG  == 1
INFO   == 2
FATAL  == 5
OFF    == 100
Levels == {UNKNOW, DEBUG, INFO, FATAL, OFF}

\* What a LogFormatter::ptr can be
FormatterPtr == Formatters \cup {NULL, BAD}

\* LogAppenderDefine and LogDefine
AppenderDefine == [type : {1, 2}, level : Levels, formatter : FormatterPtr]
LoggerDefine == [level : Levels, formatter : FormatterPtr, appenders : Seq(AppenderDefine)]

\* The threads that walk over appenders: the listener logs as well.
Walkers == Threads \cup Reloaders

ASSUME LoggerAssumption ==
  /\ Root \in Names
  /\ DefaultFmt \in Formatters
  /\ NULL \notin Formatters \cup Names \cup Walkers \cup Users \cup {"logger", "formatter", "iterator"}
  /\ BAD \notin Formatters \cup {NULL}
  /\ Walkers \cap Users = {}
  /\ Programs \subseteq SUBSET (Reloaders \cup Threads \cup Users)
  /\ \A c \in Configs : DOMAIN c \subseteq Names /\ \A n \in DOMAIN c : c[n] \in LoggerDefine

VARIABLES
  program,                            \* the threads there are
  m_loggers,                          \* the names LoggerManager has a logger for
  m_level, m_formatter, m_appenders,  \* the fields of every logger
  m_mutex,                            \* who is inside the lock of a logger
  mine,                               \* the appender of the users
  adding,                             \* the logger whose addAppender a user is inside of
  erasing,                            \* the logger in whose delAppender a user found the appender
  lost,                               \* the users whose list was used since by another thread
  g_log_defines,                      \* the value of the "logs" variable
  removed,                            \* the names that its last change took out
  pc, old, new,                       \* a reloader: its point, old_value, new_value
  todo, cur, made,                    \* names left in the loop, the current one, appenders added
  mixed,                              \* the last reload began while another was under way
  event,                              \* where the event of a thread is
  crashed                             \* a null pointer or a lost iterator was used

fields   == <<m_level, m_formatter, m_appenders>>
erasers  == <<erasing, lost>>
logger   == <<program, m_loggers, fields, m_mutex, mine, adding, erasers>>
listener == <<pc, old, new, todo, cur, made, mixed>>
conf     == <<g_log_defines, removed>>
vars     == <<logger, conf, listener, event, crashed>>

PC == {"idle", "next", "level", "formatter", "clear", "add", "removed", "store"}

NoConfig == <<>>

\* The users' appender in a list; its state is in mine.
Mine == [type |-> 0]

\* The manager's constructor: a root logger with a StdoutLogAppender.  The users'
\* appender has no formatter yet.  Of its fields, own is the formatter given to
\* it, loose says that it was given nullptr or came from another logger, over
\* that addAppender overwrote the formatter given to it.
Init ==
  /\ program \in Programs
  /\ m_loggers = {Root}
  /\ m_level = [n \in Names |-> DEBUG]
  /\ m_formatter = [n \in Names |-> DefaultFmt]
  /\ m_appenders = [n \in Names |-> IF n = Root
                      THEN <<[type |-> 2, level |-> DEBUG, fmt |-> DefaultFmt, has |-> FALSE]>>
                      ELSE <<>>]
  /\ m_mutex = [n \in Names |-> NULL]
  /\ mine = [fmt |-> NULL, has |-> FALSE, own |-> NULL, loose |-> FALSE, over |-> FALSE]
  /\ adding = [u \in Users |-> NULL]
  /\ erasing = [u \in Users |-> NULL]
  /\ lost = {}
  /\ g_log_defines = NoConfig
  /\ removed = {}
  /\ pc = [r \in Reloaders |-> "idle"]
  /\ old = [r \in Reloaders |-> NoConfig]
  /\ new = [r \in Reloaders |-> NoConfig]
  /\ todo = [r \in Reloaders |-> {}]
  /\ cur = [r \in Reloaders |-> NULL]
  /\ made = [r \in Reloaders |-> 0]
  /\ mixed = FALSE
  /\ event = [t \in Walkers |-> NULL]
  /\ crashed = NULL

-----------------------------------------------------------------------------
(* The methods of Logger, as functions of the fields *)

\* Mutant of Free: the lock is not taken.
FreeAlways(n) == TRUE

\* MutexType::Lock lock(m_mutex), for a method that is one step
Free(n) == m_mutex[n] = NULL

\* Mutant of WithFormatter: the appenders are forgotten.
WithOldFormatter(appenders, f) == appenders

\* Logger::setFormatter: the appenders without one of their own follow.
WithFormatter(appenders, f) ==
  [i \in DOMAIN appenders |-> IF appenders[i] = Mine \/ appenders[i].has THEN appenders[i]
                              ELSE [appenders[i] EXCEPT !.fmt = f]]

Attached(n) == \E i \in DOMAIN m_appenders[n] : m_appenders[n][i] = Mine

\* The list of logger n is used while users are inside their delAppender of it: a
\* data race, which the erase makes out.
Touch(n) == lost' = lost \cup {u \in Users : erasing[u] = n}

SetFormatter(n, f) ==
  /\ Free(n)
  /\ Touch(n)
  /\ m_formatter' = [m_formatter EXCEPT ![n] = f]
  /\ m_appenders' = [m_appenders EXCEPT ![n] = WithFormatter(@, f)]
  /\ mine' = IF Attached(n) /\ ~mine.has THEN [mine EXCEPT !.fmt = f, !.loose = FALSE] ELSE mine

\* Mutant of AddAppender: nothing is inherited.
AddAppenderBare(n, a) ==
  /\ Touch(n)
  /\ m_appenders' = [m_appenders EXCEPT ![n] = Append(@, a)]

\* Logger::addAppender: an appender without a formatter takes the logger's.
AddAppender(n, a) ==
  /\ Touch(n)
  /\ m_appenders' = [m_appenders EXCEPT ![n] =
                       Append(@, IF a.fmt = NULL THEN [a EXCEPT !.fmt = m_formatter[n]] ELSE a)]

\* LoggerManager::getLogger
GetLogger(n) == m_loggers' = m_loggers \cup {n}

-----------------------------------------------------------------------------
(* Logging *)

\* LOG_LEVEL tests the level and LOG_FMT_LEVEL does not; either makes an event,
\* which the destructor of the LogEventWrap logs.
LogEventWrap(t, n, level) ==
  /\ t \in program
  /\ crashed = NULL
  /\ n \in m_loggers
  /\ event[t] = NULL
  /\ event' = [event EXCEPT ![t] = [at |-> "wrapped", logger |-> n, level |-> level]]
  /\ UNCHANGED <<logger, conf, listener, crashed>>

\* Logger::log compares the level before it takes the lock.
Log(t) ==
  /\ crashed = NULL
  /\ event[t] # NULL /\ event[t].at = "wrapped"
  /\ event' = [event EXCEPT ![t] = IF @.level >= m_level[@.logger] THEN [@ EXCEPT !.at = "lock"] ELSE NULL]
  /\ UNCHANGED <<logger, conf, listener, crashed>>

\* The thread is inside the list of logger n, at its first appender.
Iterate(t, n) ==
  [at |-> "list", logger |-> event[t].logger, level |-> event[t].level, of |-> n, i |-> 1,
   all |-> m_appenders[n], raced |-> FALSE]

\* The lock of the logger: it has appenders, or the event goes on to the root
\* logger's log, with its own test of the level.
LogLock(t) ==
  LET n == event[t].logger IN
  /\ crashed = NULL
  /\ event[t] # NULL /\ event[t].at = "lock"
  /\ Free(n)
  /\ \/ /\ m_appenders[n] # <<>>
        /\ m_mutex' = [m_mutex EXCEPT ![n] = t]
        /\ event' = [event EXCEPT ![t] = Iterate(t, n)]
     \/ /\ m_appenders[n] = <<>> /\ n # Root /\ event[t].level >= m_level[Root]
        /\ m_mutex' = [m_mutex EXCEPT ![n] = t]
        /\ event' = [event EXCEPT ![t].at = "root"]
     \/ /\ m_appenders[n] = <<>> /\ (n = Root \/ event[t].level < m_level[Root])
        /\ event' = [event EXCEPT ![t] = NULL]
        /\ UNCHANGED m_mutex
  /\ UNCHANGED <<program, m_loggers, fields, mine, adding, erasers, conf, listener, crashed>>

\* The lock of the root logger, inside that of the logger
LogRoot(t) ==
  /\ crashed = NULL
  /\ event[t] # NULL /\ event[t].at = "root"
  /\ Free(Root)
  /\ m_mutex' = [m_mutex EXCEPT ![Root] = t]
  /\ event' = [event EXCEPT ![t] = Iterate(t, Root)]
  /\ UNCHANGED <<program, m_loggers, fields, mine, adding, erasers, conf, listener, crashed>>

\* LogAppender::log dereferences the formatter of an appender that takes the level.
\* The users' appender has the level of its constructor.
Takes(a, level) == a = Mine \/ level >= a.level
Fmt(a) == IF a = Mine THEN mine.fmt ELSE a.fmt

\* i->log(self, level, event), unless the list was changed under the iterator,
\* when anything may happen.
LogAppend(t) ==
  LET e == event[t] IN
  /\ crashed = NULL
  /\ e # NULL /\ e.at = "list" /\ e.i <= Len(e.all)
  /\ \/ /\ ~e.raced
        /\ crashed' = IF Takes(e.all[e.i], e.level) /\ Fmt(e.all[e.i]) = NULL THEN "formatter" ELSE NULL
     \/ e.raced /\ crashed' \in {NULL, "iterator"}
  /\ event' = [event EXCEPT ![t].i = @ + 1]
  /\ UNCHANGED <<logger, conf, listener>>

\* The end of the list: the locks are released.
LogEnd(t) ==
  LET e == event[t] IN
  /\ crashed = NULL
  /\ e # NULL /\ e.at = "list" /\ e.i > Len(e.all)
  /\ m_mutex' = [n \in Names |-> IF m_mutex[n] = t THEN NULL ELSE m_mutex[n]]
  /\ event' = [event EXCEPT ![t] = NULL]
  /\ UNCHANGED <<program, m_loggers, fields, mine, adding, erasers, conf, listener, crashed>>

-----------------------------------------------------------------------------
(* The users *)

Idle(u) == u \in program /\ crashed = NULL /\ adding[u] = NULL /\ erasing[u] = NULL

\* A thread gets a logger by name, and sets its formatter.
UserGetLogger(u, n) ==
  /\ Idle(u)
  /\ GetLogger(n)
  /\ UNCHANGED <<program, fields, m_mutex, mine, adding, erasers, conf, listener, event, crashed>>

\* Logger::setFormatter(LogFormatter::ptr) takes nullptr and a formatter with an
\* error; the overload for a pattern calls it with a valid one only.
UserSetFormatter(u, n, f) ==
  /\ Idle(u)
  /\ n \in m_loggers
  /\ SetFormatter(n, f)
  /\ UNCHANGED <<program, m_loggers, m_level, m_mutex, adding, erasing, conf, listener, event, crashed>>

\* LogAppender::setFormatter; nullptr takes the formatter away.
AppenderSetFormatter(u, f) ==
  /\ Idle(u)
  /\ mine' = [fmt |-> f, has |-> f # NULL, own |-> f, loose |-> f = NULL, over |-> FALSE]
  /\ UNCHANGED <<program, m_loggers, fields, m_mutex, adding, erasers, conf, listener, event, crashed>>

\* addAppender of the users' appender, which they put into one list at a time:
\* getFormatter, under its lock, and push_back if there is one.
UserAddAppender(u, n) ==
  /\ Idle(u)
  /\ n \in m_loggers
  /\ ~\E m \in Names : Attached(m) \/ \E v \in Users : adding[v] = m
  /\ Free(n)
  /\ IF mine.fmt # NULL
     THEN /\ m_appenders' = [m_appenders EXCEPT ![n] = Append(@, Mine)]
          /\ mine' = [mine EXCEPT !.loose = ~mine.has]
          /\ Touch(n)
          /\ UNCHANGED <<m_mutex, adding>>
     ELSE /\ m_mutex' = [m_mutex EXCEPT ![n] = u]
          /\ adding' = [adding EXCEPT ![u] = n]
          /\ UNCHANGED <<m_appenders, mine, lost>>
  /\ UNCHANGED <<program, m_loggers, m_level, m_formatter, erasing, conf, listener, event, crashed>>

\* The rest: the formatter is set, under the appender's lock again, and push_back.
InheritFormatter(u) ==
  LET n == adding[u] IN
  /\ crashed = NULL
  /\ n # NULL
  /\ mine' = [mine EXCEPT !.fmt = m_formatter[n], !.over = mine.has, !.loose = FALSE]
  /\ m_appenders' = [m_appenders EXCEPT ![n] = Append(@, Mine)]
  /\ m_mutex' = [m_mutex EXCEPT ![n] = NULL]
  /\ adding' = [adding EXCEPT ![u] = NULL]
  /\ Touch(n)
  /\ UNCHANGED <<program, m_loggers, m_level, m_formatter, erasing, conf, listener, event, crashed>>

\* delAppender takes no lock.  It finds the appender in the list
FindAppender(u, n) ==
  /\ Idle(u)
  /\ Attached(n)
  /\ erasing' = [erasing EXCEPT ![u] = n]
  /\ UNCHANGED <<program, m_loggers, fields, m_mutex, mine, adding, lost, conf, listener, event, crashed>>

Unlinked(n) == [m_appenders EXCEPT ![n] = RemoveFirst(@, Mine)]

\* and erases it, while threads walk over the list and other users may be about
\* to erase.  If the list was used in between, anything may happen.
EraseAppender(u) ==
  LET n == erasing[u] IN
  /\ crashed = NULL
  /\ n # NULL
  /\ \/ u \notin lost /\ m_appenders' = Unlinked(n) /\ UNCHANGED crashed
     \/ u \in lost /\ m_appenders' \in {m_appenders, Unlinked(n)} /\ crashed' \in {NULL, "iterator"}
  /\ erasing' = [erasing EXCEPT ![u] = NULL]
  /\ lost' = (lost \cup {v \in Users : erasing[v] = n}) \ {u}
  /\ event' = [t \in Walkers |-> IF event[t] # NULL /\ event[t].at = "list" /\ event[t].of = n
                                 THEN [event[t] EXCEPT !.raced = TRUE] ELSE event[t]]
  /\ UNCHANGED <<program, m_loggers, m_level, m_formatter, m_mutex, mine, adding, conf, listener>>

-----------------------------------------------------------------------------
(* The listener of LogIniter, called by ConfigVar::setValue *)

Goto(r, label) == pc' = [pc EXCEPT ![r] = label]
Running(r, label) == r \in program /\ pc[r] = label /\ event[r] = NULL /\ crashed = NULL

\* setValue of a different value calls the listener, which first logs to the root
\* logger, LOG_INFO(LOG_ROOT()), if its level lets it.
Reload(r, config) ==
  /\ Running(r, "idle")
  /\ config # g_log_defines
  /\ old' = [old EXCEPT ![r] = g_log_defines]
  /\ new' = [new EXCEPT ![r] = config]
  /\ todo' = [todo EXCEPT ![r] = DOMAIN config]
  /\ mixed' = \E q \in Reloaders : pc[q] # "idle"
  /\ event' = IF m_level[Root] <= INFO
              THEN [event EXCEPT ![r] = [at |-> "wrapped", logger |-> Root, level |-> INFO]]
              ELSE event
  /\ Goto(r, "next")
  /\ UNCHANGED <<logger, conf, cur, made, crashed>>

\* The loop over new_value: the logger pointer stays null for a definition that
\* did not change.
Chosen(r, n) ==
  IF n \notin DOMAIN old[r] THEN n
  ELSE IF new[r][n] # old[r][n] THEN n
  ELSE NULL

NextDefine(r, n) ==
  /\ Running(r, "next")
  /\ n \in todo[r]
  /\ todo' = [todo EXCEPT ![r] = @ \ {n}]
  /\ cur' = [cur EXCEPT ![r] = n]
  /\ made' = [made EXCEPT ![r] = 0]
  /\ IF Chosen(r, n) # NULL THEN GetLogger(n) ELSE UNCHANGED m_loggers
  /\ crashed' = IF Chosen(r, n) = NULL THEN "logger" ELSE NULL
  /\ Goto(r, "level")
  /\ UNCHANGED <<program, fields, m_mutex, mine, adding, erasers, conf, old, new, mixed, event>>

Define(r) == new[r][cur[r]]

ApplyLevel(r) ==
  /\ Running(r, "level")
  /\ m_level' = [m_level EXCEPT ![cur[r]] = Define(r).level]
  /\ Goto(r, "formatter")
  /\ UNCHANGED <<program, m_loggers, m_formatter, m_appenders, m_mutex, mine, adding, erasers, conf,
                 old, new, todo, cur, made, mixed, event, crashed>>

ApplyFormatter(r) ==
  /\ Running(r, "formatter")
  /\ IF Define(r).formatter \in Formatters
     THEN SetFormatter(cur[r], Define(r).formatter)
     ELSE UNCHANGED <<m_formatter, m_appenders, mine, lost>>
  /\ Goto(r, "clear")
  /\ UNCHANGED <<program, m_loggers, m_level, m_mutex, adding, erasing, conf,
                 old, new, todo, cur, made, mixed, event, crashed>>

ClearAppenders(r) ==
  /\ Running(r, "clear")
  /\ Free(cur[r])
  /\ Touch(cur[r])
  /\ m_appenders' = [m_appenders EXCEPT ![cur[r]] = <<>>]
  /\ Goto(r, "add")
  /\ UNCHANGED <<program, m_loggers, m_level, m_formatter, m_mutex, mine, adding, erasing, conf,
                 old, new, todo, cur, made, mixed, event, crashed>>

\* Mutant of NewAppender: isError() is not asked.
NewAppenderUnchecked(a) ==
  [type |-> a.type, level |-> a.level, fmt |-> a.formatter, has |-> a.formatter # NULL]

\* The new appender of a definition, before addAppender; the pattern of a bad
\* formatter is reported and not used.
NewAppender(a) ==
  IF a.formatter \in Formatters
  THEN [type |-> a.type, level |-> a.level, fmt |-> a.formatter, has |-> TRUE]
  ELSE [type |-> a.type, level |-> a.level, fmt |-> NULL, has |-> FALSE]

AddNext(r) ==
  /\ Running(r, "add")
  /\ made[r] < Len(Define(r).appenders)
  /\ Free(cur[r])
  /\ AddAppender(cur[r], NewAppender(Define(r).appenders[made[r] + 1]))
  /\ made' = [made EXCEPT ![r] = @ + 1]
  /\ UNCHANGED <<program, m_loggers, m_level, m_formatter, m_mutex, mine, adding, erasing, conf,
                 pc, old, new, todo, cur, mixed, event, crashed>>

EndDefine(r) ==
  /\ Running(r, "add")
  /\ made[r] = Len(Define(r).appenders)
  /\ Goto(r, "next")
  /\ UNCHANGED <<logger, conf, old, new, todo, cur, made, mixed, event, crashed>>

\* The second loop, over old_value.  An iterator is the set it belongs to and a
\* position: new_value.find(i) is compared with old_value.end().
EndNew(r) ==
  /\ Running(r, "next")
  /\ todo[r] = {}
  /\ todo' = [todo EXCEPT ![r] = DOMAIN old[r]]
  /\ Goto(r, "removed")
  /\ UNCHANGED <<logger, conf, old, new, cur, made, mixed, event, crashed>>

FindInNew(r, n) == [of |-> "new_value", at |-> IF n \in DOMAIN new[r] THEN n ELSE NULL]
RemovedTest(r, n) == FindInNew(r, n) = [of |-> "old_value", at |-> NULL]

RemoveDefine(r, n) ==
  /\ Running(r, "removed")
  /\ n \in todo[r]
  /\ todo' = [todo EXCEPT ![r] = @ \ {n}]
  /\ IF RemovedTest(r, n)
     THEN /\ Free(n)
          /\ Touch(n)
          /\ m_level' = [m_level EXCEPT ![n] = OFF]
          /\ m_appenders' = [m_appenders EXCEPT ![n] = <<>>]
     ELSE UNCHANGED <<m_level, m_appenders, lost>>
  /\ UNCHANGED <<program, m_loggers, m_formatter, m_mutex, mine, adding, erasing, conf,
                 pc, old, new, cur, made, mixed, event, crashed>>

EndListener(r) ==
  /\ Running(r, "removed")
  /\ todo[r] = {}
  /\ Goto(r, "store")
  /\ UNCHANGED <<logger, conf, old, new, todo, cur, made, mixed, event, crashed>>

\* setValue stores the value under the WriteLock, which no listener called by
\* another setValue lets it have.
EndReload(r) ==
  /\ Running(r, "store")
  /\ \A q \in Reloaders : pc[q] \in {"idle", "store"}
  /\ g_log_defines' = new[r]
  /\ removed' = DOMAIN g_log_defines \ DOMAIN new[r]
  /\ old' = [old EXCEPT ![r] = NoConfig]
  /\ new' = [new EXCEPT ![r] = NoConfig]
  /\ cur' = [cur EXCEPT ![r] = NULL]
  /\ made' = [made EXCEPT ![r] = 0]
  /\ Goto(r, "idle")
  /\ UNCHANGED <<logger, todo, mixed, event, crashed>>

Next ==
  \/ \E t \in Threads, n \in Names, level \in {DEBUG, FATAL} : LogEventWrap(t, n, level)
  \/ \E t \in Walkers :
       \/ Log(t) \/ LogLock(t) \/ LogRoot(t) \/ LogAppend(t) \/ LogEnd(t)
  \/ \E u \in Users :
       \/ \E n \in Names :
            \/ UserGetLogger(u, n) \/ UserAddAppender(u, n) \/ FindAppender(u, n)
            \/ \E f \in FormatterPtr : UserSetFormatter(u, n, f)
       \/ \E f \in FormatterPtr : AppenderSetFormatter(u, f)
       \/ InheritFormatter(u) \/ EraseAppender(u)
  \/ \E r \in Reloaders :
       \/ \E config \in Configs : Reload(r, config)
       \/ \E n \in Names : NextDefine(r, n) \/ RemoveDefine(r, n)
       \/ ApplyLevel(r) \/ ApplyFormatter(r) \/ ClearAppenders(r)
       \/ AddNext(r) \/ EndDefine(r) \/ EndNew(r)
       \/ EndListener(r) \/ EndReload(r)

Spec == Init /\ [][Next]_vars

-----------------------------------------------------------------------------
(* Properties *)

Appender == [type : {1, 2}, level : Levels, fmt : FormatterPtr, has : BOOLEAN]
Event == [at : {"wrapped", "lock", "root"}, logger : Names, level : Levels]
Walk == [at : {"list"}, logger : Names, level : Levels, of : Names, i : Nat \ {0},
         all : Seq(Appender \cup {Mine}), raced : BOOLEAN]

\* Type invariant; the lock of a logger is held by who is inside of it.
TypeOK ==
  /\ program \in Programs
  /\ Root \in m_loggers /\ m_loggers \subseteq Names
  /\ m_level \in [Names -> Levels]
  /\ m_formatter \in [Names -> FormatterPtr]
  /\ m_appenders \in [Names -> Seq(Appender \cup {Mine})]
  /\ m_mutex \in [Names -> Walkers \cup Users \cup {NULL}]
  /\ mine \in [fmt : FormatterPtr, has : BOOLEAN, own : FormatterPtr, loose : BOOLEAN, over : BOOLEAN]
  /\ adding \in [Users -> Names \cup {NULL}]
  /\ \A u \in Users : adding[u] # NULL => m_mutex[adding[u]] = u
  /\ erasing \in [Users -> Names \cup {NULL}]
  /\ lost \subseteq {u \in Users : erasing[u] # NULL}
  /\ g_log_defines \in Configs \cup {NoConfig} /\ removed \subseteq Names
  /\ pc \in [Reloaders -> PC]
  /\ old \in [Reloaders -> Configs \cup {NoConfig}]
  /\ new \in [Reloaders -> Configs \cup {NoConfig}]
  /\ todo \in [Reloaders -> SUBSET Names]
  /\ cur \in [Reloaders -> Names \cup {NULL}]
  /\ made \in [Reloaders -> Nat]
  /\ mixed \in BOOLEAN
  /\ event \in [Walkers -> {NULL} \cup Event \cup Walk]
  /\ \A t \in Walkers : event[t] # NULL /\ event[t].at = "list" => m_mutex[event[t].of] = t
  /\ crashed \in {NULL, "logger", "formatter", "iterator"}

\* A thread that logs finds a formatter in every appender (log.cpp:89), in the
\* middle of reloads as well, whether the configuration gave the appender a
\* formatter, none or a wrong one, unless a thread called setFormatter(nullptr):
\* on the logger, whose appenders without one of their own follow, or on the
\* appender, or on the logger whose addAppender overwrote the appender's own.
NoNullFormatter ==
  crashed = "formatter" => \E n \in Names :
    /\ m_mutex[n] \in Walkers
    /\ m_formatter[n] = NULL \/ (Attached(n) /\ mine.fmt = NULL /\ (mine.loose \/ mine.over))

\* "changing the formatter changes the appenders'" (log.cpp:307): an appender
\* without a formatter of its own always formats like its logger, through every
\* interleaving of setFormatter with the steps of a reload, unless setFormatter
\* took its formatter away or it came from another logger; one with its own keeps
\* it, unless it got it inside of addAppender, which overwrites it (log.cpp:369).
InheritedFormatter ==
  /\ \A n \in Names : \A a \in Range(m_appenders[n]) \ {Mine} : ~a.has => a.fmt = m_formatter[n]
  /\ \A n \in Names : Attached(n) /\ ~mine.has /\ ~mine.loose => mine.fmt = m_formatter[n]
  /\ mine.has /\ ~mine.over => mine.fmt = mine.own

\* A thread that logs walks a list of appenders that no other thread changes: the
\* lock of the logger keeps out reloads and addAppender, and only delAppender,
\* which takes no lock (log.cpp:378), pulls an appender away under the iterator.
\* The iterator of delAppender itself is good unless the list was used between its
\* search and its erase.
IterationUndisturbed ==
  /\ \A t \in Walkers : event[t] # NULL /\ event[t].at = "list" /\ ~event[t].raced
       => m_appenders[event[t].of] = event[t].all
  /\ \A u \in Users \ lost : erasing[u] # NULL => Attached(erasing[u])

Quiet == \A r \in Reloaders : pc[r] = "idle"
Configured(n) == RemoveFirst(m_appenders[n], Mine)

\* An appender is the one of a definition: the formatter of the definition is the
\* appender's own if it is valid, or else the appender has none of its own.
IsOf(a, d) ==
  /\ a.type = d.type
  /\ a.level = d.level
  /\ IF d.formatter \in Formatters THEN a.has /\ a.fmt = d.formatter ELSE ~a.has

\* "logger content can be created or modified dynamically from Yaml" (log.h:560):
\* when no reload is under way, and the last one began when no other was, every
\* configured logger has the level and exactly the appenders of its definition, in
\* order, with type, level and own formatter, whatever overlapping reloads left
\* behind before.  After overlapping reloads (mixed) the loggers are a mixture,
\* and a reload that meets a definition that did not change does not end, it
\* dereferences a null pointer (log.cpp:883).
ConfigurationApplied ==
  Quiet /\ ~mixed => \A n \in DOMAIN g_log_defines :
    LET d == g_log_defines[n] IN
    /\ n \in m_loggers
    /\ m_level[n] = d.level
    /\ Len(Configured(n)) = Len(d.appenders)
    /\ \A i \in DOMAIN d.appenders : IsOf(Configured(n)[i], d.appenders[i])

\* "delete the logger" (log.cpp:917): a logger that the last change removed from
\* the configuration is silenced, when that change overlapped no other.  An
\* appender that a user added to it may stay.
RemovedIsSilenced ==
  Quiet /\ ~mixed => \A n \in removed : m_level[n] = OFF /\ Configured(n) = <<>>
=============================================================================
