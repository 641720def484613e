-------------------------- MODULE FileLogAppender --------------------------
(***************************************************************************)
(* FileLogAppender of src/src/log.cpp, shared by threads that log through  *)
(* different loggers.  log compares the second with m_lastTime and reopens *)
(* the file when it is a new one, outside the lock; reopen and the writing *)
(* of a line are two critical sections of m_mutex, one step each.  Outside *)
(* the program: the clock, the file being deleted, the directory refusing  *)
(* an open, a write that fails.  An event below m_level does nothing.      *)
(***************************************************************************)
EXTENDS Naturals

CONSTANTS
  Threads,      \* the logging threads
  MaxClock,     \* bound on time(0)
  MaxFiles      \* bound on the files created under m_filename

ASSUME FileLogAppenderAssumption ==
  MaxClock \in Nat \ {0} /\ MaxFiles \in Nat \ {0}

Files == 1..MaxFiles

VARIABLES
  clock,        \* time(0)
  files,        \* how many files were created under the name, ever
  exists,       \* the last of them is still there
  deletedAt,    \* deletedAt[f]: the second in which f was deleted, 0 if it was not
  openable,     \* the directory lets the file be opened
  is_open, file,        \* the filebuf of m_filestream
  good, bad,    \* no error bit is set; badbit is set
  m_lastTime,
  pc, now,      \* where a thread is in log, and its local now
  could, ret    \* whether the file could be opened at reopen, and what reopen returned

world  == <<clock, files, exists, deletedAt, openable>>
stream == <<is_open, file, good, bad>>
vars   == <<world, stream, m_lastTime, pc, now, could, ret>>

PC == {"idle", "check", "reopen", "set", "write"}

(* reopen().  close() is skipped when the stream has an error bit; open() of a *)
(* filebuf that is still open fails; a successful open clears the bits, a      *)
(* failed one sets failbit.                                                    *)
CloseNever == FALSE  \* mutant of CloseFirst
CloseFirst == good
StillOpen  == is_open /\ ~CloseFirst
Opens(can) == can /\ ~StillOpen

\* The world and the stream after open(m_filename, app), which creates the file.
OpenFile(can) ==
  LET creates == Opens(can) /\ ~exists
      number  == IF creates THEN files + 1 ELSE files
  IN
  /\ files' = number
  /\ exists' = (exists \/ creates)
  /\ is_open' = (StillOpen \/ Opens(can))
  /\ file' = IF Opens(can) THEN number ELSE file
  /\ good' = Opens(can)
  /\ bad' = (bad /\ ~Opens(can))

\* The constructor has called reopen, and the file was opened.
Init ==
  /\ clock = 1
  /\ files = 1
  /\ exists = TRUE
  /\ deletedAt = [f \in Files |-> 0]
  /\ openable = TRUE
  /\ is_open = TRUE
  /\ file = 1
  /\ good = TRUE
  /\ bad = FALSE
  /\ m_lastTime = 0
  /\ pc = [t \in Threads |-> "idle"]
  /\ now = [t \in Threads |-> 0]
  /\ could = [t \in Threads |-> FALSE]
  /\ ret = [t \in Threads |-> FALSE]

-----------------------------------------------------------------------------
Goto(t, label) == pc' = [pc EXCEPT ![t] = label]

\* uint64_t now = time(0)
Log(t) ==
  /\ pc[t] = "idle"
  /\ now' = [now EXCEPT ![t] = clock]
  /\ Goto(t, "check")
  /\ UNCHANGED <<world, stream, m_lastTime, could, ret>>

\* Mutant of Check: m_lastTime is set before the file is reopened.
CheckAndSet(t) ==
  /\ pc[t] = "check"
  /\ Goto(t, IF now[t] # m_lastTime THEN "reopen" ELSE "write")
  /\ m_lastTime' = now[t]
  /\ UNCHANGED <<world, stream, now, could, ret>>

\* if(now != m_lastTime)
Check(t) ==
  /\ pc[t] = "check"
  /\ Goto(t, IF now[t] # m_lastTime THEN "reopen" ELSE "write")
  /\ UNCHANGED <<world, stream, m_lastTime, now, could, ret>>

Reopen(t) ==
  /\ pc[t] = "reopen"
  /\ exists \/ ~Opens(openable) \/ files < MaxFiles
  /\ OpenFile(openable)
  /\ could' = [could EXCEPT ![t] = openable]
  /\ ret' = [ret EXCEPT ![t] = Opens(openable)]
  /\ Goto(t, "set")
  /\ UNCHANGED <<clock, deletedAt, openable, m_lastTime, now>>

\* Mutant of SetLastTime: the next second is marked as done.
SetLastTimeAhead(t) ==
  /\ pc[t] = "set"
  /\ m_lastTime' = now[t] + 1
  /\ Goto(t, "write")
  /\ UNCHANGED <<world, stream, now, could, ret>>

\* m_lastTime = now
SetLastTime(t) ==
  /\ pc[t] = "set"
  /\ m_lastTime' = now[t]
  /\ Goto(t, "write")
  /\ UNCHANGED <<world, stream, now, could, ret>>

\* format(m_filestream, ...): a stream with an error bit writes nothing; a write
\* may fail, which sets badbit.
Write(t) ==
  /\ pc[t] = "write"
  /\ good' \in (IF good THEN BOOLEAN ELSE {FALSE})
  /\ bad' = (bad \/ good # good')
  /\ Goto(t, "idle")
  /\ UNCHANGED <<world, is_open, file, m_lastTime, now, could, ret>>

-----------------------------------------------------------------------------
(* Outside the program *)

Tick ==
  /\ clock < MaxClock
  /\ clock' = clock + 1
  /\ UNCHANGED <<files, exists, deletedAt, openable, stream, m_lastTime, pc, now, could, ret>>

Delete ==
  /\ exists
  /\ exists' = FALSE
  /\ deletedAt' = [deletedAt EXCEPT ![files] = clock]
  /\ UNCHANGED <<clock, files, openable, stream, m_lastTime, pc, now, could, ret>>

Permit ==
  /\ openable' = ~openable
  /\ UNCHANGED <<clock, files, exists, deletedAt, stream, m_lastTime, pc, now, could, ret>>

Next ==
  \/ \E t \in Threads : Log(t) \/ Check(t) \/ Reopen(t) \/ SetLastTime(t) \/ Write(t)
  \/ Tick \/ Delete \/ Permit

Spec == Init /\ [][Next]_vars

-----------------------------------------------------------------------------
(* Properties *)

\* Type invariant; nobody has seen a second that has not come yet.
TypeOK ==
  /\ clock \in 1..MaxClock
  /\ files \in Files
  /\ exists \in BOOLEAN
  /\ deletedAt \in [Files -> 0..MaxClock]
  /\ openable \in BOOLEAN
  /\ is_open \in BOOLEAN
  /\ file \in Files
  /\ good \in BOOLEAN
  /\ bad \in BOOLEAN
  /\ m_lastTime \in 0..clock
  /\ pc \in [Threads -> PC]
  /\ now \in [Threads -> 0..clock]
  /\ could \in [Threads -> BOOLEAN]
  /\ ret \in [Threads -> BOOLEAN]

\* "the problem of still writing to a deleted file" (log.cpp:436): a line is only
\* written to a deleted file if the file was deleted in the second in which the
\* line was logged, or later, whatever the other threads do to m_lastTime.
LostOnlyWithinTheSecond ==
  \A t \in Threads :
    pc[t] = "write" /\ good /\ deletedAt[file] # 0 => deletedAt[file] >= now[t]

\* "reopen the log file; returns true on success" (log.h:545): when the file can
\* be opened, reopen opens it, also after earlier opens have failed.  The one
\* thing that stops it is badbit, left by a failed write: then close is skipped,
\* and an open file cannot be opened.
ReopenRecovers ==
  \A t \in Threads : pc[t] = "set" /\ could[t] /\ ~ret[t] => bad
=============================================================================
