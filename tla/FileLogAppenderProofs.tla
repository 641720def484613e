----------------------- MODULE FileLogAppenderProofs -----------------------
(***************************************************************************)
(* Lines are lost to a deleted file only within the second, for any number *)
(* of threads, seconds and files.                                          *)
(***************************************************************************)
EXTENDS FileLogAppender, TLAPS

\* The file under the name was not deleted, nor was one that does not exist yet,
\* and deletions lie in the past.
FilesInv ==
  /\ file <= files
  /\ exists => deletedAt[files] = 0
  /\ \A f \in Files : f > files => deletedAt[f] = 0
  /\ \A f \in Files : deletedAt[f] <= clock

(***************************************************************************)
(* LostOnlyWithinTheSecond is about threads that are about to write.  One  *)
(* of them may have skipped the reopen because another thread set          *)
(* m_lastTime, so the invariant has to say that a deletion of the open     *)
(* file is no older than m_lastTime, and, since m_lastTime is set some     *)
(* steps after the reopen and may go back, no older than the second of any *)
(* thread that is about to set it.                                         *)
(***************************************************************************)
FreshInv ==
  good /\ deletedAt[file] # 0 =>
    /\ deletedAt[file] >= m_lastTime
    /\ \A t \in Threads : pc[t] \in {"set", "write"} => deletedAt[file] >= now[t]

\* A stream that is open with an error bit has badbit, which nothing clears: the
\* bit that explains a failed reopen is still there when reopen has returned.
StreamInv ==
  /\ bad <=> is_open /\ ~good
  /\ good => is_open
  /\ ReopenRecovers

IInv == TypeOK /\ FilesInv /\ FreshInv /\ StreamInv

\* The constructor's reopen has opened a file that exists.
LEMMA InitIInv == Init => IInv
<1> SUFFICES ASSUME Init PROVE IInv
    OBVIOUS
<1>1. 1 \in Files /\ 1 \in 1..MaxClock /\ 0 \in 0..MaxClock
    BY FileLogAppenderAssumption DEF Files
<1>2. TypeOK
    <2>1. /\ clock \in 1..MaxClock /\ files \in Files /\ file \in Files
          /\ deletedAt \in [Files -> 0..MaxClock]
        BY <1>1 DEF Init
    <2>2. m_lastTime \in 0..clock /\ now \in [Threads -> 0..clock]
        BY DEF Init
    <2>3. exists \in BOOLEAN /\ openable \in BOOLEAN /\ is_open \in BOOLEAN
        BY DEF Init
    <2>4. good \in BOOLEAN /\ bad \in BOOLEAN
        BY DEF Init
    <2>5. /\ pc \in [Threads -> PC] /\ could \in [Threads -> BOOLEAN]
          /\ ret \in [Threads -> BOOLEAN]
        BY DEF Init, PC
    <2>6. QED
        BY <2>1, <2>2, <2>3, <2>4, <2>5 DEF TypeOK
<1>3. FilesInv
    BY <1>1 DEF Init, FilesInv
<1>4. FreshInv
    BY <1>1 DEF Init, FreshInv
<1>5. StreamInv
    BY DEF Init, StreamInv, ReopenRecovers
<1>6. QED
    BY <1>2, <1>3, <1>4, <1>5 DEF IInv

\* Every step of log on any thread, and every change outside, keeps it.
LEMMA NextIInv == IInv /\ [Next]_vars => IInv'
<1> SUFFICES ASSUME IInv, [Next]_vars PROVE IInv'
    OBVIOUS
<1> USE FileLogAppenderAssumption
    DEF IInv, TypeOK, Files, PC, FilesInv, FreshInv, StreamInv, ReopenRecovers, Goto, world, stream
<1>1. CASE UNCHANGED vars
    BY <1>1 DEF vars
<1>2. ASSUME NEW t \in Threads, Log(t) PROVE IInv'
    BY <1>2 DEF Log
<1>3. ASSUME NEW t \in Threads, Check(t) PROVE IInv'
    BY <1>3 DEF Check
<1>4. ASSUME NEW t \in Threads, Reopen(t) PROVE IInv'
    <2>1. Opens(openable) \in BOOLEAN /\ StillOpen \in BOOLEAN
        BY DEF Opens, StillOpen
    <2>2. /\ could' = [could EXCEPT ![t] = openable]
          /\ ret' = [ret EXCEPT ![t] = Opens(openable)]
          /\ pc' = [pc EXCEPT ![t] = "set"]
          /\ UNCHANGED <<clock, deletedAt, openable, m_lastTime, now>>
          /\ is_open' = (StillOpen \/ Opens(openable))
          /\ good' = Opens(openable)
          /\ bad' = (bad /\ ~Opens(openable))
        BY <1>4 DEF Reopen, OpenFile
    <2>3. CASE ~Opens(openable)
        <3>1. files' = files /\ exists' = exists /\ file' = file
            BY <1>4, <2>3 DEF Reopen, OpenFile
        <3>2. TypeOK' /\ FilesInv' /\ FreshInv'
            BY <2>1, <2>2, <2>3, <3>1
        <3>3. StreamInv'
            BY <2>2, <2>3 DEF Opens, StillOpen, CloseFirst
        <3>4. QED
            BY <3>2, <3>3
    <2>4. CASE Opens(openable)
        <3>1. /\ exists' = TRUE /\ file' = files'
              /\ IF exists THEN files' = files ELSE files' = files + 1 /\ files < MaxFiles
            BY <1>4, <2>4 DEF Reopen, OpenFile
        <3>2. files' \in Files /\ files' >= files /\ deletedAt[files'] = 0
            BY <3>1
        <3>3. TypeOK'
            BY <2>1, <2>2, <3>1, <3>2
        <3>4. FilesInv' /\ FreshInv'
            BY <2>2, <3>1, <3>2
        <3>5. StreamInv'
            BY <2>2, <2>4 DEF Opens, StillOpen, CloseFirst
        <3>6. QED
            BY <3>3, <3>4, <3>5
    <2>5. QED
        BY <2>3, <2>4
<1>5. ASSUME NEW t \in Threads, SetLastTime(t) PROVE IInv'
    BY <1>5 DEF SetLastTime
<1>6. ASSUME NEW t \in Threads, Write(t) PROVE IInv'
    BY <1>6 DEF Write
<1>7. CASE Tick
    BY <1>7 DEF Tick
<1>8. CASE Delete
    <2>1. deletedAt' = [deletedAt EXCEPT ![files] = clock] /\ exists' = FALSE
        BY <1>8 DEF Delete
    <2>2. UNCHANGED <<clock, files, openable, is_open, file, good, bad, m_lastTime,
                      pc, now, could, ret>>
        BY <1>8 DEF Delete
    <2>3. TypeOK'
        <3>1. clock \in 0..MaxClock /\ files \in Files
            OBVIOUS
        <3>2. deletedAt' \in [Files -> 0..MaxClock]
            BY <2>1, <3>1 DEF TypeOK
        <3>3. QED
            BY <2>1, <2>2, <3>2
    <2>4. FilesInv'
        BY <2>1, <2>2
    <2>5. \A t \in Threads : now[t] <= clock
        OBVIOUS
    <2>6. FreshInv'
        BY <2>1, <2>2, <2>5
    <2>7. StreamInv'
        BY <2>2
    <2>8. QED
        BY <2>3, <2>4, <2>6, <2>7
<1>9. CASE Permit
    BY <1>9 DEF Permit
<1>10. QED
    BY <1>1, <1>2, <1>3, <1>4, <1>5, <1>6, <1>7, <1>8, <1>9 DEF Next

\* The inductive invariant holds in every reachable state of the appender.
THEOREM Invariant == Spec => []IInv
BY InitIInv, NextIInv, PTL DEF Spec

\* The fields of the appender stay in their ranges, and no thread has seen a
\* second that has not come.
THEOREM TypeCorrect == Spec => []TypeOK
<1>1. IInv => TypeOK
    BY DEF IInv
<1>2. QED
    BY Invariant, <1>1, PTL

\* The unsynchronised m_lastTime is harmless: a line goes to a deleted file only
\* if the file was deleted in the second in which the line was logged, or later.
THEOREM LostWithinTheSecond == Spec => []LostOnlyWithinTheSecond
<1>1. IInv => LostOnlyWithinTheSecond
    BY DEF IInv, FreshInv, LostOnlyWithinTheSecond
<1>2. QED
    BY Invariant, <1>1, PTL

\* Only badbit keeps reopen from opening a file that can be opened, whatever
\* other threads do between its return and the use of the stream.
THEOREM ReopenFailsOnlyWhenBad == Spec => []ReopenRecovers
<1>1. IInv => ReopenRecovers
    BY DEF IInv, StreamInv
<1>2. QED
    BY Invariant, <1>1, PTL
=============================================================================
