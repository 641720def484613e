# A TLA+ verification of IPMSG

IPMSG is a small C++11 server framework in the namespace `ipmsg` (directory
`src/src`): coroutines, threads and locks, a configuration system, and a
logging system that the configuration can change at run time. It is built with
`-O3` and without `NDEBUG`, so a failing `ASSERT_MACRO` aborts the process.

This directory holds TLA+ modules for the parts of it that keep state, TLC
configurations that check them on small instances, and proofs, checked by
TLAPS, that hold for every instance. `PROJECT.json` lists components, runs,
mutants, the correspondence of every definition to source lines, the findings,
the hazards and the theorems. Line numbers below are those of `src/src`.

## 1. Inventory

| component | state | operations | hard behaviour |
|---|---|---|---|
| **Fiber** (fiber.cpp) | per object `m_id m_state m_cb m_ctx m_stack`; per thread `t_fiber t_threadFiber`; `s_fiber_id s_fiber_count` | constructors, `GetThis`, `swapIn`, `swapOut`, `YieldToReady/Hold`, `MainFunc`, `reset`, destructor | stacks freed under their user, fibers that migrate between threads, state changed before the context is saved, a fiber kept alive by its own frames |
| **Thread, Semaphore** (thread.cpp) | `m_id m_thread m_cb m_name m_semaphore`; per thread `t_thread t_thread_name` | constructor, `run`, `setName`, `join`, destructor | the object is shared by owner and new thread; handshake; reaping once; interrupted wait |
| **Guards and locks** (thread.h) | `m_mutex`, `m_locked` | constructor, `lock`, `unlock`, destructor of three guard templates over `Mutex`, `RWMutex`, `Spinlock` | explicit unlock before the destructor |
| **CASLock** (thread.h) | an `atomic_flag` | `lock` (spins), `unlock` | spinning threads write the flag |
| **ConfigVar** (config.h) | `m_val m_cbs m_mutex`, the static `s_fun_id` | `setValue`, `fromString`, `addListener`, `delListener`, `clearListener`, readers | two critical sections in one call, callbacks under a lock, callbacks that throw, a counter shared by variables with different mutexes |
| **Config** (config.h, config.cpp) | the map of variables and its mutex | two `Lookup`s, `LookupBase`, `Visit`, `LoadFromYaml` | find-or-create by several threads, iteration with callbacks |
| **Logger, LoggerManager, LogIniter** (log.cpp) | `m_level m_formatter m_appenders`, the map of loggers | `log`, `setFormatter`, `addAppender`, `delAppender`, `clearAppenders`, `getLogger`, and the listener that applies a changed `logs` variable | the listener is a long sequence of separately locked calls, run, perhaps twice at once, while other threads log, set formatters and move appenders; one method takes no lock |
| **FileLogAppender** (log.cpp) | `m_filestream m_lastTime` | `log`, `reopen` | `m_lastTime` is not protected; files are deleted, opens and writes fail |
| **LogFormatter** (log.cpp) | `m_pattern m_items m_error` | `init`, `format` and the items | a hand-written parser with two nested loops; a date buffer of 64 bytes |
| **LogDefine** (log.cpp) | none | conversions between YAML, definitions and loggers | two printers and one reader that should agree |
| **LexicalCast** (config.h) | none | text to and from int, string and containers of them, at any depth | every element is printed, loaded as YAML and printed again, so what YAML does to a string happens at every level |

How they interact: `LogIniter` registers a listener on the `ConfigVar` named
`logs`; `Config::LoadFromYaml` finds variables and calls `fromString`, which
calls `setValue`, which runs the listener, which changes loggers through
`LoggerManager`. Every component logs. All locks are the guards of thread.h.
Fibers read their stack size from a `ConfigVar`. A callback of a variable runs
under a ReadLock of that variable, and one of `Visit` under a ReadLock of the
registry.

What makes each of them correct is the list of properties in section 3; what
can go wrong and is hard to test is the list `hazards` in `PROJECT.json`.

## 2. Modules

`X.tla` is the component, `MCX.tla` with `MCX*.cfg` its instances,
`XProofs.tla` its theorems; `LockProofs` has those of `ScopedLock` and `CASLock`,
`LogTextProofs` those of `LogFormatter` and `LogsText`. Operators named in a comment as a *mutant* are
wrong variants of the definition that follows them; they are used nowhere in
the specifications, and show that the properties notice the mistake.

**Fiber.** `stack[t]` is the stack thread `t` really executes, `t_fiber[t]`
what the library believes; a main fiber is named by its thread. A context is
the stack it lives on and the point it resumes at. `SwapIn` and `SwitchIn` are
the two halves of `swapIn`; `YieldTo`, `Finish` (the end of `MainFunc`) and
`SwitchOut` (`swapOut`) are separate steps, so other threads act between the
change of state and the switch. `ref` and `own` count the `shared_ptr`s outside
and in the fiber's own frames; the step that drops the last one is the
destructor. `Next` is the client that fiber.h documents, on several threads: it
works from a main fiber, through a pointer it holds, and calls `swapIn` and
`reset` whenever their `@pre` holds, also in the gap where a thread has published
the fiber's state and is still on its stack, and after the fiber's end. The
history variable `early` has the fibers to which that happened. When a second
thread continues on a stack in use, anything may follow: the behaviour ends with
`failed = "sharedStack"`.
`YieldMain` is a yield on the main fiber: it swaps a context with itself and
returns at once, with the main fiber in HOLD or READY, so that a second yield or
the destructor at thread exit fails an assertion.

**ConfigVar.** Each critical section of `setValue` is a step or, for the
notification loop, a sequence of steps under the ReadLock; the gap between the
two locks is the label `store`. `++s_fun_id` is a load and a store of an
ordinary variable, so two variables of one type race on it. A callback is named
by its `addListener` call. Two history variables serve the properties: `heard`
is what a callback was last told, `raced` whether changes of a variable have
overlapped, a listener has come in the middle of one, or one has failed
half-way.

**Config.** Names are sequences of keys, a document a sequence of nodes with
texts; `Parses` says for which types `LexicalCast` reads a text. `nodes` is the
set of positions of the document that the loop of `LoadFromYaml` has left, and
`Node` the node at the first of them. The registry is
composed with the locks of its variables: `held` is the set of locks held, and
every call back into the program takes place under the lock the code holds.
`Lookup` finds and creates in two steps under one WriteLock, and reads the
variable's `toString` under it when the types differ; `Visit` is two steps per
variable; `LoadFromYaml` goes through `LookupBase`, `fromString`, the change
callbacks under the ReadLock and the store under the WriteLock. What callbacks
do is the program's, and `discipline` is one of two ways to write them: under
"create" change callbacks also create variables, under "listen" `Visit`
callbacks also add listeners.

**Thread.** `owner[o]` and `run[o]` are the positions of the owner of a
`Thread` and of the thread it started. `stale` collects the objects that `run`
or `setName` uses after their destruction. An owner keeps an object whose
callback calls `setName` until it has joined it; other objects may be destroyed,
which detaches the thread, as soon as the constructor returns. `interrupted`
are the objects whose constructor a signal ended in `sem_wait`, which is not
retried: it throws while `run` is on its way to the object.

**ScopedLock, RWMutex, CASLock.** `RWMutex` is the abstract lock: what the lock
classes promise and what they demand from their users. `ScopedLock` models the
guards with one step before and one after the call on the mutex; an unlock of a
lock that is not held is undefined and may take it from others. `CASLock` has
one step per turn of the spin loop. Both are shown to implement `RWMutex`; the
threads of both are those of `LockThreads`, and `MCLocks` lets them use one lock
of each kind.

**FileLogAppender.** `log` is `Log` (reads the clock), `Check`, `Reopen`,
`SetLastTime`, `Write`. The stream is whether its buffer is open, on which
file, whether an error bit is set, and whether badbit is among them. The clock, deletions and permissions are
the environment.

**Logger.** Each call of a locked method is a step; the listener is the
sequence of those calls for each definition. `log` is followed inside: the level
is compared without the lock (`Log`), then the lock is taken (`LogLock`, and
`LogRoot` when the event goes on to the root logger), and the list is walked one
appender at a time (`LogAppend`). The users have one appender of their own, which
they put into one list at a time: `UserAddAppender` and `InheritFormatter` are
the two sections of its lock inside `addAppender`, `FindAppender` and
`EraseAppender` the search and the erase of `delAppender`, which takes no lock.
`UserSetFormatter` and `AppenderSetFormatter` set any pointer: a valid formatter,
one with an error, which formats as well, or nullptr. A thread whose list was
changed under it (`raced`), or used between its search and its erase (`lost`), may
crash or not, as undefined behaviour may. The listener begins with a log line to
the root logger, and so walks its appenders like the other threads. `FindInNew` and
`RemovedTest` model iterators as a set and a position, because the code compares
iterators of two sets. Two setters may run the listener at once, under two
ReadLocks; a setter stores when no listener of another one is running.

**LogFormatter.** One step per turn of the loops of `init`, and `Format`, which
writes an event with the items. A character is what the parser tells apart: `%`,
a brace (`"open"`, `"close"`), the letter "d" of the date item, the only one with
a format and a buffer, "m" for every other item, "a" for the letters that name
none, and "x" for the rest.
`Reference` is the documented syntax `%xxx %xxx{xxx} %%`: `Meanings` gives every
position of a pattern the meaning of what follows it, as a recursive function,
and `Reference` is that of the first position. It knows nothing of the parser's
loops and locals.

**LexicalCast, LogDefine, LogsText, ConfigText.** The first two are operators:
`LexicalCast` the casts of config.h over types that are sequences of
constructors (`<<"map", "seq", "int">>` is `map<string, vector<int>>`),
`LogDefine` the casts of `set<LogDefine>` and the `toYamlString`s of log.cpp.
`Load` and `Emit` are yaml-cpp, as the code uses it. In `LogDefine` the loop over
the appenders of a node is a recursive function of the position (`Pushed`), and
nothing is a RECURSIVE operator, so that theorems can be about it. `LogsText` is
the variable `logs` with `fromString` and `toString`: its value is read from a
document, and printed and read again, or applied to the loggers of a manager, which
has its root logger from the beginning, and these are exported and read again. `ConfigText` adds the variables of the other types, whose values
come from a text or from the program, to the same steps; it is what the run
checks.

## 3. Runs

| run | instance | distinct states | shows | properties |
|---|---|---|---|---|
| `fiber` | 2 threads, 2 sub-fibers | 497 thousand | no assertion fires, except for a main fiber that has yielded and a fiber swapped in or reset too early, or swapped in after its end; `GetThis` is right; no stack is used after it is freed; two threads meet on a stack only while one is leaving it; `TotalFibers` is exact; only suspended fibers leak; `swapOut` returns to the thread's own stack | `TypeOK`, `AssertionsHold`, `CurrentFiberIsRunning`, `NoStackUseAfterFree`, `StackExclusive`, `TotalFibersExact`, `OnlySuspendedLeak`, `BackToMain` |
| `fiber_documented` (violation) | 2 threads, 1 sub-fiber | | `swapIn` under its `@pre` puts two threads on one stack | `OneThreadPerStack` |
| `config_var` | 2 setters, 2 listener threads, 3 values, 2 callbacks, one of which throws | 745 thousand | old value and map are stable during notification; ids name their callbacks, when two `addListener` calls overlap as well; a listener is left behind only by three named races | `TypeOK`, `IterationStable`, `IdNamesItsListener`, `HeardUnlessRaced` |
| `config_var_ids` (violation) | 2 listener threads, 2 variables of one type | | the id returned by `addListener` does not name its callback | `IdNamesItsListener` |
| `config` | 2 threads, 1 loader, 4 names (one invalid, one with a 9), 2 types, 2 documents, 2 disciplines | 699 thousand | one variable per name; `Visit` is a snapshot; a load reaches everything but names with a 9; callbacks under locks never close a cycle | `TypeOK`, `OneVariablePerName`, `VisitIsASnapshot`, `LoadReachesAll`, `NoCircularWait` |
| `thread` | 2 objects, one names itself | 6 thousand | the handshake protects the object, unless a signal ends the wait; each other pthread is reaped once; constructor and `join` return | `TypeOK`, `NoUseAfterDestruction`, `ReapedOnce`, `CallsReturn` |
| `file_appender` | 2 threads, 3 seconds, 3 files | 275 thousand | a line is lost to a deleted file only within the second of the deletion; `reopen` fails only because of a failed write | `TypeOK`, `LostOnlyWithinTheSecond`, `ReopenRecovers` |
| `logger` | 4 programs: reloader and logging thread; reloader and user; logging thread and 2 users; 2 reloaders. 2 loggers, 3 configurations | 1.1 million | a null formatter is used only where a program set one; inherited formatters follow; only `delAppender` disturbs a thread that logs, and only a use of the list in between disturbs `delAppender`; after a reload that overlaps no other every configured logger has the level and the appenders of its definition, with their types, levels and formatters | `TypeOK`, `NoNullFormatter`, `InheritedFormatter`, `IterationUndisturbed`, `ConfigurationApplied` |
| `logger_removed` (violation) | the same | | a logger that a reload by itself removes from the configuration is not silenced | `RemovedIsSilenced` |
| `formatter` | all patterns of up to 5 characters of 7 kinds, and dates too long for the buffer | 183 thousand | patterns without `%%` are parsed and written as documented, or refused, dates that overflow excepted; `init` and `format` end | `ParsesTheSyntax`, `Terminates` |
| `locks` | 3 threads, an `RWMutex` with guards and a `CASLock` | 97 thousand | a guard owns the lock exactly as its flag says, and the guards use the lock as `RWMutex` demands, which gives exclusion; the spinning lock makes progress and refines `RWMutex` | `GuardOwnsTheLock`, `UsesTheLock`, `SomeoneEnters`, `IsALock` |
| `config_text` | `logs`: all documents with 1 logger and up to 2 appenders, and ones with a logger twice; others: containers of int and string to depth 2, with up to 2 elements, as values and as texts | 32 thousand | definitions can be applied; exported loggers, the default root included, are read back but for the levels of appenders; `toString` of a value that can be converted loses exactly what YAML changes in strings, and that of `logs` the formatters of loggers; a value that was read is stable | `TypeOK`, `ExportReimports`, `ToStringRereads`, `ReadIsStable` |

Why the bounds are enough to be interesting: two threads and two fibers let a
fiber be suspended on one thread, resumed on the other and dropped by the
first, while the second fiber does the same. Two setters and two listener
threads give every overlap of the two critical sections with a registration, and
of two registrations with each other.
Three seconds let a thread that read the clock first set `m_lastTime` back
after another has reopened the file in the next second, with a deletion before
and after. Two loggers let a configuration add, change, keep and remove one of
them, and the four programs put together what can disturb each other: a reload
against logging, a reload against a user, two users and their appender against
logging, and two reloads. (All three kinds at once are beyond the time of a run;
the proofs of section 4 cover them.) Two threads and a loader are enough for a cycle of the two kinds of
locks, which needs two. Five characters are enough for an item with a format and
text behind it; the buffer is scaled down to formats of one character, so that
longer ones overflow. In `config_text` depth two has every container inside
every container, and the strings are one of each kind YAML tells apart.
`config` uses the symmetry of its two threads, `config_var` that of its setters and
of its listener threads; no temporal property is checked there.

Deadlock is checked except where the system may stop: fibers and threads, which
may all have ended; `LogFormatter` and `ConfigText`, which are functions that
return; and the logger runs, where the process may have crashed.

### Departures of the code from what it says

Three are shown by violation runs (`findings` quotes the sentences):
`fiber_documented`, where a yield stores HOLD or READY (fiber.cpp:240, 251) before
the context is saved (207), so that a thread that relies on `@pre getState() !=
EXEC` (fiber.h:52) enters a stack that is in use; `config_var_ids`, where the static `s_fun_id` (config.h:464-468) is shared by
variables that have a mutex each; and `logger_removed`, where, in a reload
that overlaps no other, the result of `new_value.find` is compared with `old_value.end()` (log.cpp:915-916). That
comparison is undefined; the model takes the outcome of libstdc++, where the
end of a set is a node inside that set, so the two are never equal. With the test
corrected the property holds in all states of the run.

Others are built into passing properties, which hold exactly up to them:

* `HeardUnlessRaced`: `setValue` announces a change under one lock and stores
  it under another (config.h:443-453). Two setters may store in the other
  order, a listener may be added in between, and a callback may throw after
  others were told; each leaves a listener with a value that is not the
  variable's.
* `ReopenRecovers`: after a failed write `reopen` does not close the stream,
  and opening it fails for ever (log.cpp:478-482).
* `AssertionsHold`, `CurrentFiberIsRunning`: a yield on a main fiber suspends
  nothing, leaves it in HOLD or READY, and its next yield or its destructor
  aborts (fiber.cpp:250, 154).
* `AssertionsHold`: a finished fiber meets the precondition of `swapIn`, and
  swapping it in reaches the assertion behind the end of `MainFunc` (292). So does
  a fiber that is reset, as its precondition allows, between the store of TERM
  (272) and `swapOut` (290), which saves the old context over the new one.
* `StackExclusive`: the gap that `fiber_documented` shows is the only way for two
  threads onto one stack, and one of the two is leaving it.
* `NoUseAfterDestruction`, `ReapedOnce`: an interrupted `sem_wait` ends the
  constructor of `Thread` (thread.cpp:29-31); `run` then uses a destroyed object,
  and nobody reaps the thread.
* `NoNullFormatter`: `setFormatter(nullptr)`, on an appender in a list (log.cpp:89)
  or on a logger, whose appenders follow (303-313), leaves a null pointer that the
  next event dereferences.
* `InheritedFormatter`: `addAppender` overwrites a formatter that the appender is
  given between its two looks at it (log.cpp:367-369), and an appender that comes
  from another logger keeps that one's formatter.
* `IterationUndisturbed`: `delAppender` takes no lock (log.cpp:378), neither for its
  search nor for its erase.
* `ConfigurationApplied`: two reloads at once leave a mixture of both
  configurations (log.cpp:889); the next reload that overlaps no other one
  puts its own in force all the same. A reload in which a definition stays the same
  does not end: it dereferences a null logger (log.cpp:865-883).
* `NoCircularWait`: holds under each of the two disciplines. A program with both,
  change callbacks that create variables and `Visit` callbacks that add
  listeners, takes the registry's and a variable's lock in opposite orders.
* `LoadReachesAll`: a name with a 9 is accepted by `Lookup` (config.h:558) and
  never loaded (config.cpp:26).
* `ParsesTheSyntax`: the second `%` of `%%` is read again (log.cpp:556-559), and
  a date that does not fit its buffer is whatever the buffer had (log.cpp:208).
* `ToStringRereads`: the formatter of a logger is written only if it is empty
  (log.cpp:816), so `toString` of `logs` loses every formatter there is; a string in
  a container is changed where YAML reads it as something else. Of a value that
  cannot be converted, a container with a string that is no YAML, the property says
  nothing: config.h:397 promises an exception, and the code catches it and returns
  the empty text (409-414), which is read as an empty container.
* `ExportReimports`: the level of an appender is written (log.cpp:455, 503) and not
  read (768-789). That of the default root's stdout appender, DEBUG, comes back as
  UNKNOW.
* `ReadIsStable`: a map read as a sequence gives elements that are undefined
  nodes (config.h:115), which become empty strings.

And some are outside the model, excluded by what its clients do:

* `swapIn` inside a sub-fiber saves the wrong context in the main fiber (197);
  fiber.cpp:37 rules it out.
* A callback that sets, or adds a listener to, its own variable waits for a
  WriteLock under its caller's ReadLock (config.h:449), and a `Visit` callback
  that creates a variable waits for the registry's (config.cpp:79): each blocks
  itself whatever the other threads do.
* An owner that destroys a `Thread` whose callback still calls `setName`.
* `run` sets `t_thread` and not `t_thread_name` (thread.cpp:111), so `GetName` in a
  callback is UNKNOW whatever name the constructor was given. The model has both
  copies, and no property about them: the code is wrong without any interleaving.
* Users that put one appender into two loggers, or call `Logger::setLevel`; the
  level is written by the listener only.

**Fairness.** `Thread`: the kernel schedules the new thread and its callback
ends; an owner blocked in a semaphore or in `pthread_join` continues when it
can. Nothing forces an owner to join or destroy. `CASLock`: a spinning thread
goes on spinning and a critical section ends; no thread is promised the lock,
only that somebody gets it. `LogFormatter`: sequential code runs on. No other
module assumes fairness.

## 4. Proofs

All theorems hold for every value of the constants under the named assumptions
of the module (`FiberAssumption`: finitely many threads and fibers, with
different names; `ThreadAssumption`: UNKNOW and the empty string are no names
that are given; `LockAssumption`: NULL is no thread;
`FileLogAppenderAssumption`: the bounds are positive; `ConfigVarAssumption` and
`ConfigAssumption`: NULL is no thread, variable or callback, threads and loaders
are different, documents are sequences; `LoggerAssumption`: NULL and BAD are no
formatters, NULL is no name or thread, the threads that log or reload are none of the users,
and configurations are functions from names to definitions;
`LogFormatterAssumption`: patterns are sequences of characters;
`LogDefineAssumption`: an undefined field is no string, and the empty string is
no valid pattern and no name of a level; `LogsTextAssumption`: documents, and the
appenders of their nodes, are sequences, and an undefined field is not "root"). Two theorems have
a hypothesis of their own, `IdsNameListeners` and `LoadsReachTheirVariables`; it
is given with them below, with what happens without it.

* **FiberProofs.** The client is the documented one, so the invariant has to hold
  through the gaps before a context is saved. `AssertionsHold` and the other properties are not inductive:
  that `MainFunc`'s `cur.reset()` never frees the stack it runs on rests on the
  thread that swapped the fiber in still holding a pointer (`HolderInv`), that
  ~Fiber's assertion holds rests on suspended fibers being pinned by exactly
  two of their own frames (`InsideInv`, `IdleInv`), and that `swapOut` returns
  to the right stack rests on the context saved in the main fiber
  (`InsideInv`). That no more than two threads come near a stack, one leaving it
  and one that came early and is not in yet, is in `HolderInv`; which contexts an
  early `swapIn` or `reset` leaves behind is in `NativeInv` and `IdleInv`. A main fiber is in EXEC until it yields, and nothing else but its
  own yield changes that (`MainInv`). The invariant `IInv` has one part for main
  fibers, native stacks, threads inside fibers, holders, idle fibers and lifetimes; the proof
  has a lemma per action and a step per part. From it: `TypeCorrect`,
  `NoAssertionFails`, `GetThisIsRight`, `StacksAreAlive`, `StacksAreExclusive`,
  `CountIsExact`, `LeaksAreSuspended`, and the action property `SwapOutReturns`.
* **ThreadProofs.** That `run` never meets a destroyed object needs to know where
  it is: `LifeInv` says that outside the constructor it is past the notify and
  that the handle is there exactly while the pthread is still to be reaped,
  `SemInv` that the semaphore counts nothing before the notify, `DeadInv` what a
  destroyed object leaves behind, interrupted constructors apart. From them:
  `TypeCorrect`, `HandshakeProtects`, `EachReapedOnce`.
* **FileLogAppenderProofs.** A thread may skip `reopen` because another one set
  `m_lastTime`, and `m_lastTime` may go back. `FreshInv` says that a deletion of
  the open file is no older than `m_lastTime` nor than the second of any thread
  about to set it or to write. `StreamInv` says that a stream that is open with
  an error bit has badbit, and that nothing clears it. From them:
  `LostWithinTheSecond` and `ReopenFailsOnlyWhenBad`.
* **LockProofs.** For the guards, `HoldInv` says at each point of the guard how flag and
  lock may disagree, `ModeInv` ties the lock to the class of the guard. From
  it: `GuardsOwn`, `GuardsExclude`, and that the guards implement `RWMutex`
  (`GuardsUseTheLock`). For `CASLock`, exclusion together with "the flag is set
  exactly while someone is inside" is inductive (`CASExcludes`), and
  `CASRefines` is the refinement of `RWMutex`.
* **ConfigVarProofs.** `LockInv` says which lock a call has at each of its points,
  with the gap between the two halves of `setValue`; `ExclusionInv` that readers
  and the writer exclude each other; `HomeInv` that a callback is only in the map
  of the variable it was registered on. From these comes
  `CallbacksSeeStableState`. `ListenersAreTold` needs more, because what
  a listener knows is the variable's value only between changes: `HeardInv`
  follows an announcement from key to key (those up to the iterator know the new
  value) through the gap, where all know it and it is not stored. The argument
  for one step of the loop is that it goes to the least key left
  (`NextKeyIsLeast`, from the well-foundedness of the naturals).
  `IdsNameListeners` assumes that the type has one variable (`OneVariable`):
  its mutex then protects the static counter as well, and `IdInv` bounds the keys
  in use by it. With two variables of a type the statement is false, which is
  what the run `config_var_ids` shows.
* **ConfigProofs.** `HeldInv` gives for every lock held the only reasons there are
  to hold it, `LookupInv`, `VisitInv` and `SetInv` what a call relies on at each
  of its points, `ExclusionInv` that the registry's WriteLock excludes every other
  lock on it, and `RegistryInv` that names and variables correspond one to one.
  `OneVariable` follows because what `Lookup` did not find is still not there when
  it creates it, and `VisitsStandStill` because only the holder of the WriteLock
  creates. `NobodyWaitsInACircle` gives every call a rank by its position: a call
  that waits for a variable waits only for callers inside a change callback, one
  of these only for callers inside the registry, which wait for nobody; the
  discipline of the callbacks is what keeps a caller inside the registry from
  waiting for a variable that is being announced (`WaitsForLower`).
  `LoadsReachTheirVariables` is by the positions the loop has behind it
  (`LoadInv`). It assumes one loader and documents with each name once: otherwise
  the last store to a variable wins, as it does in the code.
* **LoggerProofs.** `MineInv` places the users' appender: in one list at a time,
  once, and in none while `addAppender` is half-way. `FormatterInv` gives every
  configured appender its own formatter, which is not null, or that of its logger,
  `MineFormatterInv` does so for the users'. `WalkInv` and `EraseInv` are about the
  iterators of `log` and of `delAppender`. `ReloadInv` keeps the listener's two
  loops inside the sets they go over. Together with the properties themselves
  this is inductive, and gives `TypeCorrect`, `WalksAreUndisturbed`,
  `NullPointers` and `FormattersAreInherited`. `ReloadsApply` has an
  invariant of its own, `CInv`: reloads of which the last began alone are alone
  (`SoleInv`), and what the first loop has behind it is applied, the current
  definition up to the appenders that were made (`Progress`), each with type, level
  and own formatter (`IsOf`), whatever the users do to their own appender and to
  the formatters of loggers in between. That the second loop then changes nothing
  is the defect that `logger_removed` shows (`RemovedTestFails`). The lemmas about
  lists are stated once: what `WithFormatter`, `Append` and `RemoveFirst` do to
  the configured part of a list.

* **LogTextProofs, the parser.** `Parses` is about patterns of any length. That
  the items are right at the end says nothing of the turns before, so `CollectInv`
  compares in every turn: `vec`, then the text in `str`, then the meaning of the
  rest of the pattern, are the meaning of the whole (`R(1)`), or both are
  malformed. `ScanInv` is what the inner loop knows of the characters it has
  passed, and `KnownItem`, `UnknownItem` and `UnclosedItem` say what the reference
  makes of them where the loop ends. `DoneInv` takes this to `m_items`, and
  `OutputIsWritten` to what `format` writes. The lemmas below are about the
  reference: `Meanings` exists and is a result (`MeaningsExist`, `MeaningsType`,
  by induction from the end of the pattern), and texts that meet are one text
  (`JoinText`), so that it does not matter in how many pieces the parser takes
  them. `ScanInv` holds for every pattern; `CollectInv` and `DoneInv`, as the
  property, are about those without `%%`.
* **LogTextProofs, the variable `logs`.** `LogsTyped`, `LogsReimported` and
  `LogsRewritten` hold for every document. `ReadsLogs` is what any document is
  read as, and is where the unknown types and missing files are gone; from it the
  two printers are inverted one level at a time: levels (`LevelRereads`),
  appenders (`AppenderRereads`, `AppenderReimports`), loggers (`DefineRereads`,
  `LoggerReimports`), and the whole (`LogsReadAgain`, `LogsReimport`). The export is
  about any well-formed loggers (`IsManager`), which the default root logger is
  (`DefaultLogger`) and the listener makes (`ConfiguredManager`). For the whole
  it takes that a finite set of nodes with different names, listed in any order,
  is read as those nodes (`ReadsTheList`). `LogsInv` says at each stage of whom the
  text in hand was written. The statements are about `LogsSpec`, the part of
  `ConfigText` with `type = Logs`.

Induction in `LogTextProofs` is by the least counterexample: `LeastElement`, from
the well-foundedness of the naturals, gives `SetInduction`, in which the
predicate is a set of naturals and not an operator. That a function defined by
recursion exists is proved with it, too (`MeaningsExist`, `PushedExists`).

Every invariant above (`IInv`, `IdInv`, `LInv`, `CInv`, `Inv`, `LogsInv`) also
holds in all states of the instances of section 3.

Model-checked only: the liveness properties `CallsReturn`, `SomeoneEnters` and
`Terminates`, because liveness and ENABLED are beyond the prover; and
`ToStringRereads` (all but its part about `logs`) and `ReadIsStable`, because the
casts of containers are RECURSIVE operators over nested types, which the prover
cannot handle. The three violation runs are counterexamples, and need no proof.

## 5. Not modelled

* The fields of `LogEvent` and its printf-like `format`, and what the items
  other than the date write: formatting of one event. That an event is made,
  filtered and handed to the appenders is in `Logger`.
* `util`, `singleton.h` and `macro.h`: thin wrappers without decisions. A failing
  assertion is modelled where it is used.
* `NullMutex` and `NullRWMutex`, whose methods are empty; the accessors that only
  return a field.
* The mutex of a single appender other than the users': the listener's appenders
  are known to nobody else until they are in a list.
* yaml-cpp, pthreads, ucontext and the file system: external, modelled by how
  the code uses them.
* Weak memory: locks are taken to order what they protect; unprotected
  variables (`s_fun_id`, `m_lastTime`, `m_level`) are read and written in
  single steps in any interleaving.
* `swapIn` inside a sub-fiber: see section 3.

## 6. Plan

Done: the components above, in the order fibers, configuration variables,
threads, appender, logger, parser, locks, registry, conversions; the composition
of the registry with the locks of its variables and with callbacks, of `log`
with reloads and users, and of the conversions with `fromString` and `toString`;
the theorems of section 4.

All invariants and action properties of the runs are proved, other than those of
the casts of containers. What could be added: a specification of the registry as a
map from names to values, refined by `Config`; one of a variable whose `setValue`
tells and stores in one step, refined by `ConfigVar` as long as nothing is raced;
the casts as recursive functions of the depth of a type, with the induction of
`LogTextProofs`.
