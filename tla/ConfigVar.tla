----------------------------- MODULE ConfigVar -----------------------------
(***************************************************************************)
(* ConfigVar<T> of src/src/config.h: a value behind a RWMutex, a map of    *)
(* change callbacks, setValue with its two separate critical sections, and *)
(* addListener with its function-local static id counter, which all        *)
(* instances of the same T share although each has a mutex of its own.     *)
(*                                                                         *)
(* A callback is named by the addListener call that registers it.  It may  *)
(* throw; it does not use the variable it is registered on (a WriteLock    *)
(* under its caller's ReadLock never returns).  getValue, getListener and  *)
(* toString read under the lock and change nothing; fromString is setValue *)
(* of the parsed value, or nothing when the parse throws.                  *)
(***************************************************************************)
EXTENDS Naturals, FiniteSets, Functions

CONSTANTS
  Setters,    \* the threads that call setValue or fromString
  Listeners,  \* the threads that call addListener, delListener, clearListener
  Vars,       \* instances of ConfigVar<T> for one T
  Vals,       \* the values of T
  Default,    \* default_value
  Cbs,        \* the callbacks, one per addListener call: bounds those calls
  Throwing,   \* the callbacks that throw
  NULL        \* no thread, no variable

ASSUME ConfigVarAssumption ==
  /\ Default \in Vals
  /\ Throwing \subseteq Cbs
  /\ NULL \notin Setters \cup Listeners \cup Vars \cup Cbs

Threads == Setters \cup Listeners

VARIABLES
  m_val, m_cbs,     \* the fields of every variable
  readers, writer,  \* its m_mutex: who holds a ReadLock, who the WriteLock
  s_fun_id,         \* the static of addListener
  pc, var, val,     \* where a thread is, on which variable, and its argument
  old, keys, it,    \* setValue: the value compared, the map iterated, the last key called
  cb, tmp,          \* addListener: the argument, and the loaded counter
  heard,            \* heard[c]: the value c was last told, or m_val when registered
  raced,            \* raced[v]: changes of v overlapped, or one failed half-way
  handle, home      \* the id addListener returned for c (0: none) and c's variable

lock  == <<readers, writer>>
set   == <<val, old, keys, it>>
add   == <<cb, tmp, s_fun_id>>
vars  == <<m_val, m_cbs, lock, pc, var, set, add, heard, raced, handle, home>>

PC == {"idle", "compare", "notify", "store", "load", "inc", "insert", "return"}

Init ==
  /\ m_val = [v \in Vars |-> Default]
  /\ m_cbs = [v \in Vars |-> <<>>]
  /\ readers = [v \in Vars |-> {}]
  /\ writer = [v \in Vars |-> NULL]
  /\ s_fun_id = 0
  /\ pc = [t \in Threads |-> "idle"]
  /\ var = [t \in Threads |-> NULL]
  /\ val = [t \in Threads |-> Default]
  /\ old = [t \in Threads |-> Default]
  /\ keys = [t \in Threads |-> {}]
  /\ it = [t \in Threads |-> 0]
  /\ cb = [t \in Threads |-> NULL]
  /\ tmp = [t \in Threads |-> 0]
  /\ heard = [c \in Cbs |-> Default]
  /\ raced = [v \in Vars |-> FALSE]
  /\ handle = [c \in Cbs |-> 0]
  /\ home = [c \in Cbs |-> NULL]

-----------------------------------------------------------------------------
(* The lock *)

\* Mutants of CanWrite: a writer enters beside readers; nobody waits.
CanWriteReaders(v) == writer[v] = NULL
CanWriteAlways(v)  == TRUE

CanRead(v)  == writer[v] = NULL
CanWrite(v) == writer[v] = NULL /\ readers[v] = {}
ReadLock(t, v)   == CanRead(v) /\ readers' = [readers EXCEPT ![v] = @ \cup {t}]
ReadUnlock(t, v) == readers' = [readers EXCEPT ![v] = @ \ {t}]

Goto(t, label) == pc' = [pc EXCEPT ![t] = label]

-----------------------------------------------------------------------------
(* setValue *)

\* A change of v by another thread is announced and not yet stored.
Changing(t, v) == \E u \in Threads \ {t} : var[u] = v /\ pc[u] \in {"notify", "store"}
Race(v, if) == raced' = [raced EXCEPT ![v] = @ \/ if]

\* ReadLock lock(m_mutex)
SetValue(t, v, x) ==
  /\ pc[t] = "idle"
  /\ ReadLock(t, v)
  /\ var' = [var EXCEPT ![t] = v]
  /\ val' = [val EXCEPT ![t] = x]
  /\ Goto(t, "compare")
  /\ UNCHANGED <<m_val, m_cbs, writer, old, keys, it, add, heard, raced, handle, home>>

\* if(v == m_val) return; otherwise the range-for over m_cbs starts.
Compare(t) ==
  LET v == var[t] IN
  /\ pc[t] = "compare"
  /\ IF val[t] = m_val[v]
     THEN /\ ReadUnlock(t, v)
          /\ Goto(t, "idle")
          /\ UNCHANGED <<old, keys, it, raced>>
     ELSE /\ old' = [old EXCEPT ![t] = m_val[v]]
          /\ keys' = [keys EXCEPT ![t] = DOMAIN m_cbs[v]]
          /\ it' = [it EXCEPT ![t] = 0]
          /\ Race(v, Changing(t, v))
          /\ Goto(t, "notify")
          /\ UNCHANGED readers
  /\ UNCHANGED <<m_val, m_cbs, writer, var, val, add, heard, handle, home>>

\* Mutant of Remaining: the first callback is skipped.
RemainingButFirst(t) == {k \in keys[t] : k > it[t] + 1}

\* The callbacks still to be called, in the order of their keys.
Remaining(t) == {k \in keys[t] : k > it[t]}
NextKey(t) == CHOOSE k \in Remaining(t) : \A j \in Remaining(t) : k <= j

\* i.second(m_val, v): the callback takes the new value, or throws, which
\* unwinds the ReadLock and leaves m_val as it was.
Notify(t) ==
  LET v == var[t]  c == m_cbs[v][NextKey(t)] IN
  /\ pc[t] = "notify"
  /\ Remaining(t) # {}
  /\ IF c \in Throwing
     THEN /\ ReadUnlock(t, v)
          /\ Race(v, it[t] # 0)
          /\ Goto(t, "idle")
          /\ UNCHANGED <<it, heard>>
     ELSE /\ it' = [it EXCEPT ![t] = NextKey(t)]
          /\ heard' = [heard EXCEPT ![c] = val[t]]
          /\ UNCHANGED <<readers, pc, raced>>
  /\ UNCHANGED <<m_val, m_cbs, writer, var, val, old, keys, add, handle, home>>

\* The end of the block: the ReadLock is released, the WriteLock not yet taken.
EndNotify(t) ==
  /\ pc[t] = "notify"
  /\ Remaining(t) = {}
  /\ ReadUnlock(t, var[t])
  /\ Goto(t, "store")
  /\ UNCHANGED <<m_val, m_cbs, writer, var, set, add, heard, raced, handle, home>>

\* WriteLock lock(m_mutex); m_val = v;
Store(t) ==
  /\ pc[t] = "store"
  /\ CanWrite(var[t])
  /\ m_val' = [m_val EXCEPT ![var[t]] = val[t]]
  /\ Goto(t, "idle")
  /\ UNCHANGED <<m_cbs, lock, var, set, add, heard, raced, handle, home>>

-----------------------------------------------------------------------------
(* The listeners *)

\* addListener: WriteLock lock(m_mutex)
AddListener(t, v, c) ==
  /\ pc[t] = "idle"
  /\ home[c] = NULL
  /\ CanWrite(v)
  /\ writer' = [writer EXCEPT ![v] = t]
  /\ home' = [home EXCEPT ![c] = v]
  /\ var' = [var EXCEPT ![t] = v]
  /\ cb' = [cb EXCEPT ![t] = c]
  /\ Goto(t, "load")
  /\ UNCHANGED <<m_val, m_cbs, readers, set, tmp, s_fun_id, heard, raced, handle>>

\* ++s_fun_id is a load and a store of a plain uint64_t.
LoadId(t) ==
  /\ pc[t] = "load"
  /\ tmp' = [tmp EXCEPT ![t] = s_fun_id]
  /\ Goto(t, "inc")
  /\ UNCHANGED <<m_val, m_cbs, lock, var, set, cb, s_fun_id, heard, raced, handle, home>>

\* Mutant of StoreId: the counter is not incremented.
StoreIdSame(t) ==
  /\ pc[t] = "inc"
  /\ Goto(t, "insert")
  /\ UNCHANGED <<m_val, m_cbs, lock, var, set, add, heard, raced, handle, home>>

StoreId(t) ==
  /\ pc[t] = "inc"
  /\ s_fun_id' = tmp[t] + 1
  /\ Goto(t, "insert")
  /\ UNCHANGED <<m_val, m_cbs, lock, var, set, cb, tmp, heard, raced, handle, home>>

\* m_cbs[s_fun_id] = ocb
Insert(t) ==
  LET v == var[t]  c == cb[t] IN
  /\ pc[t] = "insert"
  /\ m_cbs' = [m_cbs EXCEPT ![v] = [k \in DOMAIN @ \cup {s_fun_id} |->
                                      IF k = s_fun_id THEN c ELSE @[k]]]
  /\ heard' = [heard EXCEPT ![c] = m_val[v]]
  /\ Race(v, Changing(t, v))
  /\ Goto(t, "return")
  /\ UNCHANGED <<m_val, lock, var, set, add, handle, home>>

\* return s_fun_id
Return(t) ==
  /\ pc[t] = "return"
  /\ handle' = [handle EXCEPT ![cb[t]] = s_fun_id]
  /\ writer' = [writer EXCEPT ![var[t]] = NULL]
  /\ Goto(t, "idle")
  /\ UNCHANGED <<m_val, m_cbs, readers, var, set, add, heard, raced, home>>

\* delListener with the id that addListener returned for c
DelListener(t, c) ==
  LET v == home[c] IN
  /\ pc[t] = "idle"
  /\ handle[c] # 0
  /\ CanWrite(v)
  /\ m_cbs' = [m_cbs EXCEPT ![v] = Restrict(@, DOMAIN @ \ {handle[c]})]
  /\ handle' = [handle EXCEPT ![c] = 0]
  /\ UNCHANGED <<m_val, lock, pc, var, set, add, heard, raced, home>>

\* clearListener; the ids of the callbacks it removes are dead.
ClearListener(t, v) ==
  /\ pc[t] = "idle"
  /\ CanWrite(v)
  /\ m_cbs' = [m_cbs EXCEPT ![v] = <<>>]
  /\ handle' = [c \in Cbs |-> IF home[c] = v THEN 0 ELSE handle[c]]
  /\ UNCHANGED <<m_val, lock, pc, var, set, add, heard, raced, home>>

Next ==
  \/ \E t \in Setters :
       \/ \E v \in Vars, x \in Vals : SetValue(t, v, x)
       \/ Compare(t) \/ Notify(t) \/ EndNotify(t) \/ Store(t)
  \/ \E t \in Listeners :
       \/ \E v \in Vars, c \in Cbs : AddListener(t, v, c)
       \/ LoadId(t) \/ StoreId(t) \/ Insert(t) \/ Return(t)
       \/ \E c \in Cbs : DelListener(t, c)
       \/ \E v \in Vars : ClearListener(t, v)

Spec == Init /\ [][Next]_vars

-----------------------------------------------------------------------------
(* Properties *)

\* Type invariant; 0 is no id of a callback.
TypeOK ==
  /\ m_val \in [Vars -> Vals]
  /\ DOMAIN m_cbs = Vars
  /\ \A v \in Vars : m_cbs[v] \in [DOMAIN m_cbs[v] -> Cbs] /\ DOMAIN m_cbs[v] \subseteq Nat \ {0}
  /\ readers \in [Vars -> SUBSET Threads]
  /\ writer \in [Vars -> Threads \cup {NULL}]
  /\ s_fun_id \in Nat
  /\ pc \in [Threads -> PC]
  /\ var \in [Threads -> Vars \cup {NULL}]
  /\ val \in [Threads -> Vals]
  /\ old \in [Threads -> Vals]
  /\ keys \in [Threads -> SUBSET Nat]
  /\ it \in [Threads -> Nat]
  /\ cb \in [Threads -> Cbs \cup {NULL}]
  /\ tmp \in [Threads -> Nat]
  /\ heard \in [Cbs -> Vals]
  /\ raced \in [Vars -> BOOLEAN]
  /\ handle \in [Cbs -> Nat]
  /\ home \in [Cbs -> Vars \cup {NULL}]

\* While a setValue calls the callbacks, nobody changes the value it hands them
\* as old_value, and nobody changes the map it iterates over: two setters may
\* notify at once, but no store, add, delete or clear gets in between.
IterationStable ==
  \A t \in Threads : pc[t] = "notify" =>
    m_val[var[t]] = old[t] /\ DOMAIN m_cbs[var[t]] = keys[t]

\* "the unique id of this callback, used to delete it" (config.h:460): the id
\* that addListener returned is the key under which that callback is stored, also
\* when two threads add, delete and clear listeners of one variable at once.
IdNamesItsListener ==
  \A c \in Cbs : handle[c] # 0 =>
    /\ handle[c] \in DOMAIN m_cbs[home[c]]
    /\ m_cbs[home[c]][handle[c]] = c

\* "on a change of the configuration, call the callbacks to notify the system"
\* (config.h:374): when no setValue is under way, every registered listener has
\* been told the current value, or has seen it when it was registered.  The code
\* does not promise it for a variable whose changes were announced in one order
\* and may be stored in another, that got a listener between the two halves of a
\* change, or that had a callback throw after others were told; these are the
\* only ways in which a listener is left behind.
HeardUnlessRaced ==
  \A v \in Vars :
    ~raced[v] /\ (\A t \in Threads : var[t] = v => pc[t] \notin {"notify", "store"}) =>
      \A c \in Range(m_cbs[v]) : heard[c] = m_val[v]
=============================================================================
