-------------------------- MODULE ConfigVarProofs --------------------------
(***************************************************************************)
(* Proofs about ConfigVar, for any number of threads, variables, values    *)
(* and callbacks: the old value and the map are stable while callbacks are *)
(* called, a listener is left behind only by the races that the model      *)
(* names, and, for a type with one variable, ids name their callbacks.     *)
(***************************************************************************)
EXTENDS ConfigVar, WellFoundedInduction, TLAPS

\* A thread inside a call has its variable's lock in the mode of the call, but in
\* the gap between the two halves of setValue.
LockInv(t) ==
  /\ pc[t] # "idle" => var[t] \in Vars
  /\ pc[t] \in {"compare", "notify"} => t \in readers[var[t]]
  /\ pc[t] \in {"load", "inc", "insert", "return"} =>
       writer[var[t]] = t /\ cb[t] \in Cbs /\ home[cb[t]] = var[t]
  /\ pc[t] \in {"insert", "return"} => s_fun_id # 0

\* Readers and a writer exclude each other.
ExclusionInv == \A v \in Vars : \A t \in readers[v] : writer[v] = NULL

\* A callback is only in the map of the variable it was registered on, and one
\* that has an id was registered.
HomeInv ==
  /\ \A v \in Vars : \A k \in DOMAIN m_cbs[v] : home[m_cbs[v][k]] = v
  /\ \A c \in Cbs : handle[c] # 0 => home[c] \in Vars

\* Thread t has announced a change of v that it has not stored.
Announcing(t, v) == var[t] = v /\ pc[t] \in {"notify", "store"}

AllHeard(v, x) == \A k \in DOMAIN m_cbs[v] : heard[m_cbs[v][k]] = x

\* The changes of a variable without races come one after the other; what its
\* listeners know is its value, then, one by one, the value that is announced,
\* and at the end of the announcement all know that.
HeardInv(v) ==
  ~raced[v] =>
    /\ \A t, u \in Threads : Announcing(t, v) /\ Announcing(u, v) => t = u
    /\ (\A t \in Threads : ~Announcing(t, v)) => AllHeard(v, m_val[v])
    /\ \A t \in Threads : var[t] = v /\ pc[t] = "notify" =>
         /\ it[t] = 0 => AllHeard(v, m_val[v])
         /\ \A k \in DOMAIN m_cbs[v] : k <= it[t] => heard[m_cbs[v][k]] = val[t]
    /\ \A t \in Threads : var[t] = v /\ pc[t] = "store" => AllHeard(v, val[t])

IInv ==
  /\ TypeOK
  /\ \A t \in Threads : LockInv(t)
  /\ ExclusionInv
  /\ HomeInv
  /\ IterationStable
  /\ \A v \in Vars : HeardInv(v)

-----------------------------------------------------------------------------
(* Lemmas about the operators of the model *)

LessThan == {ss \in Nat \X Nat : ss[1] < ss[2]}

\* Every set of naturals that is not empty has a least element.
LEMMA LeastElement ==
  ASSUME NEW T, T \subseteq Nat, T # {}
  PROVE  \E x \in T : \A y \in T : x <= y
<1>1. IsWellFoundedOn(LessThan, Nat)
  BY NatLessThanWellFounded DEF OpToRel, LessThan
<1>2. PICK x \in T : \A y \in T : ~(<<y, x>> \in LessThan)
  BY <1>1, WFMin, Zenon
<1>3. ASSUME NEW y \in T PROVE x <= y
  <2>1. <<y, x>> \in LessThan <=> y < x
    BY DEF LessThan
  <2> QED BY <1>2, <2>1
<1> QED BY <1>3

\* The iteration of setValue goes to the least key that is left.
LEMMA NextKeyIsLeast ==
  ASSUME NEW t, Remaining(t) \subseteq Nat, Remaining(t) # {}
  PROVE  /\ NextKey(t) \in Remaining(t)
         /\ \A j \in Remaining(t) : NextKey(t) <= j
<1>1. \E k \in Remaining(t) : \A j \in Remaining(t) : k <= j
  BY LeastElement
<1> QED BY <1>1 DEF NextKey

\* While a thread reads or announces under its ReadLock, no other writes.
LEMMA ReadersKeepWritersOut ==
  ASSUME IInv, NEW t \in Threads, NEW v \in Vars, CanWrite(v)
  PROVE  pc[t] \in {"compare", "notify"} => var[t] # v
BY DEF IInv, LockInv, CanWrite

-----------------------------------------------------------------------------
(* setValue *)

\* The initial states satisfy the invariant.
LEMMA InitInv ==
  ASSUME Init
  PROVE  IInv
<1> USE ConfigVarAssumption DEF Init
<1>1. TypeOK
  BY DEF TypeOK, PC
<1>2. \A t \in Threads : LockInv(t)
  BY DEF LockInv
<1>3. ExclusionInv /\ HomeInv /\ IterationStable
  BY DEF ExclusionInv, HomeInv, IterationStable
<1>4. ASSUME NEW v \in Vars PROVE HeardInv(v)
  BY DEF HeardInv, Announcing, AllHeard
<1> QED BY <1>1, <1>2, <1>3, <1>4 DEF IInv

\* setValue takes a ReadLock and announces nothing yet.
LEMMA SetValueStep ==
  ASSUME IInv, NEW t \in Threads, NEW v \in Vars, NEW x \in Vals, SetValue(t, v, x)
  PROVE  IInv'
<1> USE ConfigVarAssumption DEF IInv, SetValue, ReadLock, CanRead, Goto, add
<1>1. TypeOK'
  BY DEF TypeOK, PC
<1>2. ASSUME NEW u \in Threads PROVE LockInv(u)'
  BY DEF LockInv, TypeOK
<1>3. ExclusionInv' /\ HomeInv'
  BY DEF ExclusionInv, HomeInv, TypeOK
<1>4. IterationStable'
  BY DEF IterationStable, TypeOK
<1>5. ASSUME NEW w \in Vars PROVE HeardInv(w)'
  BY DEF HeardInv, Announcing, AllHeard, TypeOK
<1> QED BY <1>1, <1>2, <1>3, <1>4, <1>5

\* The comparison ends the call, or the announcement begins: nobody has heard it.
LEMMA CompareStep ==
  ASSUME IInv, NEW t \in Threads, Compare(t)
  PROVE  IInv'
<1> USE DEF IInv
<1>1. PICK v \in Vars : var[t] = v
  BY DEF LockInv, Compare
<1>2. pc[t] = "compare" /\ UNCHANGED <<m_val, m_cbs, writer, var, val, cb, tmp, s_fun_id, heard, handle, home>>
  BY DEF Compare, add
<1>3. CASE val[t] = m_val[v]
  <2>1. /\ readers' = [readers EXCEPT ![v] = @ \ {t}]
        /\ pc' = [pc EXCEPT ![t] = "idle"]
        /\ UNCHANGED <<old, keys, it, raced>>
    BY <1>1, <1>3, Zenon DEF Compare, ReadUnlock, Goto
  <2> USE <1>1, <1>2, <2>1
  <2>2. TypeOK'
    BY DEF TypeOK, PC
  <2>3. ASSUME NEW u \in Threads PROVE LockInv(u)'
    BY DEF LockInv, TypeOK
  <2>4. ExclusionInv' /\ HomeInv' /\ IterationStable'
    BY DEF ExclusionInv, HomeInv, IterationStable, TypeOK
  <2>5. ASSUME NEW w \in Vars PROVE HeardInv(w)'
    <3>1. \A u \in Threads : /\ Announcing(u, w)' <=> Announcing(u, w)
                             /\ u # t => pc'[u] = pc[u]
      BY DEF Announcing, TypeOK
    <3>2. pc'[t] = "idle"
      BY DEF TypeOK
    <3> QED BY <3>1, <3>2 DEF HeardInv, AllHeard
  <2> QED BY <2>2, <2>3, <2>4, <2>5
<1>4. CASE val[t] # m_val[v]
  <2>1. /\ old' = [old EXCEPT ![t] = m_val[v]]
        /\ keys' = [keys EXCEPT ![t] = DOMAIN m_cbs[v]]
        /\ it' = [it EXCEPT ![t] = 0]
        /\ Race(v, Changing(t, v))
        /\ pc' = [pc EXCEPT ![t] = "notify"]
        /\ UNCHANGED readers
    BY <1>1, <1>4, Zenon DEF Compare, Goto
  <2> USE <1>1, <1>2, <2>1
  <2>2. TypeOK'
    BY DEF TypeOK, PC, Race
  <2>3. ASSUME NEW u \in Threads PROVE LockInv(u)'
    BY DEF LockInv, TypeOK
  <2>4. ExclusionInv' /\ HomeInv' /\ IterationStable'
    BY DEF ExclusionInv, HomeInv, IterationStable, TypeOK
  <2>5. \A u \in Threads : u # t => pc'[u] = pc[u] /\ it'[u] = it[u]
    BY DEF TypeOK
  <2>6. it'[t] = 0 /\ pc'[t] = "notify"
    BY DEF TypeOK
  <2>7. ASSUME NEW w \in Vars, w # v PROVE HeardInv(w)'
    <3>1. raced'[w] = raced[w]
      BY <2>7 DEF Race, TypeOK
    <3> QED BY <2>5, <2>7, <3>1 DEF HeardInv, Announcing, AllHeard
  <2>8. HeardInv(v)'
    <3> SUFFICES ASSUME ~raced'[v] PROVE HeardInv(v)'
      BY DEF HeardInv
    <3>1. ~raced[v] /\ ~Changing(t, v)
      BY DEF Race, TypeOK
    <3>2. \A u \in Threads : Announcing(u, v) => FALSE
      BY <3>1 DEF Changing, Announcing
    <3>3. AllHeard(v, m_val[v])
      BY <3>1, <3>2 DEF HeardInv
    <3>4. \A u \in Threads : Announcing(u, v)' => u = t
      BY <3>2, <2>5 DEF Announcing
    <3>5. \A k \in DOMAIN m_cbs[v] : ~(k <= 0)
      BY DEF TypeOK
    <3> QED BY <3>3, <3>4, <3>5, <2>6 DEF HeardInv, Announcing, AllHeard
  <2> QED BY <2>2, <2>3, <2>4, <2>7, <2>8
<1> QED BY <1>3, <1>4

\* A callback takes the value, or throws; if it is the first, nobody was told.
LEMMA NotifyStep ==
  ASSUME IInv, NEW t \in Threads, Notify(t)
  PROVE  IInv'
<1> USE DEF IInv
<1>1. PICK v \in Vars : var[t] = v
  BY DEF LockInv, Notify
<1>2. /\ pc[t] = "notify"
      /\ UNCHANGED <<m_val, m_cbs, writer, var, val, old, keys, cb, tmp, s_fun_id, handle, home>>
  BY DEF Notify, add
<1>3. DOMAIN m_cbs[v] = keys[t] /\ keys[t] \subseteq Nat \ {0} /\ it[t] \in Nat
  BY <1>1, <1>2 DEF IterationStable, TypeOK
<1>4. /\ NextKey(t) \in keys[t] /\ NextKey(t) > it[t]
      /\ \A k \in keys[t] : k > it[t] => NextKey(t) <= k
  <2>1. Remaining(t) \subseteq Nat /\ Remaining(t) # {}
    BY <1>3 DEF Notify, Remaining
  <2>2. NextKey(t) \in Remaining(t) /\ \A j \in Remaining(t) : NextKey(t) <= j
    BY <2>1, NextKeyIsLeast
  <2> HIDE DEF NextKey
  <2> QED BY <2>2 DEF Remaining
<1>5. PICK n : n = NextKey(t)
  OBVIOUS
<1>6. PICK c \in Cbs : c = m_cbs[v][n]
  BY <1>3, <1>4, <1>5 DEF TypeOK
<1>7. CASE c \in Throwing
  <2>1. /\ readers' = [readers EXCEPT ![v] = @ \ {t}]
        /\ Race(v, it[t] # 0)
        /\ pc' = [pc EXCEPT ![t] = "idle"]
        /\ UNCHANGED <<it, heard>>
    BY <1>1, <1>5, <1>6, <1>7, Zenon DEF Notify, ReadUnlock, Goto
  <2> USE <1>1, <1>2, <2>1
  <2>2. TypeOK'
    BY DEF TypeOK, PC, Race
  <2>3. ASSUME NEW u \in Threads PROVE LockInv(u)'
    BY DEF LockInv, TypeOK
  <2>4. ExclusionInv' /\ HomeInv' /\ IterationStable'
    BY DEF ExclusionInv, HomeInv, IterationStable, TypeOK
  <2>5. pc'[t] = "idle" /\ \A u \in Threads : u # t => pc'[u] = pc[u]
    BY DEF TypeOK
  <2>6. ASSUME NEW w \in Vars, w # v PROVE HeardInv(w)'
    <3>1. raced'[w] = raced[w]
      BY <2>6 DEF Race, TypeOK
    <3> QED BY <2>5, <2>6, <3>1 DEF HeardInv, Announcing, AllHeard
  <2>7. HeardInv(v)'
    <3> SUFFICES ASSUME ~raced'[v] PROVE HeardInv(v)'
      BY DEF HeardInv
    <3>1. ~raced[v] /\ it[t] = 0
      BY DEF Race, TypeOK
    <3>2. AllHeard(v, m_val[v]) /\ Announcing(t, v)
      BY <3>1 DEF HeardInv, Announcing
    <3>3. \A u \in Threads : ~Announcing(u, v)'
      BY <3>1, <3>2, <2>5 DEF HeardInv, Announcing
    <3> QED BY <3>2, <3>3 DEF HeardInv, Announcing, AllHeard
  <2> QED BY <2>2, <2>3, <2>4, <2>6, <2>7
<1>8. CASE c \notin Throwing
  <2>1. /\ it' = [it EXCEPT ![t] = n]
        /\ heard' = [heard EXCEPT ![c] = val[t]]
        /\ UNCHANGED <<readers, pc, raced>>
    BY <1>1, <1>5, <1>6, <1>8, Zenon DEF Notify
  <2> USE <1>1, <1>2, <2>1
  <2>2. n \in keys[t] /\ n > it[t] /\ n # 0 /\ \A k \in keys[t] : k <= n => k <= it[t] \/ k = n
    BY <1>3, <1>4, <1>5
  <2>3. TypeOK'
    BY <1>3, <2>2 DEF TypeOK
  <2>4. ASSUME NEW u \in Threads PROVE LockInv(u)'
    BY DEF LockInv
  <2>5. ExclusionInv' /\ HomeInv' /\ IterationStable'
    BY DEF ExclusionInv, HomeInv, IterationStable
  <2>6. it'[t] = n /\ \A u \in Threads : u # t => it'[u] = it[u]
    BY DEF TypeOK
  <2>7. ASSUME NEW w \in Vars, w # v PROVE HeardInv(w)'
    <3>1. \A k \in DOMAIN m_cbs[w] : heard'[m_cbs[w][k]] = heard[m_cbs[w][k]]
      BY <1>3, <1>6, <2>2, <2>7 DEF HomeInv, TypeOK
    <3> QED BY <2>6, <2>7, <3>1 DEF HeardInv, Announcing, AllHeard
  <2>8. HeardInv(v)'
    <3> SUFFICES ASSUME ~raced[v] PROVE HeardInv(v)'
      BY DEF HeardInv
    <3>1. Announcing(t, v) /\ \A u \in Threads : Announcing(u, v) => u = t
      BY DEF HeardInv, Announcing
    <3>2. \A k \in DOMAIN m_cbs[v] : k <= it[t] => heard[m_cbs[v][k]] = val[t]
      BY DEF HeardInv
    <3>3. \A k \in DOMAIN m_cbs[v] : k <= n => heard'[m_cbs[v][k]] = val[t]
      BY <1>3, <1>6, <2>2, <3>2 DEF TypeOK
    <3> QED BY <2>2, <2>6, <3>1, <3>3 DEF HeardInv, Announcing
  <2> QED BY <2>3, <2>4, <2>5, <2>7, <2>8
<1> QED BY <1>7, <1>8

\* At the end of the announcement every listener knows the value.
LEMMA EndNotifyStep ==
  ASSUME IInv, NEW t \in Threads, EndNotify(t)
  PROVE  IInv'
<1> USE DEF IInv
<1>1. PICK v \in Vars : var[t] = v
  BY DEF LockInv, EndNotify
<1>2. /\ pc[t] = "notify"
      /\ Remaining(t) = {}
      /\ readers' = [readers EXCEPT ![v] = @ \ {t}]
      /\ pc' = [pc EXCEPT ![t] = "store"]
      /\ UNCHANGED <<m_val, m_cbs, writer, var, val, old, keys, it, cb, tmp, s_fun_id,
                     heard, raced, handle, home>>
  BY <1>1 DEF EndNotify, ReadUnlock, Goto, set, add
<1> USE <1>1, <1>2
<1>3. TypeOK'
  BY DEF TypeOK, PC
<1>4. ASSUME NEW u \in Threads PROVE LockInv(u)'
  BY DEF LockInv, TypeOK
<1>5. ExclusionInv' /\ HomeInv' /\ IterationStable'
  BY DEF ExclusionInv, HomeInv, IterationStable, TypeOK
<1>6. pc'[t] = "store" /\ \A u \in Threads : u # t => pc'[u] = pc[u]
  BY DEF TypeOK
<1>7. ASSUME NEW w \in Vars PROVE HeardInv(w)'
  <2>1. \A u \in Threads : Announcing(u, w)' <=> Announcing(u, w)
    BY <1>6 DEF Announcing
  <2>2. ~raced[v] => AllHeard(v, val[t])
    <3>1. \A k \in DOMAIN m_cbs[v] : k <= it[t]
      BY DEF IterationStable, Remaining, TypeOK
    <3> QED BY <3>1 DEF HeardInv, AllHeard
  <2> QED BY <1>6, <2>1, <2>2 DEF HeardInv, AllHeard
<1> QED BY <1>3, <1>4, <1>5, <1>7

\* The store makes the value what every listener knows.
LEMMA StoreStep ==
  ASSUME IInv, NEW t \in Threads, Store(t)
  PROVE  IInv'
<1> USE DEF IInv
<1>1. PICK v \in Vars : var[t] = v
  BY DEF LockInv, Store
<1>2. /\ pc[t] = "store"
      /\ CanWrite(v)
      /\ m_val' = [m_val EXCEPT ![v] = val[t]]
      /\ pc' = [pc EXCEPT ![t] = "idle"]
      /\ UNCHANGED <<m_cbs, readers, writer, var, val, old, keys, it, cb, tmp, s_fun_id,
                     heard, raced, handle, home>>
  BY <1>1 DEF Store, Goto, lock, set, add
<1> USE <1>1, <1>2
<1>3. TypeOK'
  BY DEF TypeOK, PC
<1>4. ASSUME NEW u \in Threads PROVE LockInv(u)'
  BY DEF LockInv, TypeOK
<1>5. ExclusionInv' /\ HomeInv'
  BY DEF ExclusionInv, HomeInv
<1>6. pc'[t] = "idle" /\ \A u \in Threads : u # t => pc'[u] = pc[u]
  BY DEF TypeOK
<1>7. \A w \in Vars : w # v => m_val'[w] = m_val[w]
  BY DEF TypeOK
<1>8. IterationStable'
  BY <1>6, <1>7, ReadersKeepWritersOut DEF IterationStable, LockInv
<1>9. ASSUME NEW w \in Vars PROVE HeardInv(w)'
  <2>1. CASE w # v
    BY <1>6, <1>7, <2>1 DEF HeardInv, Announcing, AllHeard
  <2>2. CASE w = v
    <3> SUFFICES ASSUME ~raced[v] PROVE HeardInv(v)'
      BY <2>2 DEF HeardInv
    <3>1. AllHeard(v, val[t]) /\ Announcing(t, v)
      BY DEF HeardInv, Announcing
    <3>2. \A u \in Threads : ~Announcing(u, v)'
      BY <1>6, <3>1 DEF HeardInv, Announcing
    <3>3. AllHeard(v, m_val[v])'
      BY <3>1 DEF AllHeard, TypeOK
    <3> QED BY <3>2, <3>3 DEF HeardInv, Announcing
  <2> QED BY <2>1, <2>2
<1> QED BY <1>3, <1>4, <1>5, <1>8, <1>9

-----------------------------------------------------------------------------
(* The listeners *)

\* A step that changes neither values nor maps nor what was heard, of a thread
\* that announces nothing before or after it, keeps what the listeners know.
LEMMA QuietStep ==
  ASSUME IInv, TypeOK', NEW t \in Threads,
         pc[t] \notin {"notify", "store"}, pc'[t] \notin {"notify", "store"},
         \A u \in Threads : u # t => pc'[u] = pc[u] /\ var'[u] = var[u],
         UNCHANGED <<m_val, m_cbs, val, old, keys, it, heard, raced>>
  PROVE  IterationStable' /\ \A v \in Vars : HeardInv(v)'
<1>1. IterationStable'
  BY DEF IInv, IterationStable
<1>2. ASSUME NEW v \in Vars PROVE HeardInv(v)'
  <2>1. \A u \in Threads : Announcing(u, v)' <=> Announcing(u, v)
    BY DEF Announcing
  <2>2. HeardInv(v)
    BY DEF IInv
  <2> QED BY <2>1, <2>2 DEF HeardInv, AllHeard
<1> QED BY <1>1, <1>2

\* addListener takes the WriteLock.
LEMMA AddListenerStep ==
  ASSUME IInv, NEW t \in Threads, NEW v \in Vars, NEW c \in Cbs, AddListener(t, v, c)
  PROVE  IInv'
<1> USE DEF IInv, AddListener, CanWrite, Goto, set
<1>1. TypeOK'
  BY DEF TypeOK, PC
<1>2. ASSUME NEW u \in Threads PROVE LockInv(u)'
  <2>1. CASE u = t
    BY <2>1 DEF LockInv, TypeOK
  <2>2. CASE u # t
    <3>1. pc'[u] = pc[u] /\ var'[u] = var[u] /\ cb'[u] = cb[u]
      BY <2>2 DEF TypeOK
    <3>2. pc[u] \in {"load", "inc", "insert", "return"} => var[u] # v /\ cb[u] # c
      BY ConfigVarAssumption DEF LockInv, Threads
    <3> QED BY <3>1, <3>2 DEF LockInv, TypeOK
  <2> QED BY <2>1, <2>2
<1>3. ExclusionInv'
  BY DEF ExclusionInv, TypeOK
<1>4. HomeInv'
  <2>1. \A d \in Cbs : home'[d] = IF d = c THEN v ELSE home[d]
    BY DEF TypeOK
  <2>2. \A w \in Vars : \A k \in DOMAIN m_cbs[w] : m_cbs[w][k] \in Cbs \ {c}
    BY ConfigVarAssumption DEF HomeInv, TypeOK
  <2> QED BY <2>1, <2>2 DEF HomeInv
<1>5. IterationStable' /\ \A w \in Vars : HeardInv(w)'
  BY <1>1, QuietStep DEF TypeOK
<1> QED BY <1>1, <1>2, <1>3, <1>4, <1>5

\* The counter is loaded and stored under the WriteLock of one variable.
LEMMA CounterStep ==
  ASSUME IInv, NEW t \in Threads, LoadId(t) \/ StoreId(t)
  PROVE  IInv'
<1> USE DEF IInv, LoadId, StoreId, Goto, lock, set
<1>1. TypeOK'
  BY DEF TypeOK, PC
<1>2. ASSUME NEW u \in Threads PROVE LockInv(u)'
  BY DEF LockInv, TypeOK
<1>3. ExclusionInv' /\ HomeInv'
  BY DEF ExclusionInv, HomeInv
<1>4. IterationStable' /\ \A w \in Vars : HeardInv(w)'
  BY <1>1, QuietStep DEF TypeOK
<1> QED BY <1>1, <1>2, <1>3, <1>4

\* The new listener knows the value of the variable, which is the announced one
\* unless a change is under way, and then the variable has raced.
LEMMA InsertStep ==
  ASSUME IInv, NEW t \in Threads, Insert(t)
  PROVE  IInv'
<1> USE DEF IInv
<1>1. PICK v \in Vars, c \in Cbs : var[t] = v /\ cb[t] = c
  BY DEF LockInv, Insert
<1>2. /\ pc[t] = "insert"
      /\ m_cbs' = [m_cbs EXCEPT ![v] = [k \in DOMAIN m_cbs[v] \cup {s_fun_id} |->
                                          IF k = s_fun_id THEN c ELSE m_cbs[v][k]]]
      /\ heard' = [heard EXCEPT ![c] = m_val[v]]
      /\ Race(v, Changing(t, v))
      /\ pc' = [pc EXCEPT ![t] = "return"]
      /\ UNCHANGED <<m_val, readers, writer, var, val, old, keys, it, cb, tmp, s_fun_id,
                     handle, home>>
  BY <1>1, Zenon DEF Insert, Goto, lock, set, add
<1> USE <1>1, <1>2
<1>3. writer[v] = t /\ home[c] = v /\ s_fun_id \in Nat \ {0}
  BY DEF LockInv, TypeOK
<1>4. /\ m_cbs'[v] = [k \in DOMAIN m_cbs[v] \cup {s_fun_id} |->
                         IF k = s_fun_id THEN c ELSE m_cbs[v][k]]
      /\ \A w \in Vars : w # v => m_cbs'[w] = m_cbs[w]
  BY DEF TypeOK
<1>5. /\ DOMAIN m_cbs'[v] = DOMAIN m_cbs[v] \cup {s_fun_id}
      /\ \A k \in DOMAIN m_cbs'[v] :
           m_cbs'[v][k] = c \/ (k \in DOMAIN m_cbs[v] /\ m_cbs'[v][k] = m_cbs[v][k])
  BY <1>4
<1>6. TypeOK'
  <2>1. ASSUME NEW w \in Vars
        PROVE  m_cbs'[w] \in [DOMAIN m_cbs'[w] -> Cbs] /\ DOMAIN m_cbs'[w] \subseteq Nat \ {0}
    <3>1. CASE w = v
      BY <1>3, <1>4, <3>1 DEF TypeOK
    <3>2. CASE w # v
      BY <1>4, <3>2 DEF TypeOK
    <3> QED BY <3>1, <3>2
  <2>2. raced' \in [Vars -> BOOLEAN] /\ heard' \in [Cbs -> Vals] /\ pc' \in [Threads -> PC]
    BY DEF TypeOK, Race, PC
  <2> QED BY <2>1, <2>2 DEF TypeOK
<1>7. pc'[t] = "return" /\ \A u \in Threads : u # t => pc'[u] = pc[u]
  BY DEF TypeOK
<1>8. ASSUME NEW u \in Threads PROVE LockInv(u)'
  BY <1>3, <1>7 DEF LockInv
<1>9. ExclusionInv'
  BY DEF ExclusionInv
<1>10. HomeInv'
  BY <1>3, <1>4, <1>5 DEF HomeInv
<1>11. ASSUME NEW u \in Threads, pc[u] = "notify" PROVE var[u] # v
  BY <1>3, <1>11, ConfigVarAssumption DEF LockInv, ExclusionInv, Threads
<1>12. IterationStable'
  BY <1>4, <1>7, <1>11 DEF IterationStable, LockInv
<1>13. ASSUME NEW w \in Vars, w # v PROVE HeardInv(w)'
  <2>1. \A k \in DOMAIN m_cbs[w] : heard'[m_cbs[w][k]] = heard[m_cbs[w][k]]
    BY <1>3, <1>13 DEF HomeInv, TypeOK
  <2>2. raced'[w] = raced[w]
    BY <1>13 DEF Race, TypeOK
  <2> QED BY <1>4, <1>7, <1>13, <2>1, <2>2 DEF HeardInv, Announcing, AllHeard
<1>14. HeardInv(v)'
  <2> SUFFICES ASSUME ~raced'[v] PROVE HeardInv(v)'
    BY DEF HeardInv
  <2>1. ~raced[v] /\ ~Changing(t, v)
    BY DEF Race, TypeOK
  <2>2. \A u \in Threads : ~Announcing(u, v) /\ ~Announcing(u, v)'
    BY <1>7, <2>1 DEF Changing, Announcing
  <2>3. AllHeard(v, m_val[v])
    BY <2>1, <2>2 DEF HeardInv
  <2>4. AllHeard(v, m_val[v])'
    BY <1>5, <2>3 DEF AllHeard, TypeOK
  <2> QED BY <2>2, <2>4 DEF HeardInv, Announcing
<1> QED BY <1>6, <1>8, <1>9, <1>10, <1>12, <1>13, <1>14

\* addListener returns and gives the WriteLock back.
LEMMA ReturnStep ==
  ASSUME IInv, NEW t \in Threads, Return(t)
  PROVE  IInv'
<1> USE DEF IInv, Return, Goto, set, add
<1>1. var[t] \in Vars /\ writer[var[t]] = t /\ cb[t] \in Cbs
  BY DEF LockInv
<1>2. TypeOK'
  BY <1>1 DEF TypeOK, PC
<1>3. ASSUME NEW u \in Threads PROVE LockInv(u)'
  BY <1>1 DEF LockInv, TypeOK
<1>4. ExclusionInv'
  BY <1>1 DEF ExclusionInv, TypeOK
<1>5. HomeInv'
  <2>1. \A c \in Cbs : c # cb[t] => handle'[c] = handle[c]
    BY DEF TypeOK
  <2>2. home[cb[t]] \in Vars
    BY <1>1 DEF LockInv
  <2> QED BY <1>1, <2>1, <2>2 DEF HomeInv
<1>6. IterationStable' /\ \A w \in Vars : HeardInv(w)'
  BY <1>2, QuietStep DEF TypeOK
<1> QED BY <1>2, <1>3, <1>4, <1>5, <1>6

\* delListener and clearListener leave a part of the map, while nobody reads.
LEMMA RemoveStep ==
  ASSUME IInv, NEW v \in Vars, CanWrite(v), handle' \in [Cbs -> Nat],
         \A c \in Cbs : handle'[c] \in {0, handle[c]},
         NEW S, S \subseteq DOMAIN m_cbs[v],
         m_cbs' = [m_cbs EXCEPT ![v] = [k \in S |-> m_cbs[v][k]]],
         UNCHANGED <<m_val, lock, pc, var, set, add, heard, raced, home>>
  PROVE  IInv'
<1> USE DEF IInv, lock, set, add
<1>1. /\ m_cbs'[v] = [k \in S |-> m_cbs[v][k]]
      /\ \A w \in Vars : w # v => m_cbs'[w] = m_cbs[w]
  BY DEF TypeOK
<1>2. DOMAIN m_cbs'[v] = S /\ \A k \in S : m_cbs'[v][k] = m_cbs[v][k]
  BY <1>1
<1>3. TypeOK'
  <2>1. ASSUME NEW w \in Vars
        PROVE  m_cbs'[w] \in [DOMAIN m_cbs'[w] -> Cbs] /\ DOMAIN m_cbs'[w] \subseteq Nat \ {0}
    <3>1. CASE w = v
      BY <1>1, <3>1 DEF TypeOK
    <3>2. CASE w # v
      BY <1>1, <3>2 DEF TypeOK
    <3> QED BY <3>1, <3>2
  <2> QED BY <2>1 DEF TypeOK
<1>4. ASSUME NEW u \in Threads PROVE LockInv(u)'
  BY DEF LockInv
<1>5. ExclusionInv'
  BY DEF ExclusionInv
<1>6. HomeInv'
  BY <1>1, <1>2 DEF HomeInv
<1>7. IterationStable'
  BY <1>1, ReadersKeepWritersOut DEF IterationStable, LockInv
<1>8. ASSUME NEW w \in Vars PROVE HeardInv(w)'
  BY <1>1, <1>2, ReadersKeepWritersOut DEF HeardInv, Announcing, AllHeard
<1> QED BY <1>3, <1>4, <1>5, <1>6, <1>7, <1>8

LEMMA DelListenerStep ==
  ASSUME IInv, NEW t \in Threads, NEW c \in Cbs, DelListener(t, c)
  PROVE  IInv'
<1>1. home[c] \in Vars
  BY DEF DelListener, IInv, HomeInv
<1>2. handle' \in [Cbs -> Nat] /\ \A d \in Cbs : handle'[d] \in {0, handle[d]}
  BY DEF DelListener, IInv, TypeOK
<1> QED BY <1>1, <1>2, RemoveStep DEF DelListener, Restrict

LEMMA ClearListenerStep ==
  ASSUME IInv, NEW t \in Threads, NEW v \in Vars, ClearListener(t, v)
  PROVE  IInv'
<1>1. handle' \in [Cbs -> Nat] /\ \A d \in Cbs : handle'[d] \in {0, handle[d]}
  BY DEF ClearListener, IInv, TypeOK
<1>2. <<>> = [k \in {} |-> m_cbs[v][k]]
  OBVIOUS
<1> QED BY <1>1, <1>2, RemoveStep DEF ClearListener

-----------------------------------------------------------------------------
\* The invariant holds in every reachable state.
THEOREM Invariant == Spec => []IInv
<1>1. IInv /\ [Next]_vars => IInv'
  <2> SUFFICES ASSUME IInv, [Next]_vars PROVE IInv'
    OBVIOUS
  <2>1. ASSUME NEW t \in Setters,
               \/ \E v \in Vars, x \in Vals : SetValue(t, v, x)
               \/ Compare(t) \/ Notify(t) \/ EndNotify(t) \/ Store(t)
        PROVE  IInv'
    BY <2>1, SetValueStep, CompareStep, NotifyStep, EndNotifyStep, StoreStep DEF Threads
  <2>2. ASSUME NEW t \in Listeners,
               \/ \E v \in Vars, c \in Cbs : AddListener(t, v, c)
               \/ LoadId(t) \/ StoreId(t) \/ Insert(t) \/ Return(t)
               \/ \E c \in Cbs : DelListener(t, c)
               \/ \E v \in Vars : ClearListener(t, v)
        PROVE  IInv'
    BY <2>2, AddListenerStep, CounterStep, InsertStep, ReturnStep, DelListenerStep,
       ClearListenerStep DEF Threads
  <2>3. CASE UNCHANGED vars
    BY <2>3 DEF vars, lock, set, add, IInv, TypeOK, LockInv, ExclusionInv, HomeInv,
                IterationStable, HeardInv, Announcing, AllHeard
  <2> QED BY <2>1, <2>2, <2>3 DEF Next
<1> QED BY <1>1, InitInv, PTL DEF Spec

\* Type correctness; 0, which delListener never gets, is the id of no callback.
THEOREM TypeCorrect == Spec => []TypeOK
<1>1. IInv => TypeOK
  BY DEF IInv
<1> QED BY <1>1, Invariant, PTL

\* No store, add, delete or clear gets between the callbacks of a setValue
\* (config.h:443-450).
THEOREM CallbacksSeeStableState == Spec => []IterationStable
<1>1. IInv => IterationStable
  BY DEF IInv
<1> QED BY <1>1, Invariant, PTL

\* A listener does not know the current value only after an overlap of changes, a
\* listener added in the middle of one, or a callback that threw after others
\* were told (config.h:441-454).
THEOREM ListenersAreTold == Spec => []HeardUnlessRaced
<1>1. IInv => HeardUnlessRaced
  <2> SUFFICES ASSUME IInv, NEW v \in Vars, ~raced[v],
                      \A t \in Threads : var[t] = v => pc[t] \notin {"notify", "store"},
                      NEW c \in Range(m_cbs[v])
               PROVE  heard[c] = m_val[v]
    BY DEF HeardUnlessRaced
  <2>1. AllHeard(v, m_val[v])
    BY DEF IInv, HeardInv, Announcing
  <2> QED BY <2>1 DEF AllHeard, Range
<1> QED BY <1>1, Invariant, PTL

-----------------------------------------------------------------------------
(* Ids, when a type has one variable: its mutex then also protects the counter. *)

OneVariable == \A v, w \in Vars : v = w

\* The keys in use are at most the counter, which is a new one between its
\* increment and the insertion, and the callback's own from there to the return.
IdInv ==
  /\ \A v \in Vars : DOMAIN m_cbs[v] \subseteq 1..s_fun_id
  /\ \A t \in Threads :
       /\ pc[t] = "inc" => tmp[t] = s_fun_id
       /\ pc[t] = "insert" => \A v \in Vars : s_fun_id \notin DOMAIN m_cbs[v]
       /\ pc[t] = "return" => /\ s_fun_id \in DOMAIN m_cbs[var[t]]
                              /\ m_cbs[var[t]][s_fun_id] = cb[t]
  /\ IdNamesItsListener

\* The threads inside addListener have the one WriteLock, so there is one.
LEMMA OneAdds ==
  ASSUME IInv, OneVariable, NEW t \in Threads, NEW u \in Threads,
         pc[t] \in {"load", "inc", "insert", "return"},
         pc[u] \in {"load", "inc", "insert", "return"}
  PROVE  t = u
BY DEF IInv, LockInv, OneVariable

\* Nobody is inside addListener while the WriteLock is free.
LEMMA NobodyAdds ==
  ASSUME IInv, OneVariable, NEW v \in Vars, CanWrite(v), NEW t \in Threads
  PROVE  pc[t] \notin {"load", "inc", "insert", "return"}
BY ConfigVarAssumption DEF IInv, LockInv, OneVariable, CanWrite, Threads

\* A part of the map is left, and no handle of what is gone.
LEMMA RemoveIds ==
  ASSUME IInv, IdInv, OneVariable, NEW v \in Vars, CanWrite(v),
         NEW S, S \subseteq DOMAIN m_cbs[v],
         m_cbs' = [m_cbs EXCEPT ![v] = [k \in S |-> m_cbs[v][k]]],
         \A c \in Cbs : handle'[c] # 0 => handle'[c] = handle[c] /\ handle[c] \in S,
         UNCHANGED <<pc, s_fun_id, tmp, home>>
  PROVE  IdInv'
<1>1. DOMAIN m_cbs'[v] = S /\ \A k \in S : m_cbs'[v][k] = m_cbs[v][k]
  BY DEF IInv, TypeOK
<1>2. \A t \in Threads : pc[t] \notin {"load", "inc", "insert", "return"}
  BY NobodyAdds
<1>3. ASSUME NEW w \in Vars PROVE w = v
  BY DEF OneVariable
<1>4. IdNamesItsListener'
  <2> SUFFICES ASSUME NEW c \in Cbs, handle'[c] # 0
               PROVE  handle'[c] \in DOMAIN m_cbs'[home[c]] /\ m_cbs'[home[c]][handle'[c]] = c
    BY DEF IdNamesItsListener
  <2>1. handle'[c] = handle[c] /\ handle[c] \in S /\ home[c] = v
    BY <1>3 DEF IInv, HomeInv
  <2>2. m_cbs[v][handle[c]] = c
    BY <2>1 DEF IdInv, IdNamesItsListener
  <2> QED BY <1>1, <2>1, <2>2
<1>5. \A w \in Vars : DOMAIN m_cbs'[w] \subseteq 1..s_fun_id
  BY <1>1, <1>3 DEF IdInv
<1> QED BY <1>2, <1>4, <1>5 DEF IdInv

\* "the unique id of this callback, used to delete it" (config.h:460): for a type
\* T with one ConfigVar<T>, the id that addListener returned is the key of its
\* callback.  With two variables of one type this is false.
THEOREM IdsNameListeners ==
  ASSUME OneVariable
  PROVE  Spec => []IdNamesItsListener
<1>1. Init => IdInv
  BY DEF Init, IdInv, IdNamesItsListener
<1>2. IInv /\ IdInv /\ [Next]_vars => IdInv'
  <2> SUFFICES ASSUME IInv, IdInv, [Next]_vars PROVE IdInv'
    OBVIOUS
  <2>1. ASSUME NEW t \in Threads,
               \/ \E v \in Vars, x \in Vals : SetValue(t, v, x)
               \/ Compare(t) \/ Notify(t) \/ EndNotify(t) \/ Store(t)
        PROVE  IdInv'
    <3>1. /\ UNCHANGED <<m_cbs, s_fun_id, tmp, cb, handle, home>>
          /\ pc'[t] \notin {"inc", "insert", "return"}
          /\ \A u \in Threads : u # t => pc'[u] = pc[u] /\ var'[u] = var[u]
      BY <2>1 DEF IInv, TypeOK, SetValue, Compare, Notify, EndNotify, Store, Goto, set, add
    <3> QED BY <3>1 DEF IdInv, IdNamesItsListener
  <2>2. ASSUME NEW t \in Threads, NEW v \in Vars, NEW c \in Cbs, AddListener(t, v, c)
        PROVE  IdInv'
    <3>1. /\ UNCHANGED <<m_cbs, s_fun_id, tmp, handle>>
          /\ pc'[t] = "load"
          /\ \A u \in Threads : u # t => pc'[u] = pc[u] /\ var'[u] = var[u] /\ cb'[u] = cb[u]
          /\ \A d \in Cbs : handle[d] # 0 => home'[d] = home[d]
      BY <2>2, ConfigVarAssumption DEF IInv, TypeOK, HomeInv, AddListener, Goto, set
    <3> QED BY <3>1 DEF IdInv, IdNamesItsListener
  <2>3. ASSUME NEW t \in Threads, LoadId(t) PROVE IdInv'
    <3>1. /\ UNCHANGED <<m_cbs, s_fun_id, cb, var, handle, home>>
          /\ pc'[t] = "inc" /\ tmp'[t] = s_fun_id
          /\ \A u \in Threads : u # t => pc'[u] = pc[u] /\ tmp'[u] = tmp[u]
      BY <2>3 DEF IInv, TypeOK, LoadId, Goto, lock, set
    <3> QED BY <3>1 DEF IdInv, IdNamesItsListener
  <2>4. ASSUME NEW t \in Threads, StoreId(t) PROVE IdInv'
    <3>1. /\ UNCHANGED <<m_cbs, cb, var, tmp, handle, home>>
          /\ pc[t] = "inc" /\ pc'[t] = "insert" /\ s_fun_id' = s_fun_id + 1
          /\ \A u \in Threads : u # t => pc'[u] = pc[u]
      BY <2>4 DEF IInv, TypeOK, IdInv, StoreId, Goto, lock, set
    <3>2. \A u \in Threads : u # t => pc'[u] \notin {"inc", "insert", "return"}
      BY <3>1, OneAdds
    <3>3. \A v \in Vars : DOMAIN m_cbs'[v] \subseteq 1..s_fun_id' /\ s_fun_id' \notin DOMAIN m_cbs'[v]
      BY <3>1 DEF IdInv, IInv, TypeOK
    <3> QED BY <3>1, <3>2, <3>3 DEF IdInv, IdNamesItsListener
  <2>5. ASSUME NEW t \in Threads, Insert(t) PROVE IdInv'
    <3>1. PICK v \in Vars, c \in Cbs : var[t] = v /\ cb[t] = c
      BY <2>5 DEF IInv, LockInv, Insert
    <3>2. /\ pc[t] = "insert"
          /\ m_cbs' = [m_cbs EXCEPT ![v] = [k \in DOMAIN m_cbs[v] \cup {s_fun_id} |->
                                              IF k = s_fun_id THEN c ELSE m_cbs[v][k]]]
          /\ pc' = [pc EXCEPT ![t] = "return"]
          /\ UNCHANGED <<var, cb, tmp, s_fun_id, handle, home>>
      BY <2>5, <3>1, Zenon DEF Insert, Goto, set, add
    <3>3. s_fun_id \in Nat \ {0} /\ s_fun_id \notin DOMAIN m_cbs[v]
      BY <3>2 DEF IInv, LockInv, TypeOK, IdInv
    <3>4. /\ DOMAIN m_cbs'[v] = DOMAIN m_cbs[v] \cup {s_fun_id}
          /\ m_cbs'[v][s_fun_id] = c
          /\ \A k \in DOMAIN m_cbs[v] : m_cbs'[v][k] = m_cbs[v][k]
      BY <3>2, <3>3 DEF IInv, TypeOK
    <3>5. pc'[t] = "return" /\ \A u \in Threads : u # t => pc'[u] \notin {"inc", "insert", "return"}
      BY <3>2, OneAdds DEF IInv, TypeOK
    <3>6. \A w \in Vars : w = v
      BY DEF OneVariable
    <3>7. \A w \in Vars : DOMAIN m_cbs'[w] \subseteq 1..s_fun_id
      BY <3>3, <3>4, <3>6 DEF IdInv
    <3>8. IdNamesItsListener'
      BY <3>2, <3>4, <3>6 DEF IdInv, IdNamesItsListener, IInv, HomeInv
    <3> QED BY <3>1, <3>2, <3>4, <3>5, <3>7, <3>8 DEF IdInv
  <2>6. ASSUME NEW t \in Threads, Return(t) PROVE IdInv'
    <3>1. /\ UNCHANGED <<m_cbs, s_fun_id, cb, var, tmp, home>>
          /\ pc[t] = "return" /\ pc'[t] = "idle"
          /\ handle' = [handle EXCEPT ![cb[t]] = s_fun_id]
          /\ \A u \in Threads : u # t => pc'[u] = pc[u]
      BY <2>6 DEF IInv, TypeOK, Return, Goto, set, add
    <3>2. home[cb[t]] = var[t]
      BY <3>1 DEF IInv, LockInv
    <3>3. IdNamesItsListener'
      BY <3>1, <3>2 DEF IdInv, IdNamesItsListener, IInv, TypeOK
    <3> QED BY <3>1, <3>3 DEF IdInv
  <2>7. ASSUME NEW t \in Threads, NEW c \in Cbs, DelListener(t, c) PROVE IdInv'
    <3>1. home[c] \in Vars
      BY <2>7 DEF DelListener, IInv, HomeInv
    <3>2. ASSUME NEW d \in Cbs, handle'[d] # 0
          PROVE  handle'[d] = handle[d] /\ handle[d] \in DOMAIN m_cbs[home[c]] \ {handle[c]}
      <4>1. d # c /\ handle'[d] = handle[d] /\ handle[c] # 0
        BY <2>7, <3>2 DEF DelListener, IInv, TypeOK
      <4>2. home[d] = home[c]
        BY <3>1, <3>2, <4>1 DEF OneVariable, IInv, HomeInv
      <4> QED BY <3>2, <4>1, <4>2 DEF IdInv, IdNamesItsListener
    <3> QED BY <2>7, <3>1, <3>2, RemoveIds DEF DelListener, Restrict, add
  <2>8. ASSUME NEW t \in Threads, NEW v \in Vars, ClearListener(t, v) PROVE IdInv'
    <3>1. \A d \in Cbs : handle'[d] = 0
      BY <2>8 DEF ClearListener, OneVariable, IInv, HomeInv
    <3>2. <<>> = [k \in {} |-> m_cbs[v][k]]
      OBVIOUS
    <3> QED BY <2>8, <3>1, <3>2, RemoveIds DEF ClearListener, add
  <2>9. CASE UNCHANGED vars
    BY <2>9 DEF vars, lock, set, add, IdInv, IdNamesItsListener
  <2> QED BY <2>1, <2>2, <2>3, <2>4, <2>5, <2>6, <2>7, <2>8, <2>9 DEF Next, Threads
<1>3. IdInv => IdNamesItsListener
  BY DEF IdInv
<1> QED BY <1>1, <1>2, <1>3, Invariant, PTL DEF Spec
=============================================================================
