------------------------------- MODULE Config -------------------------------
(***************************************************************************)
(* The registry of configuration variables, src/src/config.h and           *)
(* config.cpp, composed with the locks of its variables: Lookup, which     *)
(* finds or creates a variable under the registry's WriteLock, the two     *)
(* read-only lookups, Visit, and LoadFromYaml, which lists the nodes of a  *)
(* document, looks each of them up and calls fromString.                   *)
(*                                                                         *)
(* The code calls back with locks held: Visit under the registry's         *)
(* ReadLock, setValue under the variable's.  What the callbacks do is the  *)
(* program's: a Visit callback reads the variable, a change callback looks *)
(* others up, and the program follows one of two disciplines.  Under       *)
(* "create" its change callbacks also create variables, under "listen" its *)
(* Visit callbacks also add listeners.                                     *)
(*                                                                         *)
(* A name is the sequence of the keys that "." joins.  Keys are what the   *)
(* code tells apart: ordinary ones, one with the digit 9, one with a       *)
(* capital.  A document is the sequence of its nodes, parents before their *)
(* members, each with the text that fromString gets.                       *)
(***************************************************************************)
EXTENDS Naturals, Sequences, FiniteSetsExt

CONSTANTS
  Threads,    \* the threads that call Lookup and Visit
  Loaders,    \* the threads that call LoadFromYaml
  Names,      \* the names that are looked up
  Types,      \* the types T of ConfigVar<T>
  Default,    \* default_value
  Documents,  \* the documents that are loaded
  NULL        \* nothing

Nine == "key with 9"
Capital == "Key"

Callers == Threads \cup Loaders

ASSUME ConfigAssumption ==
  /\ NULL \notin Callers
  /\ Threads \cap Loaders = {}
  /\ \A d \in Documents : DOMAIN d = 1..Len(d) /\ Len(d) \in Nat

VARIABLES
  discipline,       \* what the program's callbacks do
  s_datas,          \* the map: a function from the registered names to objects
  objects,          \* every ConfigVar created: its name, its type, its value
  held,             \* the locks held: <<caller, lock, mode>>
  pc, name, type,   \* where a caller is, and the arguments of its Lookup
  got,              \* the pointers that lookups returned, with their types
  seen, start,      \* Visit: the names called back, and those there at its beginning
  doc, nodes,       \* LoadFromYaml: the document, the positions in it of the nodes left
  var,              \* the variable a caller has in hand
  known             \* the names registered when LoadFromYaml was called

lookup == <<name, type, got>>
visit  == <<seen, start>>
load   == <<doc, nodes, known>>
vars   == <<discipline, s_datas, objects, held, pc, lookup, visit, load, var>>

Init ==
  /\ discipline \in {"create", "listen"}
  /\ s_datas = <<>>
  /\ objects = <<>>
  /\ held = {}
  /\ pc = [t \in Callers |-> "idle"]
  /\ name = [t \in Callers |-> <<>>]
  /\ type = [t \in Callers |-> NULL]
  /\ got = {}
  /\ seen = [t \in Threads |-> {}]
  /\ start = [t \in Threads |-> {}]
  /\ doc = [l \in Loaders |-> <<>>]
  /\ nodes = [l \in Loaders |-> {}]
  /\ var = [t \in Callers |-> NULL]
  /\ known = [l \in Loaders |-> {}]

Registered == DOMAIN s_datas
Goto(t, label) == pc' = [pc EXCEPT ![t] = label]
Has(n, k) == \E i \in DOMAIN n : n[i] = k

\* The characters that Lookup accepts.
ValidName(n) == ~Has(n, Capital)

-----------------------------------------------------------------------------
(* The locks: the registry's is 0, that of objects[o] is o.  They are      *)
(* RWMutexes with glibc's default kind: a writer that waits stops no       *)
(* reader.                                                                 *)

Registry == 0

\* Mutants of CanWrite: a writer enters beside readers; it does not wait at all.
CanWriteReaders(k) == ~\E t \in Callers : <<t, k, "W">> \in held
CanWriteAlways(k)  == TRUE

CanRead(k)  == ~\E t \in Callers : <<t, k, "W">> \in held
CanWrite(k) == ~\E t \in Callers, mode \in {"R", "W"} : <<t, k, mode>> \in held

-----------------------------------------------------------------------------
(* Lookup<T>(name, default_value, description) *)

\* Lookup returns or throws: its lock and its arguments are gone.
Return(t) ==
  /\ held' = held \ {<<t, Registry, "W">>}
  /\ name' = [name EXCEPT ![t] = <<>>]
  /\ type' = [type EXCEPT ![t] = NULL]
  /\ Goto(t, IF t \in Threads THEN "idle" ELSE "callback")

\* Mutant of Cast: the type is not tested.
CastUnchecked(o, ty) == {[object |-> o, type |-> ty]}

\* dynamic_pointer_cast: nothing for an object of another type
Cast(o, ty) == IF objects[o].type = ty THEN {[object |-> o, type |-> ty]} ELSE {}

\* WriteLock lock(GetMutex()) and find, called by the program or by a change
\* callback.  A name that is there with this type is returned, an invalid one
\* throws; otherwise the lock is kept.
Lookup(t, n, ty) ==
  /\ pc[t] = IF t \in Threads THEN "idle" ELSE "creating"
  /\ CanWrite(Registry)
  /\ \/ /\ n \in Registered
        /\ Cast(s_datas[n], ty) # {}
        /\ got' = got \cup Cast(s_datas[n], ty)
        /\ Return(t)
     \/ /\ n \notin Registered
        /\ ~ValidName(n)
        /\ Return(t)
        /\ UNCHANGED got
     \/ /\ IF n \in Registered
           THEN Cast(s_datas[n], ty) = {} /\ Goto(t, "mismatch")
           ELSE ValidName(n) /\ Goto(t, "create")
        /\ held' = held \cup {<<t, Registry, "W">>}
        /\ name' = [name EXCEPT ![t] = n]
        /\ type' = [type EXCEPT ![t] = ty]
        /\ UNCHANGED got
  /\ UNCHANGED <<discipline, s_datas, objects, visit, load, var>>

\* With another type the error message has the variable's toString, which takes
\* its ReadLock under the registry's WriteLock; then nullptr is returned.
LookupMismatch(t) ==
  /\ pc[t] = "mismatch"
  /\ CanRead(s_datas[name[t]])
  /\ Return(t)
  /\ UNCHANGED <<discipline, s_datas, objects, got, visit, load, var>>

\* GetDatas()[name] = v
LookupCreate(t) ==
  LET n == name[t]  o == Len(objects) + 1 IN
  /\ pc[t] = "create"
  /\ objects' = Append(objects, [name |-> n, type |-> type[t], val |-> Default])
  /\ s_datas' = [m \in Registered \cup {n} |-> IF m = n THEN o ELSE s_datas[m]]
  /\ got' = got \cup {[object |-> o, type |-> type[t]]}
  /\ Return(t)
  /\ UNCHANGED <<discipline, visit, load, var>>

\* Lookup<T>(name), under a ReadLock: called by the program, or by a change callback
Find(t, n, ty) ==
  /\ pc[t] = IF t \in Threads THEN "idle" ELSE "finding"
  /\ CanRead(Registry)
  /\ got' = IF n \in Registered THEN got \cup Cast(s_datas[n], ty) ELSE got
  /\ Goto(t, IF t \in Threads THEN "idle" ELSE "callback")
  /\ UNCHANGED <<discipline, s_datas, objects, held, name, type, visit, load, var>>

-----------------------------------------------------------------------------
(* Visit *)

\* ReadLock lock(GetMutex())
Visit(t) ==
  /\ pc[t] = "idle"
  /\ CanRead(Registry)
  /\ held' = held \cup {<<t, Registry, "R">>}
  /\ start' = [start EXCEPT ![t] = Registered]
  /\ Goto(t, "visit")
  /\ UNCHANGED <<discipline, s_datas, objects, lookup, seen, load, var>>

\* cb(it->second): the callback asks for the variable's ReadLock (toString) or,
\* under "listen", for its WriteLock (addListener)
VisitCall(t) ==
  LET n == CHOOSE m \in Registered \ seen[t] : TRUE IN  \* the map's next
  /\ pc[t] = "visit"
  /\ seen[t] # Registered
  /\ seen' = [seen EXCEPT ![t] = @ \cup {n}]
  /\ var' = [var EXCEPT ![t] = s_datas[n]]
  /\ Goto(t, IF discipline = "listen" THEN "addListener" ELSE "toString")
  /\ UNCHANGED <<discipline, s_datas, objects, held, lookup, start, load>>

\* The callback gets its lock, lets it go and returns.
VisitReturn(t) ==
  /\ \/ pc[t] = "toString" /\ CanRead(var[t])
     \/ pc[t] = "addListener" /\ CanWrite(var[t])
  /\ var' = [var EXCEPT ![t] = NULL]
  /\ Goto(t, "visit")
  /\ UNCHANGED <<discipline, s_datas, objects, held, lookup, visit, load>>

EndVisit(t) ==
  /\ pc[t] = "visit"
  /\ seen[t] = Registered
  /\ held' = held \ {<<t, Registry, "R">>}
  /\ seen' = [seen EXCEPT ![t] = {}]
  /\ start' = [start EXCEPT ![t] = {}]
  /\ Goto(t, "idle")
  /\ UNCHANGED <<discipline, s_datas, objects, lookup, load, var>>

-----------------------------------------------------------------------------
(* LoadFromYaml *)

\* Mutant of Listed: members of members are not listed.
ListedAtTop(n) == Len(n) = 1

\* ListAllMember: a node is listed unless its prefix has a character that the
\* function does not know, which is then also in the prefixes of its members.
Listed(n) == ~Has(n, Capital) /\ ~Has(n, Nine)

LoadFromYaml(l, d) ==
  /\ pc[l] \in {"idle", "done"}
  /\ doc' = [doc EXCEPT ![l] = d]
  /\ nodes' = [nodes EXCEPT ![l] = {i \in DOMAIN d : Listed(d[i].name)}]
  /\ known' = [known EXCEPT ![l] = Registered]
  /\ Goto(l, "node")
  /\ UNCHANGED <<discipline, s_datas, objects, held, lookup, visit, var>>

\* The loop over all_nodes is at the first of the nodes left.
First(l) == Min(nodes[l])
Node(l) == doc[l][First(l)]

\* LookupBase(key), under a ReadLock
LookupBase(l) ==
  LET n == Node(l).name IN
  /\ pc[l] = "node"
  /\ nodes[l] # {}
  /\ CanRead(Registry)
  /\ IF n \in Registered
     THEN /\ var' = [var EXCEPT ![l] = s_datas[n]]
          /\ Goto(l, "fromString")
          /\ UNCHANGED nodes
     ELSE /\ nodes' = [nodes EXCEPT ![l] = @ \ {First(l)}]
          /\ UNCHANGED <<var, pc>>
  /\ UNCHANGED <<discipline, s_datas, objects, held, lookup, visit, doc, known>>

\* Whether LexicalCast reads the text as a value of the type; it throws otherwise.
Parses(text, ty) == ty \in text.types

\* fromString is over: the next node.
NextNode(l) ==
  /\ nodes' = [nodes EXCEPT ![l] = @ \ {First(l)}]
  /\ var' = [var EXCEPT ![l] = NULL]
  /\ Goto(l, "node")

\* fromString and the first half of setValue: an exception, or an equal value,
\* leaves the variable as it is; otherwise the callbacks run under its ReadLock.
FromString(l) ==
  LET o == var[l]  text == Node(l).text IN
  /\ pc[l] = "fromString"
  /\ \/ /\ ~Parses(text, objects[o].type)
        /\ NextNode(l)
        /\ UNCHANGED held
     \/ /\ Parses(text, objects[o].type)
        /\ CanRead(o)
        /\ IF objects[o].val = text.val
           THEN NextNode(l) /\ UNCHANGED held
           ELSE /\ held' = held \cup {<<l, o, "R">>}
                /\ Goto(l, "callback")
                /\ UNCHANGED <<nodes, var>>
  /\ UNCHANGED <<discipline, s_datas, objects, lookup, visit, doc, known>>

\* i.second(m_val, v): the callback looks a variable up or, under "create",
\* creates one.
ChangeCallback(l) ==
  /\ pc[l] = "callback"
  /\ \/ Goto(l, "finding")
     \/ discipline = "create" /\ Goto(l, "creating")
  /\ UNCHANGED <<discipline, s_datas, objects, held, lookup, visit, load, var>>

\* Mutant of EndCallbacks: the ReadLock lives to the end of setValue.
EndCallbacksLocked(l) ==
  /\ pc[l] = "callback"
  /\ Goto(l, "store")
  /\ UNCHANGED <<discipline, s_datas, objects, held, lookup, visit, load, var>>

\* The ReadLock leaves its scope.
EndCallbacks(l) ==
  /\ pc[l] = "callback"
  /\ held' = held \ {<<l, var[l], "R">>}
  /\ Goto(l, "store")
  /\ UNCHANGED <<discipline, s_datas, objects, lookup, visit, load, var>>

\* The second half of setValue, under the WriteLock: m_val = v
Store(l) ==
  LET o == var[l] IN
  /\ pc[l] = "store"
  /\ CanWrite(o)
  /\ objects' = [objects EXCEPT ![o].val = Node(l).text.val]
  /\ NextNode(l)
  /\ UNCHANGED <<discipline, s_datas, held, lookup, visit, doc, known>>

EndLoad(l) ==
  /\ pc[l] = "node"
  /\ nodes[l] = {}
  /\ Goto(l, "done")
  /\ UNCHANGED <<discipline, s_datas, objects, held, lookup, visit, load, var>>

Next ==
  \/ \E t \in Callers :
       \/ \E n \in Names, ty \in Types : Lookup(t, n, ty) \/ Find(t, n, ty)
       \/ LookupMismatch(t) \/ LookupCreate(t)
  \/ \E t \in Threads :
       Visit(t) \/ VisitCall(t) \/ VisitReturn(t) \/ EndVisit(t)
  \/ \E l \in Loaders :
       \/ \E d \in Documents : LoadFromYaml(l, d)
       \/ LookupBase(l) \/ FromString(l) \/ ChangeCallback(l) \/ EndCallbacks(l)
       \/ Store(l) \/ EndLoad(l)

Spec == Init /\ [][Next]_vars

-----------------------------------------------------------------------------
(* Properties *)

Values == {Default} \cup UNION {{d[i].text.val : i \in DOMAIN d} : d \in Documents}
Object == [name : Names, type : Types, val : Values]

\* Type invariant; a pointer that Lookup returned has the type it was asked for.
TypeOK ==
  /\ discipline \in {"create", "listen"}
  /\ objects \in Seq(Object)
  /\ Registered \subseteq Names
  /\ s_datas \in [Registered -> DOMAIN objects]
  /\ held \subseteq Callers \X ({Registry} \cup DOMAIN objects) \X {"R", "W"}
  /\ pc \in [Callers -> {"idle", "mismatch", "create", "visit", "toString",
                         "addListener", "node", "fromString", "callback", "finding",
                         "creating", "store", "done"}]
  /\ name \in [Callers -> Names \cup {<<>>}]
  /\ type \in [Callers -> Types \cup {NULL}]
  /\ \A p \in got : p.object \in DOMAIN objects /\ objects[p.object].type = p.type
  /\ seen \in [Threads -> SUBSET Names]
  /\ start \in [Threads -> SUBSET Names]
  /\ doc \in [Loaders -> Documents \cup {<<>>}]
  /\ nodes \in [Loaders -> SUBSET Nat]
  /\ \A l \in Loaders : nodes[l] \subseteq DOMAIN doc[l]
  /\ var \in [Callers -> DOMAIN objects \cup {NULL}]
  /\ known \in [Loaders -> SUBSET Registered]

\* "if it exists return it, otherwise create it" (config.h:526): a pointer that a
\* lookup returned is the variable of its name for ever, so two threads that look
\* up a name at once share one variable, and what a load sets is what they see.
OneVariablePerName ==
  \A p \in got : s_datas[objects[p.object].name] = p.object

\* "visit all configuration variables" (config.h:595): nothing is registered
\* while Visit runs, callbacks included, so what it calls back for is what was
\* there when it began.
VisitIsASnapshot ==
  \A t \in Threads : pc[t] \in {"visit", "toString", "addListener"} => Registered = start[t]

\* "initialise the configuration from a YAML node" (config.h:585): after a load,
\* every variable that was registered before it and that the document has a
\* readable value for has that value, except one with a 9 in its name, which
\* Lookup accepts and ListAllMember does not (config.h:558, config.cpp:26).
LoadReachesAll ==
  \A l \in Loaders : pc[l] = "done" =>
    \A i \in DOMAIN doc[l] :
      LET node == doc[l][i] IN
      node.name \in known[l] /\ ~Has(node.name, Nine) /\ Parses(node.text, objects[s_datas[node.name]].type)
        => objects[s_datas[node.name]].val = node.text.val

\* The lock that a caller with locks of its own waits for, in a mode.
Wants(t, k, mode) ==
  \/ pc[t] = "mismatch" /\ k = s_datas[name[t]] /\ mode = "R"
  \/ pc[t] = "toString" /\ k = var[t] /\ mode = "R"
  \/ pc[t] = "addListener" /\ k = var[t] /\ mode = "W"
  \/ pc[t] = "finding" /\ k = Registry /\ mode = "R"
  \/ pc[t] = "creating" /\ k = Registry /\ mode = "W"
  \/ pc[t] = "store" /\ k = var[t] /\ mode = "W"

BlockedBy(t, u) ==
  \E k \in {Registry} \cup DOMAIN objects, mode \in {"R", "W"} :
    <<u, k, mode>> \in held /\ (Wants(t, k, "W") \/ (mode = "W" /\ Wants(t, k, "R")))

\* Callbacks that run under a lock (config.cpp:79, config.h:449) and take the
\* other one never close a cycle: under either discipline no callers, nor one
\* alone, wait for each other's locks for ever.
NoCircularWait ==
  ~\E D \in SUBSET Callers : D # {} /\ \A t \in D : \E u \in D : BlockedBy(t, u)
=============================================================================
