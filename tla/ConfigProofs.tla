---------------------------- MODULE ConfigProofs ----------------------------
(***************************************************************************)
(* Proofs about Config, for any number of threads, names, types and        *)
(* documents: a name has one variable for ever, Visit calls back for a     *)
(* registry that stands still, callers never wait in a circle under either *)
(* discipline, and one loader reaches every variable of its document.      *)
(***************************************************************************)
EXTENDS Config, WellFoundedInduction, TLAPS

Visiting == {"visit", "toString", "addListener"}
Looking == {"mismatch", "create"}

\* The places of a loader inside setValue's ReadLock, and inside fromString.
Announcing == {"callback", "finding", "creating"} \cup Looking
Setting == {"fromString", "store"} \cup Announcing

Role(t) ==
  /\ t \in Threads => pc[t] \in {"idle"} \cup Looking \cup Visiting
  /\ t \in Loaders => pc[t] \in {"idle", "node", "done"} \cup Setting

\* Inside Lookup the caller has the registry's WriteLock, and what it found when
\* it took the lock still holds.
LookupInv(t) ==
  pc[t] \in Looking =>
    /\ <<t, Registry, "W">> \in held
    /\ name[t] \in Names
    /\ type[t] \in Types
    /\ pc[t] = "mismatch" => name[t] \in Registered
    /\ pc[t] = "create" => name[t] \notin Registered /\ ValidName(name[t])

\* Inside Visit the thread has the registry's ReadLock.
VisitInv(t) ==
  /\ pc[t] \notin Visiting => seen[t] = {}
  /\ pc[t] \in Visiting =>
       /\ <<t, Registry, "R">> \in held
       /\ start[t] = Registered
       /\ seen[t] \subseteq Registered
       /\ pc[t] # "visit" => var[t] \in DOMAIN objects
       /\ pc[t] = "addListener" => discipline = "listen"

\* Inside fromString the loader has the variable of the node it is at and, while
\* callbacks run, that variable's ReadLock.
SetInv(l) ==
  /\ pc[l] \in Setting =>
       /\ nodes[l] # {}
       /\ var[l] \in DOMAIN objects
       /\ objects[var[l]].name = Node(l).name
  /\ pc[l] \in Announcing => <<l, var[l], "R">> \in held
  /\ pc[l] \in {"creating"} \cup Looking => discipline = "create"

\* Nobody has a lock but for these reasons.
HeldInv ==
  \A t \in Callers, k \in {Registry} \cup DOMAIN objects, mode \in {"R", "W"} :
    <<t, k, mode>> \in held =>
      \/ k = Registry /\ mode = "W" /\ pc[t] \in Looking
      \/ k = Registry /\ mode = "R" /\ t \in Threads /\ pc[t] \in Visiting
      \/ k = var[t] /\ k # Registry /\ mode = "R" /\ t \in Loaders /\ pc[t] \in Announcing

\* The registry's WriteLock excludes every other lock on it.
ExclusionInv ==
  \A t, u \in Callers : \A mode \in {"R", "W"} :
    <<t, Registry, "W">> \in held /\ <<u, Registry, mode>> \in held => t = u

\* Names and objects are in one-to-one correspondence, and the names are valid.
RegistryInv ==
  /\ \A n \in Registered : objects[s_datas[n]].name = n /\ ValidName(n)
  /\ \A o \in DOMAIN objects : objects[o].name \in Registered /\ s_datas[objects[o].name] = o

IInv ==
  /\ TypeOK
  /\ \A t \in Callers : Role(t) /\ LookupInv(t)
  /\ \A t \in Threads : VisitInv(t)
  /\ \A l \in Loaders : SetInv(l)
  /\ HeldInv
  /\ ExclusionInv
  /\ RegistryInv

-----------------------------------------------------------------------------
(* A load by itself *)

\* The node at position i has reached its variable.
Reached(l, i) ==
  LET node == doc[l][i] IN
  node.name \in known[l] /\ ~Has(node.name, Nine) /\ Parses(node.text, objects[s_datas[node.name]].type)
    => objects[s_datas[node.name]].val = node.text.val

\* Every node that is behind the loop of LoadFromYaml has reached its variable.
LoadInv(l) ==
  /\ \A i \in DOMAIN doc[l] \ nodes[l] : Reached(l, i)
  /\ pc[l] = "done" => nodes[l] = {}

LInv == IInv /\ \A l \in Loaders : LoadInv(l)

-----------------------------------------------------------------------------
(* Facts about the operators of the model *)

LessThan == {ss \in Nat \X Nat : ss[1] < ss[2]}

\* Every set of naturals that is not empty has a least element.
LEMMA LeastElement ==
  ASSUME NEW T, T \subseteq Nat, T # {}
  PROVE  \E x \in T : \A y \in T : x <= y
<1>1. IsWellFoundedOn(LessThan, Nat)
  BY NatLessThanWellFounded DEF OpToRel, LessThan
<1>2. PICK x \in T : \A y \in T : ~(<<y, x>> \in LessThan)
  BY <1>1, WFMin, Zenon
<1>3. ASSUME NEW y \in T PROVE x <= y
  <2>1. <<y, x>> \in LessThan <=> y < x
    BY DEF LessThan
  <2> QED BY <1>2, <2>1
<1> QED BY <1>3

\* No variable's lock is the registry's.
LEMMA ObjectsHaveOtherLocks ==
  ASSUME TypeOK
  PROVE  Registry \notin DOMAIN objects
BY DEF TypeOK, Registry

\* A step of one caller that takes no lock and keeps the reasons for those it has.
LEMMA HeldKept ==
  ASSUME HeldInv, UNCHANGED held, DOMAIN objects' = DOMAIN objects, NEW t,
         \A u \in Callers \ {t} : pc'[u] = pc[u] /\ var'[u] = var[u],
         pc[t] \in Looking => pc'[t] \in Looking,
         pc[t] \in Visiting /\ t \in Threads => pc'[t] \in Visiting,
         pc[t] \in Announcing /\ t \in Loaders => pc'[t] \in Announcing /\ var'[t] = var[t]
  PROVE  HeldInv'
<1> SUFFICES ASSUME NEW u \in Callers, NEW k \in {Registry} \cup DOMAIN objects,
                    NEW mode \in {"R", "W"}, <<u, k, mode>> \in held
             PROVE  \/ k = Registry /\ mode = "W" /\ pc'[u] \in Looking
                    \/ k = Registry /\ mode = "R" /\ u \in Threads /\ pc'[u] \in Visiting
                    \/ /\ k = var'[u] /\ k # Registry /\ mode = "R"
                       /\ u \in Loaders /\ pc'[u] \in Announcing
  BY DEF HeldInv
<1>1. \/ k = Registry /\ mode = "W" /\ pc[u] \in Looking
      \/ k = Registry /\ mode = "R" /\ u \in Threads /\ pc[u] \in Visiting
      \/ k = var[u] /\ k # Registry /\ mode = "R" /\ u \in Loaders /\ pc[u] \in Announcing
  BY DEF HeldInv
<1>2. CASE u = t
  BY <1>1, <1>2
<1>3. CASE u # t
  BY <1>1, <1>3
<1> QED BY <1>2, <1>3

\* A step of one caller that gives its last lock back.
LEMMA HeldGivenBack ==
  ASSUME HeldInv, UNCHANGED objects, held' \subseteq held, NEW t,
         \A u \in Callers \ {t} : pc'[u] = pc[u] /\ var'[u] = var[u],
         \A k \in {Registry} \cup DOMAIN objects, mode \in {"R", "W"} : <<t, k, mode>> \notin held'
  PROVE  HeldInv'
<1> SUFFICES ASSUME NEW u \in Callers, NEW k \in {Registry} \cup DOMAIN objects,
                    NEW mode \in {"R", "W"}, <<u, k, mode>> \in held'
             PROVE  \/ k = Registry /\ mode = "W" /\ pc'[u] \in Looking
                    \/ k = Registry /\ mode = "R" /\ u \in Threads /\ pc'[u] \in Visiting
                    \/ /\ k = var'[u] /\ k # Registry /\ mode = "R"
                       /\ u \in Loaders /\ pc'[u] \in Announcing
  BY DEF HeldInv
<1>1. u # t /\ <<u, k, mode>> \in held
  OBVIOUS
<1> QED BY <1>1 DEF HeldInv

\* The initial states satisfy the invariant.
LEMMA InitInv ==
  ASSUME Init
  PROVE  LInv
<1> USE ConfigAssumption DEF Init
<1>1. TypeOK
  BY DEF TypeOK, Registered, Callers, Registry
<1>2. \A t \in Callers : Role(t) /\ LookupInv(t)
  BY DEF Role, LookupInv, Looking, Setting, Callers
<1>3. \A t \in Threads : VisitInv(t)
  BY DEF VisitInv, Visiting, Callers
<1>4. \A l \in Loaders : SetInv(l) /\ LoadInv(l)
  BY DEF SetInv, LoadInv, Setting, Announcing, Looking, Callers
<1>5. HeldInv /\ ExclusionInv
  BY DEF HeldInv, ExclusionInv
<1>6. RegistryInv
  BY DEF RegistryInv, Registered
<1> QED BY <1>1, <1>2, <1>3, <1>4, <1>5, <1>6 DEF LInv, IInv

\* Lookup returns at once, with the locks and the registry as they are, or keeps
\* the WriteLock and remembers what it found.
LEMMA LookupStep ==
  ASSUME IInv, NEW t \in Callers, NEW n \in Names, NEW ty \in Types, Lookup(t, n, ty)
  PROVE  IInv'
<1> USE ConfigAssumption DEF IInv
<1>1. /\ UNCHANGED <<discipline, s_datas, objects, seen, start, doc, nodes, known, var>>
      /\ pc[t] = IF t \in Threads THEN "idle" ELSE "creating"
  BY DEF Lookup, visit, load
<1>2. <<t, Registry, "W">> \notin held
  BY DEF Lookup, CanWrite
<1>3. Registered' = Registered
  BY <1>1 DEF Registered
<1>4. CASE Return(t) /\ (got' = got \/ (n \in Registered /\ got' = got \cup Cast(s_datas[n], ty)))
  <2>1. /\ held' = held
        /\ name' = [name EXCEPT ![t] = <<>>]
        /\ type' = [type EXCEPT ![t] = NULL]
        /\ pc' = [pc EXCEPT ![t] = IF t \in Threads THEN "idle" ELSE "callback"]
    BY <1>2, <1>4, Zenon DEF Return, Goto
  <2> USE <1>1, <1>3, <2>1
  <2>2. \A p \in got' : p.object \in DOMAIN objects /\ objects[p.object].type = p.type
    BY <1>4 DEF TypeOK, Cast
  <2>3. TypeOK'
    BY <2>2 DEF TypeOK
  <2>4. ASSUME NEW u \in Callers PROVE Role(u)' /\ LookupInv(u)'
    BY DEF Role, LookupInv, Looking, Visiting, Setting, Announcing, TypeOK, ValidName, Callers
  <2>5. ASSUME NEW u \in Threads PROVE VisitInv(u)'
    BY DEF VisitInv, Visiting, TypeOK, Callers
  <2>6. ASSUME NEW l \in Loaders PROVE SetInv(l)'
    BY DEF SetInv, Setting, Announcing, Looking, TypeOK, Callers, Node, First
  <2>7. HeldInv'
    BY DEF HeldInv, Looking, Visiting, Announcing, TypeOK, Callers
  <2>8. ExclusionInv' /\ RegistryInv'
    BY DEF ExclusionInv, RegistryInv, ValidName
  <2> QED BY <2>3, <2>4, <2>5, <2>6, <2>7, <2>8
<1>5. CASE /\ pc' = [pc EXCEPT ![t] = IF n \in Registered THEN "mismatch" ELSE "create"]
           /\ n \notin Registered => ValidName(n)
           /\ held' = held \cup {<<t, Registry, "W">>}
           /\ name' = [name EXCEPT ![t] = n]
           /\ type' = [type EXCEPT ![t] = ty]
           /\ got' = got
  <2> USE <1>1, <1>3, <1>5
  <2>1. TypeOK'
    BY DEF TypeOK
  <2>2. ASSUME NEW u \in Callers PROVE Role(u)' /\ LookupInv(u)'
    BY DEF Role, LookupInv, Looking, Visiting, Setting, Announcing, TypeOK, ValidName, Callers
  <2>3. ASSUME NEW u \in Threads PROVE VisitInv(u)'
    BY DEF VisitInv, Visiting, TypeOK, Callers
  <2>4. ASSUME NEW l \in Loaders PROVE SetInv(l)'
    BY DEF SetInv, Setting, Announcing, Looking, TypeOK, Callers, Node, First
  <2>5. HeldInv'
    BY DEF HeldInv, Looking, Visiting, Announcing, TypeOK, Callers
  <2>6. ExclusionInv' /\ RegistryInv'
    BY DEF ExclusionInv, RegistryInv, ValidName, Lookup, CanWrite
  <2> QED BY <2>1, <2>2, <2>3, <2>4, <2>5, <2>6
<1> QED BY <1>4, <1>5, Zenon DEF Lookup, Goto

\* The mismatch gives the WriteLock back.
LEMMA LookupMismatchStep ==
  ASSUME IInv, NEW t \in Callers, LookupMismatch(t)
  PROVE  IInv'
<1> USE ConfigAssumption DEF IInv
<1>1. /\ UNCHANGED <<discipline, s_datas, objects, got, seen, start, doc, nodes, known, var>>
      /\ pc[t] = "mismatch"
      /\ held' = held \ {<<t, Registry, "W">>}
      /\ name' = [name EXCEPT ![t] = <<>>]
      /\ type' = [type EXCEPT ![t] = NULL]
      /\ pc' = [pc EXCEPT ![t] = IF t \in Threads THEN "idle" ELSE "callback"]
  BY Zenon DEF LookupMismatch, Return, Goto, visit, load
<1> USE <1>1
<1>2. Registered' = Registered
  BY DEF Registered
<1> USE <1>2
<1>3. TypeOK'
  BY DEF TypeOK
<1>4. ASSUME NEW u \in Callers PROVE Role(u)' /\ LookupInv(u)'
  BY DEF Role, LookupInv, Looking, Visiting, Setting, Announcing, TypeOK, ValidName, Callers
<1>5. ASSUME NEW u \in Threads PROVE VisitInv(u)'
  BY DEF VisitInv, Visiting, TypeOK, Callers
<1>6. ASSUME NEW l \in Loaders PROVE SetInv(l)'
  BY DEF SetInv, Setting, Announcing, Looking, TypeOK, Callers, Node, First
<1>7. HeldInv'
  BY DEF HeldInv, Looking, Visiting, Announcing, TypeOK, Callers
<1>8. ExclusionInv' /\ RegistryInv'
  BY DEF ExclusionInv, RegistryInv, ValidName
<1> QED BY <1>3, <1>4, <1>5, <1>6, <1>7, <1>8

\* What LookupCreate does to the registry: one object more, under a new name.
Created(n, ty) ==
  /\ n \in Names \ Registered
  /\ ty \in Types
  /\ ValidName(n)
  /\ Registered' = Registered \cup {n}
  /\ Len(objects) \in Nat
  /\ DOMAIN objects = 1..Len(objects)
  /\ DOMAIN objects' = 1..(Len(objects) + 1)
  /\ \A o \in DOMAIN objects : objects'[o] = objects[o]
  /\ objects'[Len(objects) + 1] = [name |-> n, type |-> ty, val |-> Default]
  /\ \A m \in Registered : s_datas'[m] = s_datas[m]
  /\ s_datas'[n] = Len(objects) + 1

\* LookupCreate has this effect.
LEMMA LookupCreateEffect ==
  ASSUME IInv, NEW t \in Callers, LookupCreate(t)
  PROVE  Created(name[t], type[t]) /\ objects' \in Seq(Object)
<1> USE DEF IInv
<1>1. name[t] \in Names \ Registered /\ type[t] \in Types /\ ValidName(name[t])
  BY DEF LookupCreate, LookupInv, Looking
<1>2. objects \in Seq(Object) /\ Len(objects) \in Nat /\ DOMAIN objects = 1..Len(objects)
  BY DEF TypeOK
<1>3. [name |-> name[t], type |-> type[t], val |-> Default] \in Object
  BY <1>1 DEF Object, Values
<1>4. objects' = Append(objects, [name |-> name[t], type |-> type[t], val |-> Default])
  BY DEF LookupCreate
<1>5. /\ DOMAIN objects' = 1..(Len(objects) + 1)
      /\ objects' \in Seq(Object)
      /\ \A o \in DOMAIN objects : objects'[o] = objects[o]
      /\ objects'[Len(objects) + 1] = [name |-> name[t], type |-> type[t], val |-> Default]
  BY <1>2, <1>3, <1>4
<1>6. /\ Registered' = Registered \cup {name[t]}
      /\ \A n \in Registered : s_datas'[n] = s_datas[n]
      /\ s_datas'[name[t]] = Len(objects) + 1
  BY <1>1 DEF LookupCreate, Registered
<1> QED BY <1>1, <1>2, <1>5, <1>6 DEF Created

\* Only the holder of the WriteLock creates, so nobody visits meanwhile.
LEMMA LookupCreateStep ==
  ASSUME IInv, NEW t \in Callers, LookupCreate(t)
  PROVE  IInv'
<1> USE ConfigAssumption DEF IInv
<1>1. /\ UNCHANGED <<discipline, seen, start, doc, nodes, known, var>>
      /\ pc[t] = "create"
      /\ got' = got \cup {[object |-> Len(objects) + 1, type |-> type[t]]}
      /\ held' = held \ {<<t, Registry, "W">>}
      /\ name' = [name EXCEPT ![t] = <<>>]
      /\ type' = [type EXCEPT ![t] = NULL]
      /\ pc' = [pc EXCEPT ![t] = IF t \in Threads THEN "idle" ELSE "callback"]
  BY Zenon DEF LookupCreate, Return, Goto, visit, load
<1>16. Created(name[t], type[t]) /\ objects' \in Seq(Object)
  BY LookupCreateEffect
<1> USE <1>1, <1>16
<1>2. DOMAIN objects \subseteq DOMAIN objects' /\ Len(objects) + 1 \in DOMAIN objects'
  BY DEF Created
<1> USE DEF Created
<1>3. s_datas' \in [Registered' -> DOMAIN objects']
  <2>1. s_datas' = [m \in Registered' |-> s_datas'[m]]
    BY DEF LookupCreate, Registered
  <2>2. \A m \in Registered' : s_datas'[m] \in DOMAIN objects'
    BY <1>2 DEF TypeOK
  <2> QED BY <2>1, <2>2
<1>4. \A p \in got' : p.object \in DOMAIN objects' /\ objects'[p.object].type = p.type
  BY <1>2 DEF TypeOK
<1>5. held' \subseteq Callers \X ({Registry} \cup DOMAIN objects') \X {"R", "W"}
  BY <1>2 DEF TypeOK
<1>6. var' \in [Callers -> DOMAIN objects' \cup {NULL}]
  BY <1>2 DEF TypeOK
<1>7. TypeOK'
  BY <1>3, <1>4, <1>5, <1>6 DEF TypeOK
<1>8. <<t, Registry, "W">> \in held
  BY DEF LookupInv, Looking
<1>9. ASSUME NEW u \in Callers, u # t PROVE pc[u] \notin Looking \cup Visiting
  <2>1. <<u, Registry, "W">> \notin held /\ <<u, Registry, "R">> \notin held
    BY <1>8, <1>9 DEF ExclusionInv
  <2> QED BY <2>1 DEF LookupInv, VisitInv, Role, Callers, Looking, Visiting, Setting, Announcing
<1>10. ASSUME NEW u \in Callers PROVE Role(u)' /\ LookupInv(u)'
  BY <1>9 DEF Role, LookupInv, Looking, Visiting, Setting, Announcing, TypeOK, Callers
<1>11. ASSUME NEW u \in Threads PROVE VisitInv(u)'
  BY <1>9 DEF VisitInv, Visiting, TypeOK, Callers
<1>12. ASSUME NEW l \in Loaders PROVE SetInv(l)'
  BY <1>2 DEF SetInv, Setting, Announcing, Looking, TypeOK, Callers, Node, First
<1>13. HeldInv'
  <2>1. \A u \in Callers : \A k, mode : <<u, k, mode>> \in held => k \in {Registry} \cup DOMAIN objects
    BY DEF TypeOK
  <2> QED BY <2>1 DEF HeldInv, Looking, Visiting, Announcing, TypeOK, Callers
<1>14. ExclusionInv'
  BY DEF ExclusionInv
<1>15. RegistryInv'
  <2>1. ASSUME NEW n \in Registered' PROVE (objects[s_datas[n]].name = n /\ ValidName(n))'
    <3>1. CASE n = name[t]
      BY <3>1 DEF ValidName
    <3>2. CASE n \in Registered
      BY <3>2 DEF RegistryInv, ValidName, TypeOK
    <3> QED BY <3>1, <3>2
  <2>2. ASSUME NEW o \in DOMAIN objects'
        PROVE  (objects[o].name \in Registered /\ s_datas[objects[o].name] = o)'
    <3>1. CASE o = Len(objects) + 1
      BY <3>1
    <3>2. CASE o \in DOMAIN objects
      BY <3>2 DEF RegistryInv
    <3> QED BY <3>1, <3>2
  <2> QED BY <2>1, <2>2 DEF RegistryInv
<1> QED BY <1>7, <1>10, <1>11, <1>12, <1>13, <1>14, <1>15

\* The read-only lookups leave everything but what they return.
LEMMA FindStep ==
  ASSUME IInv, NEW t \in Callers, NEW n \in Names, NEW ty \in Types, Find(t, n, ty)
  PROVE  IInv'
<1> USE ConfigAssumption DEF IInv
<1>1. /\ UNCHANGED <<discipline, s_datas, objects, held, name, type, seen, start, doc, nodes, known, var>>
      /\ pc[t] = IF t \in Threads THEN "idle" ELSE "finding"
      /\ pc' = [pc EXCEPT ![t] = IF t \in Threads THEN "idle" ELSE "callback"]
  BY Zenon DEF Find, Goto, visit, load
<1> USE <1>1
<1>2. Registered' = Registered
  BY DEF Registered
<1> USE <1>2
<1>3. \A p \in got' : p.object \in DOMAIN objects /\ objects[p.object].type = p.type
  BY DEF TypeOK, Cast, Find
<1>4. TypeOK'
  BY <1>3 DEF TypeOK
<1>5. ASSUME NEW u \in Callers PROVE Role(u)' /\ LookupInv(u)'
  BY DEF Role, LookupInv, Looking, Visiting, Setting, Announcing, TypeOK, ValidName, Callers
<1>6. ASSUME NEW u \in Threads PROVE VisitInv(u)'
  BY DEF VisitInv, Visiting, TypeOK, Callers
<1>7. ASSUME NEW l \in Loaders PROVE SetInv(l)'
  BY DEF SetInv, Setting, Announcing, Looking, TypeOK, Callers, Node, First
<1>8. HeldInv'
  BY DEF HeldInv, Looking, Visiting, Announcing, TypeOK, Callers
<1>9. ExclusionInv' /\ RegistryInv'
  BY DEF ExclusionInv, RegistryInv, ValidName
<1> QED BY <1>4, <1>5, <1>6, <1>7, <1>8, <1>9

\* Visit finds no writer, and the names of now are its snapshot.
LEMMA VisitStep ==
  ASSUME IInv, NEW t \in Threads, Visit(t)
  PROVE  IInv'
<1> USE ConfigAssumption DEF IInv
<1>1. /\ UNCHANGED <<discipline, s_datas, objects, name, type, got, seen, doc, nodes, known, var>>
      /\ pc[t] = "idle"
      /\ CanRead(Registry)
      /\ held' = held \cup {<<t, Registry, "R">>}
      /\ start' = [start EXCEPT ![t] = Registered]
      /\ pc' = [pc EXCEPT ![t] = "visit"]
  BY Zenon DEF Visit, Goto, lookup, load
<1>2. t \in Callers /\ t \notin Loaders /\ Registered' = Registered
  BY <1>1 DEF Callers, Registered
<1> USE <1>1, <1>2
<1>3. TypeOK'
  BY DEF TypeOK
<1>4. ASSUME NEW u \in Callers PROVE Role(u)' /\ LookupInv(u)'
  BY DEF Role, LookupInv, Looking, Visiting, Setting, Announcing, TypeOK, ValidName, Callers
<1>5. ASSUME NEW u \in Threads PROVE VisitInv(u)'
  BY DEF VisitInv, Visiting, TypeOK, Callers
<1>6. ASSUME NEW u \in Loaders PROVE SetInv(u)'
  BY DEF SetInv, Setting, Announcing, Looking, TypeOK, Callers, Node, First
<1>7. HeldInv'
  BY DEF HeldInv, Looking, Visiting, Announcing, TypeOK, Callers
<1>8. ExclusionInv' /\ RegistryInv'
  BY DEF ExclusionInv, RegistryInv, ValidName, CanRead
<1> QED BY <1>3, <1>4, <1>5, <1>6, <1>7, <1>8

\* The map's next is a registered name, with an object.
LEMMA VisitCallStep ==
  ASSUME IInv, NEW t \in Threads, VisitCall(t)
  PROVE  IInv'
<1> USE ConfigAssumption DEF IInv
<1>1. /\ UNCHANGED <<discipline, s_datas, objects, held, name, type, got, start, doc, nodes, known>>
      /\ pc[t] = "visit"
      /\ pc' = [pc EXCEPT ![t] = IF discipline = "listen" THEN "addListener" ELSE "toString"]
  BY Zenon DEF VisitCall, Goto, lookup, load
<1>2. t \in Callers /\ t \notin Loaders /\ Registered' = Registered
  BY <1>1 DEF Callers, Registered
<1> USE <1>1, <1>2
<1>3. PICK n \in Registered :
        /\ seen' = [seen EXCEPT ![t] = @ \cup {n}]
        /\ var' = [var EXCEPT ![t] = s_datas[n]]
  <2>1. \E m \in Registered : m \notin seen[t]
    BY DEF VisitCall, VisitInv, Visiting
  <2>2. (CHOOSE m \in Registered \ seen[t] : TRUE) \in Registered
    BY <2>1
  <2> QED BY <2>2, Zenon DEF VisitCall
<1> USE <1>3
<1>4. TypeOK'
  BY DEF TypeOK
<1>5. ASSUME NEW u \in Callers PROVE Role(u)' /\ LookupInv(u)'
  BY DEF Role, LookupInv, Looking, Visiting, Setting, Announcing, TypeOK, ValidName, Callers
<1>6. ASSUME NEW u \in Threads PROVE VisitInv(u)'
  BY DEF VisitInv, Visiting, TypeOK, Callers
<1>7. ASSUME NEW u \in Loaders PROVE SetInv(u)'
  BY DEF SetInv, Setting, Announcing, Looking, TypeOK, Callers, Node, First
<1>8. HeldInv'
  <2>1. /\ pc[t] \in Visiting \ Looking /\ pc'[t] \in Visiting
        /\ \A u \in Callers \ {t} : pc'[u] = pc[u] /\ var'[u] = var[u]
    BY DEF TypeOK, Visiting, Looking
  <2> QED BY <2>1, HeldKept
<1>9. ExclusionInv' /\ RegistryInv'
  BY DEF ExclusionInv, RegistryInv, ValidName
<1> QED BY <1>4, <1>5, <1>6, <1>7, <1>8, <1>9

\* The callback leaves the variable, Visit goes on.
LEMMA VisitReturnStep ==
  ASSUME IInv, NEW t \in Threads, VisitReturn(t)
  PROVE  IInv'
<1> USE ConfigAssumption DEF IInv
<1>1. /\ UNCHANGED <<discipline, s_datas, objects, held, name, type, got, seen, start, doc, nodes, known>>
      /\ pc[t] \in {"toString", "addListener"}
      /\ var' = [var EXCEPT ![t] = NULL]
      /\ pc' = [pc EXCEPT ![t] = "visit"]
  BY Zenon DEF VisitReturn, Goto, lookup, visit, load
<1>2. t \in Callers /\ t \notin Loaders /\ Registered' = Registered
  BY <1>1 DEF Callers, Registered
<1> USE <1>1, <1>2
<1>3. TypeOK'
  BY DEF TypeOK
<1>4. ASSUME NEW u \in Callers PROVE Role(u)' /\ LookupInv(u)'
  BY DEF Role, LookupInv, Looking, Visiting, Setting, Announcing, TypeOK, ValidName, Callers
<1>5. ASSUME NEW u \in Threads PROVE VisitInv(u)'
  BY DEF VisitInv, Visiting, TypeOK, Callers
<1>6. ASSUME NEW u \in Loaders PROVE SetInv(u)'
  BY DEF SetInv, Setting, Announcing, Looking, TypeOK, Callers, Node, First
<1>7. HeldInv'
  <2>1. /\ pc[t] \in Visiting \ Looking /\ pc'[t] \in Visiting
        /\ \A u \in Callers \ {t} : pc'[u] = pc[u] /\ var'[u] = var[u]
    BY DEF TypeOK, Visiting, Looking
  <2> QED BY <2>1, HeldKept
<1>8. ExclusionInv' /\ RegistryInv'
  BY DEF ExclusionInv, RegistryInv, ValidName
<1> QED BY <1>3, <1>4, <1>5, <1>6, <1>7, <1>8

\* Visit ends: its lock and its snapshot are gone.
LEMMA EndVisitStep ==
  ASSUME IInv, NEW t \in Threads, EndVisit(t)
  PROVE  IInv'
<1> USE ConfigAssumption DEF IInv
<1>1. /\ UNCHANGED <<discipline, s_datas, objects, name, type, got, doc, nodes, known, var>>
      /\ pc[t] = "visit"
      /\ held' = held \ {<<t, Registry, "R">>}
      /\ seen' = [seen EXCEPT ![t] = {}]
      /\ start' = [start EXCEPT ![t] = {}]
      /\ pc' = [pc EXCEPT ![t] = "idle"]
  BY Zenon DEF EndVisit, Goto, lookup, load
<1>2. t \in Callers /\ t \notin Loaders /\ Registered' = Registered
  BY <1>1 DEF Callers, Registered
<1> USE <1>1, <1>2
<1>3. TypeOK'
  BY DEF TypeOK
<1>4. ASSUME NEW u \in Callers PROVE Role(u)' /\ LookupInv(u)'
  BY DEF Role, LookupInv, Looking, Visiting, Setting, Announcing, TypeOK, ValidName, Callers
<1>5. ASSUME NEW u \in Threads PROVE VisitInv(u)'
  BY DEF VisitInv, Visiting, TypeOK, Callers
<1>6. ASSUME NEW u \in Loaders PROVE SetInv(u)'
  BY DEF SetInv, Setting, Announcing, Looking, TypeOK, Callers, Node, First
<1>7. HeldInv'
  BY DEF HeldInv, Looking, Visiting, Announcing, TypeOK, Callers
<1>8. ExclusionInv' /\ RegistryInv'
  BY DEF ExclusionInv, RegistryInv, ValidName
<1> QED BY <1>3, <1>4, <1>5, <1>6, <1>7, <1>8

-----------------------------------------------------------------------------
(* LoadFromYaml *)

\* A load begins at the nodes of its document that ListAllMember lists.
LEMMA LoadFromYamlStep ==
  ASSUME IInv, NEW l \in Loaders, NEW d \in Documents, LoadFromYaml(l, d)
  PROVE  IInv'
<1> USE ConfigAssumption DEF IInv
<1>1. /\ UNCHANGED <<discipline, s_datas, objects, held, name, type, got, seen, start, var>>
      /\ pc[l] \in {"idle", "done"}
      /\ doc' = [doc EXCEPT ![l] = d]
      /\ nodes' = [nodes EXCEPT ![l] = {i \in DOMAIN d : Listed(d[i].name)}]
      /\ known' = [known EXCEPT ![l] = Registered]
      /\ pc' = [pc EXCEPT ![l] = "node"]
  BY Zenon DEF LoadFromYaml, Goto, lookup, visit
<1>2. l \in Callers /\ l \notin Threads /\ Registered' = Registered
  BY <1>1 DEF Callers, Registered
<1> USE <1>1, <1>2
<1>3. DOMAIN d \subseteq Nat
  OBVIOUS
<1>4. TypeOK'
  BY <1>3 DEF TypeOK
<1>5. ASSUME NEW u \in Callers PROVE Role(u)' /\ LookupInv(u)'
  BY DEF Role, LookupInv, Looking, Visiting, Setting, Announcing, TypeOK, ValidName, Callers
<1>6. ASSUME NEW u \in Threads PROVE VisitInv(u)'
  BY DEF VisitInv, Visiting, TypeOK, Callers
<1>7. ASSUME NEW u \in Loaders PROVE SetInv(u)'
  BY DEF SetInv, Setting, Announcing, Looking, TypeOK, Callers, Node, First
<1>8. HeldInv'
  <2>1. /\ pc[l] \notin Looking \cup Visiting \cup Announcing
        /\ \A u \in Callers \ {l} : pc'[u] = pc[u] /\ var'[u] = var[u]
    BY DEF TypeOK, Looking, Visiting, Announcing
  <2> QED BY <2>1, HeldKept
<1>9. ExclusionInv' /\ RegistryInv'
  BY DEF ExclusionInv, RegistryInv, ValidName, TypeOK, Registry
<1> QED BY <1>4, <1>5, <1>6, <1>7, <1>8, <1>9

\* The loop is at one of the nodes left, a node of a document.
LEMMA FirstIsANode ==
  ASSUME TypeOK, NEW l \in Loaders, nodes[l] # {}
  PROVE  /\ First(l) \in nodes[l]
         /\ doc[l] \in Documents
         /\ First(l) \in DOMAIN doc[l]
         /\ Node(l).text.val \in Values
<1>1. nodes[l] \subseteq Nat /\ nodes[l] \subseteq DOMAIN doc[l]
  BY DEF TypeOK
<1>2. First(l) \in nodes[l]
  BY <1>1, LeastElement DEF First, Min
<1>3. doc[l] \in Documents
  BY <1>1, <1>2 DEF TypeOK
<1> QED BY <1>1, <1>2, <1>3 DEF Node, Values

\* LookupBase finds the variable of the node, which has the node's name.
LEMMA LookupBaseFoundStep ==
  ASSUME IInv, NEW l \in Loaders, Node(l).name \in Registered, LookupBase(l)
  PROVE  IInv'
<1> USE ConfigAssumption DEF IInv
<1>1. /\ UNCHANGED <<discipline, s_datas, objects, held, name, type, got, seen, start, doc, nodes, known>>
      /\ pc[l] = "node"
      /\ nodes[l] # {}
      /\ var' = [var EXCEPT ![l] = s_datas[Node(l).name]]
      /\ pc' = [pc EXCEPT ![l] = "fromString"]
  BY Zenon DEF LookupBase, Goto, lookup, visit
<1>2. l \in Callers /\ l \notin Threads /\ Registered' = Registered
  BY <1>1 DEF Callers, Registered
<1> USE <1>1, <1>2
<1>3. s_datas[Node(l).name] \in DOMAIN objects /\ objects[s_datas[Node(l).name]].name = Node(l).name
  BY DEF TypeOK, RegistryInv
<1> USE <1>3
<1>4. TypeOK'
  BY DEF TypeOK
<1>5. ASSUME NEW u \in Callers PROVE Role(u)' /\ LookupInv(u)'
  BY DEF Role, LookupInv, Looking, Visiting, Setting, Announcing, TypeOK, ValidName, Callers
<1>6. ASSUME NEW u \in Threads PROVE VisitInv(u)'
  BY DEF VisitInv, Visiting, TypeOK, Callers
<1>7. ASSUME NEW u \in Loaders PROVE SetInv(u)'
  BY DEF SetInv, Setting, Announcing, Looking, TypeOK, Callers, Node, First
<1>8. HeldInv'
  <2>1. /\ pc[l] \notin Looking \cup Visiting \cup Announcing
        /\ \A u \in Callers \ {l} : pc'[u] = pc[u] /\ var'[u] = var[u]
    BY DEF TypeOK, Looking, Visiting, Announcing
  <2> QED BY <2>1, HeldKept
<1>9. ExclusionInv' /\ RegistryInv'
  BY DEF ExclusionInv, RegistryInv, ValidName, TypeOK, Registry
<1> QED BY <1>4, <1>5, <1>6, <1>7, <1>8, <1>9

\* LookupBase finds nothing, and the loop goes on.
LEMMA LookupBaseMissedStep ==
  ASSUME IInv, NEW l \in Loaders, Node(l).name \notin Registered, LookupBase(l)
  PROVE  IInv'
<1> USE ConfigAssumption DEF IInv
<1>1. /\ UNCHANGED <<discipline, s_datas, objects, held, name, type, got, seen, start, doc, known, var, pc>>
      /\ pc[l] = "node"
      /\ nodes' = [nodes EXCEPT ![l] = @ \ {First(l)}]
  BY Zenon DEF LookupBase, lookup, visit
<1>2. l \in Callers /\ l \notin Threads /\ Registered' = Registered
  BY <1>1 DEF Callers, Registered
<1> USE <1>1, <1>2
<1>3. TypeOK'
  BY DEF TypeOK
<1>4. ASSUME NEW u \in Callers PROVE Role(u)' /\ LookupInv(u)'
  BY DEF Role, LookupInv, Looking, Visiting, Setting, Announcing, TypeOK, ValidName, Callers
<1>5. ASSUME NEW u \in Threads PROVE VisitInv(u)'
  BY DEF VisitInv, Visiting, TypeOK, Callers
<1>6. ASSUME NEW u \in Loaders PROVE SetInv(u)'
  BY DEF SetInv, Setting, Announcing, Looking, TypeOK, Callers, Node, First
<1>7. HeldInv'
  BY DEF HeldInv, Looking, Visiting, Announcing, TypeOK, Callers
<1>8. ExclusionInv' /\ RegistryInv'
  BY DEF ExclusionInv, RegistryInv, ValidName, TypeOK, Registry
<1> QED BY <1>3, <1>4, <1>5, <1>6, <1>7, <1>8

\* fromString ends without a change: the lock was not taken.
LEMMA NextNodeStep ==
  ASSUME IInv, NEW l \in Loaders, NextNode(l), pc[l] = "fromString", UNCHANGED held,
         UNCHANGED <<discipline, s_datas, objects, lookup, visit, doc, known>>
  PROVE  IInv'
<1> USE ConfigAssumption DEF IInv
<1>1. /\ UNCHANGED <<discipline, s_datas, objects, held, name, type, got, seen, start, doc, known>>
      /\ nodes' = [nodes EXCEPT ![l] = @ \ {First(l)}]
      /\ var' = [var EXCEPT ![l] = NULL]
      /\ pc' = [pc EXCEPT ![l] = "node"]
  BY Zenon DEF NextNode, Goto, lookup, visit
<1>2. l \in Callers /\ l \notin Threads /\ Registered' = Registered
  BY <1>1 DEF Callers, Registered
<1> USE <1>1, <1>2
<1>3. TypeOK'
  BY DEF TypeOK
<1>4. ASSUME NEW u \in Callers PROVE Role(u)' /\ LookupInv(u)'
  BY DEF Role, LookupInv, Looking, Visiting, Setting, Announcing, TypeOK, ValidName, Callers
<1>5. ASSUME NEW u \in Threads PROVE VisitInv(u)'
  BY DEF VisitInv, Visiting, TypeOK, Callers
<1>6. ASSUME NEW u \in Loaders PROVE SetInv(u)'
  BY DEF SetInv, Setting, Announcing, Looking, TypeOK, Callers, Node, First
<1>7. HeldInv'
  BY DEF HeldInv, Looking, Visiting, Announcing, TypeOK, Callers
<1>8. ExclusionInv' /\ RegistryInv'
  BY DEF ExclusionInv, RegistryInv, ValidName, TypeOK, Registry
<1> QED BY <1>3, <1>4, <1>5, <1>6, <1>7, <1>8

\* The announcement begins, under the variable's ReadLock.
LEMMA AnnounceStep ==
  ASSUME IInv, NEW l \in Loaders, pc[l] = "fromString", held' = held \cup {<<l, var[l], "R">>}, Goto(l, "callback"),
         UNCHANGED <<discipline, s_datas, objects, lookup, visit, doc, known, nodes, var>>
  PROVE  IInv'
<1> USE ConfigAssumption DEF IInv
<1>1. /\ UNCHANGED <<discipline, s_datas, objects, name, type, got, seen, start, doc, known, nodes, var>>
      /\ pc' = [pc EXCEPT ![l] = "callback"]
  BY Zenon DEF Goto, lookup, visit
<1>2. l \in Callers /\ l \notin Threads /\ Registered' = Registered
  BY <1>1 DEF Callers, Registered
<1> USE <1>1, <1>2
<1>3. var[l] \in DOMAIN objects /\ var[l] # Registry
  BY ObjectsHaveOtherLocks DEF SetInv, Setting
<1> USE <1>3
<1>4. TypeOK'
  BY DEF TypeOK
<1>5. ASSUME NEW u \in Callers PROVE Role(u)' /\ LookupInv(u)'
  BY DEF Role, LookupInv, Looking, Visiting, Setting, Announcing, TypeOK, ValidName, Callers
<1>6. ASSUME NEW u \in Threads PROVE VisitInv(u)'
  BY DEF VisitInv, Visiting, TypeOK, Callers
<1>7. ASSUME NEW u \in Loaders PROVE SetInv(u)'
  BY DEF SetInv, Setting, Announcing, Looking, TypeOK, Callers, Node, First
<1>8. HeldInv'
  BY DEF HeldInv, Looking, Visiting, Announcing, TypeOK, Callers
<1>9. ExclusionInv' /\ RegistryInv'
  BY DEF ExclusionInv, RegistryInv, ValidName, TypeOK, Registry
<1> QED BY <1>4, <1>5, <1>6, <1>7, <1>8, <1>9

\* The callback keeps setValue's lock, and creates under "create" only.
LEMMA ChangeCallbackStep ==
  ASSUME IInv, NEW l \in Loaders, ChangeCallback(l)
  PROVE  IInv'
<1> USE ConfigAssumption DEF IInv
<1>1. /\ UNCHANGED <<discipline, s_datas, objects, held, name, type, got, seen, start, doc, known, nodes, var>>
      /\ pc[l] = "callback"
      /\ \/ pc' = [pc EXCEPT ![l] = "finding"]
         \/ discipline = "create" /\ pc' = [pc EXCEPT ![l] = "creating"]
  BY Zenon DEF ChangeCallback, Goto, lookup, visit, load
<1>2. l \in Callers /\ l \notin Threads /\ Registered' = Registered
  BY <1>1 DEF Callers, Registered
<1> USE <1>1, <1>2
<1>3. TypeOK'
  BY DEF TypeOK
<1>4. ASSUME NEW u \in Callers PROVE Role(u)' /\ LookupInv(u)'
  BY DEF Role, LookupInv, Looking, Visiting, Setting, Announcing, TypeOK, ValidName, Callers
<1>5. ASSUME NEW u \in Threads PROVE VisitInv(u)'
  BY DEF VisitInv, Visiting, TypeOK, Callers
<1>6. ASSUME NEW u \in Loaders PROVE SetInv(u)'
  BY DEF SetInv, Setting, Announcing, Looking, TypeOK, Callers, Node, First
<1>7. HeldInv'
  <2>1. /\ pc[l] \in Announcing \ (Looking \cup Visiting) /\ pc'[l] \in Announcing /\ var'[l] = var[l]
        /\ \A u \in Callers \ {l} : pc'[u] = pc[u] /\ var'[u] = var[u]
    BY DEF TypeOK, Looking, Visiting, Announcing
  <2> QED BY <2>1, HeldKept
<1>8. ExclusionInv' /\ RegistryInv'
  BY DEF ExclusionInv, RegistryInv, ValidName, TypeOK, Registry
<1> QED BY <1>3, <1>4, <1>5, <1>6, <1>7, <1>8

\* The ReadLock goes, the variable stays in hand.
LEMMA EndCallbacksStep ==
  ASSUME IInv, NEW l \in Loaders, EndCallbacks(l)
  PROVE  IInv'
<1> USE ConfigAssumption DEF IInv
<1>1. /\ UNCHANGED <<discipline, s_datas, objects, name, type, got, seen, start, doc, known, nodes, var>>
      /\ pc[l] = "callback"
      /\ held' = held \ {<<l, var[l], "R">>}
      /\ pc' = [pc EXCEPT ![l] = "store"]
  BY Zenon DEF EndCallbacks, Goto, lookup, visit, load
<1>2. l \in Callers /\ l \notin Threads /\ Registered' = Registered
  BY <1>1 DEF Callers, Registered
<1> USE <1>1, <1>2
<1>3. var[l] \in DOMAIN objects /\ var[l] # Registry
  BY ObjectsHaveOtherLocks DEF SetInv, Setting, Announcing
<1> USE <1>3
<1>4. TypeOK'
  BY DEF TypeOK
<1>5. ASSUME NEW u \in Callers PROVE Role(u)' /\ LookupInv(u)'
  BY DEF Role, LookupInv, Looking, Visiting, Setting, Announcing, TypeOK, ValidName, Callers
<1>6. ASSUME NEW u \in Threads PROVE VisitInv(u)'
  BY DEF VisitInv, Visiting, TypeOK, Callers
<1>7. ASSUME NEW u \in Loaders PROVE SetInv(u)'
  BY DEF SetInv, Setting, Announcing, Looking, TypeOK, Callers, Node, First
<1>8. HeldInv'
  <2>1. /\ pc[l] \notin Looking \cup Visiting
        /\ \A u \in Callers \ {l} : pc'[u] = pc[u] /\ var'[u] = var[u]
    BY DEF TypeOK, Looking, Visiting
  <2>2. ASSUME NEW u \in Callers, NEW k \in {Registry} \cup DOMAIN objects, NEW mode \in {"R", "W"},
               <<u, k, mode>> \in held'
        PROVE  u # l /\ <<u, k, mode>> \in held
    BY <2>1, <2>2 DEF HeldInv
  <2>3. \A k \in {Registry} \cup DOMAIN objects, mode \in {"R", "W"} : <<l, k, mode>> \notin held'
    BY <2>2
  <2> QED BY <2>1, <2>3, HeldGivenBack
<1>9. ExclusionInv' /\ RegistryInv'
  BY DEF ExclusionInv, RegistryInv, ValidName, TypeOK, Registry
<1> QED BY <1>4, <1>5, <1>6, <1>7, <1>8, <1>9

\* The load is over.
LEMMA EndLoadStep ==
  ASSUME IInv, NEW l \in Loaders, EndLoad(l)
  PROVE  IInv'
<1> USE ConfigAssumption DEF IInv
<1>1. /\ UNCHANGED <<discipline, s_datas, objects, held, name, type, got, seen, start, doc, known, nodes, var>>
      /\ pc[l] = "node"
      /\ nodes[l] = {}
      /\ pc' = [pc EXCEPT ![l] = "done"]
  BY Zenon DEF EndLoad, Goto, lookup, visit, load
<1>2. l \in Callers /\ l \notin Threads /\ Registered' = Registered
  BY <1>1 DEF Callers, Registered
<1> USE <1>1, <1>2
<1>3. TypeOK'
  BY DEF TypeOK
<1>4. ASSUME NEW u \in Callers PROVE Role(u)' /\ LookupInv(u)'
  BY DEF Role, LookupInv, Looking, Visiting, Setting, Announcing, TypeOK, ValidName, Callers
<1>5. ASSUME NEW u \in Threads PROVE VisitInv(u)'
  BY DEF VisitInv, Visiting, TypeOK, Callers
<1>6. ASSUME NEW u \in Loaders PROVE SetInv(u)'
  BY DEF SetInv, Setting, Announcing, Looking, TypeOK, Callers, Node, First
<1>7. HeldInv'
  BY DEF HeldInv, Looking, Visiting, Announcing, TypeOK, Callers
<1>8. ExclusionInv' /\ RegistryInv'
  BY DEF ExclusionInv, RegistryInv, ValidName, TypeOK, Registry
<1> QED BY <1>3, <1>4, <1>5, <1>6, <1>7, <1>8

\* fromString of a text that does not parse, of an equal value or of a new one.
LEMMA FromStringStep ==
  ASSUME IInv, NEW l \in Loaders, FromString(l)
  PROVE  IInv'
<1>1. /\ pc[l] = "fromString"
      /\ UNCHANGED <<discipline, s_datas, objects, lookup, visit, doc, known>>
      /\ \/ NextNode(l) /\ UNCHANGED held
         \/ /\ held' = held \cup {<<l, var[l], "R">>}
            /\ Goto(l, "callback")
            /\ UNCHANGED <<nodes, var>>
  BY Zenon DEF FromString
<1>2. CASE NextNode(l) /\ UNCHANGED held
  BY <1>1, <1>2, NextNodeStep
<1>3. CASE /\ held' = held \cup {<<l, var[l], "R">>}
           /\ Goto(l, "callback")
           /\ UNCHANGED <<nodes, var>>
  BY <1>1, <1>3, AnnounceStep
<1> QED BY <1>1, <1>2, <1>3

\* What Store does to the variables: one of them has another value.
Stored(o, x) ==
  /\ o \in DOMAIN objects
  /\ DOMAIN objects' = DOMAIN objects
  /\ objects' \in Seq(Object)
  /\ \A p \in DOMAIN objects : objects'[p].name = objects[p].name /\ objects'[p].type = objects[p].type
  /\ \A p \in DOMAIN objects \ {o} : objects'[p] = objects[p]
  /\ objects'[o].val = x

\* Store has this effect.
LEMMA StoreEffect ==
  ASSUME IInv, NEW l \in Loaders, Store(l)
  PROVE  Stored(var[l], Node(l).text.val)
<1> USE DEF IInv
<1>1. PICK o \in DOMAIN objects : o = var[l]
  BY DEF Store, SetInv, Setting
<1>2. PICK x \in Values : x = Node(l).text.val
  BY FirstIsANode DEF Store, SetInv, Setting
<1>3. objects' = [objects EXCEPT ![o] = [@ EXCEPT !.val = x]]
  BY <1>1, <1>2 DEF Store
<1>4. objects \in Seq(Object) /\ Len(objects) \in Nat /\ DOMAIN objects = 1..Len(objects)
  BY DEF TypeOK
<1>5. objects[o] \in Object /\ [objects[o] EXCEPT !.val = x] \in Object
  <2>1. objects[o] \in Object
    BY <1>4
  <2> QED BY <1>2, <2>1 DEF Object
<1>6. objects' \in Seq(Object) /\ DOMAIN objects' = DOMAIN objects
  BY <1>3, <1>4, <1>5
<1>7. \A p \in DOMAIN objects \ {o} : objects'[p] = objects[p]
  BY <1>3, <1>4
<1>8. /\ objects'[o].name = objects[o].name
      /\ objects'[o].type = objects[o].type
      /\ objects'[o].val = x
  BY <1>3, <1>4, <1>5 DEF Object
<1> QED BY <1>1, <1>2, <1>6, <1>7, <1>8 DEF Stored

\* The store changes a value and no name, type or lock.
LEMMA StoreStep ==
  ASSUME IInv, NEW l \in Loaders, Store(l)
  PROVE  IInv'
<1> USE ConfigAssumption DEF IInv
<1>1. /\ UNCHANGED <<discipline, s_datas, held, name, type, got, seen, start, doc, known>>
      /\ pc[l] = "store"
      /\ nodes' = [nodes EXCEPT ![l] = @ \ {First(l)}]
      /\ var' = [var EXCEPT ![l] = NULL]
      /\ pc' = [pc EXCEPT ![l] = "node"]
  BY Zenon DEF Store, NextNode, Goto, lookup, visit
<1>2. l \in Callers /\ l \notin Threads /\ Registered' = Registered
  BY <1>1 DEF Callers, Registered
<1> USE <1>1, <1>2
<1>3. /\ DOMAIN objects' = DOMAIN objects
      /\ objects' \in Seq(Object)
      /\ \A p \in DOMAIN objects : objects'[p].name = objects[p].name /\ objects'[p].type = objects[p].type
  BY StoreEffect DEF Stored
<1> USE <1>3
<1>4. TypeOK'
  BY DEF TypeOK
<1>5. ASSUME NEW u \in Callers PROVE Role(u)' /\ LookupInv(u)'
  BY DEF Role, LookupInv, Looking, Visiting, Setting, Announcing, TypeOK, ValidName, Callers
<1>6. ASSUME NEW u \in Threads PROVE VisitInv(u)'
  BY DEF VisitInv, Visiting, TypeOK, Callers
<1>7. ASSUME NEW u \in Loaders PROVE SetInv(u)'
  BY DEF SetInv, Setting, Announcing, Looking, TypeOK, Callers, Node, First
<1>8. HeldInv'
  <2>1. /\ pc[l] \notin Looking \cup Visiting \cup Announcing
        /\ \A u \in Callers \ {l} : pc'[u] = pc[u] /\ var'[u] = var[u]
    BY DEF TypeOK, Looking, Visiting, Announcing
  <2> QED BY <2>1, HeldKept
<1>9. ExclusionInv' /\ RegistryInv'
  BY DEF ExclusionInv, RegistryInv, ValidName, TypeOK, Registry
<1> QED BY <1>4, <1>5, <1>6, <1>7, <1>8, <1>9

\* Every step preserves the invariant.
LEMMA NextInv ==
  ASSUME IInv, [Next]_vars
  PROVE  IInv'
<1>1. CASE UNCHANGED vars
  <2> USE <1>1 DEF vars, lookup, visit, load
  <2>1. TypeOK' /\ HeldInv' /\ ExclusionInv' /\ RegistryInv'
    BY DEF IInv, TypeOK, HeldInv, ExclusionInv, RegistryInv, Registered
  <2>2. \A t \in Callers : Role(t)' /\ LookupInv(t)'
    BY DEF IInv, Role, LookupInv, Registered
  <2>3. \A t \in Threads : VisitInv(t)'
    BY DEF IInv, VisitInv, Registered
  <2>4. \A l \in Loaders : SetInv(l)'
    BY DEF IInv, SetInv, Node, First
  <2> QED BY <2>1, <2>2, <2>3, <2>4 DEF IInv
<1>2. ASSUME NEW t \in Callers,
             \/ \E n \in Names, ty \in Types : Lookup(t, n, ty) \/ Find(t, n, ty)
             \/ LookupMismatch(t) \/ LookupCreate(t)
      PROVE  IInv'
  BY <1>2, LookupStep, FindStep, LookupMismatchStep, LookupCreateStep
<1>3. ASSUME NEW t \in Threads, Visit(t) \/ VisitCall(t) \/ VisitReturn(t) \/ EndVisit(t)
      PROVE  IInv'
  BY <1>3, VisitStep, VisitCallStep, VisitReturnStep, EndVisitStep
<1>4. ASSUME NEW l \in Loaders, NEW d \in Documents, LoadFromYaml(l, d)
      PROVE  IInv'
  BY <1>4, LoadFromYamlStep
<1>5. ASSUME NEW l \in Loaders, LookupBase(l)
      PROVE  IInv'
  BY <1>5, LookupBaseFoundStep, LookupBaseMissedStep
<1>6. ASSUME NEW l \in Loaders, FromString(l) \/ ChangeCallback(l) \/ EndCallbacks(l) \/ Store(l) \/ EndLoad(l)
      PROVE  IInv'
  BY <1>6, FromStringStep, ChangeCallbackStep, EndCallbacksStep, StoreStep, EndLoadStep
<1> QED BY <1>1, <1>2, <1>3, <1>4, <1>5, <1>6 DEF Next

-----------------------------------------------------------------------------
(* The theorems *)

\* The invariant holds of every execution.
THEOREM Invariant == Spec => []IInv
<1>1. Init => IInv
  BY InitInv DEF LInv
<1>2. IInv /\ [Next]_vars => IInv'
  BY NextInv
<1> QED BY <1>1, <1>2, PTL DEF Spec

\* Type correctness, with the types of the pointers that Lookup returns: the
\* dynamic_pointer_cast of Lookup never hands out a variable of another type.
THEOREM TypeCorrect == Spec => []TypeOK
<1>1. IInv => TypeOK
  BY DEF IInv
<1> QED BY <1>1, Invariant, PTL

\* A pointer that a lookup returned is the variable of its name for ever.
THEOREM OneVariable == Spec => []OneVariablePerName
<1>1. IInv => OneVariablePerName
  BY DEF IInv, TypeOK, RegistryInv, OneVariablePerName
<1> QED BY <1>1, Invariant, PTL

\* Nothing is registered while Visit runs, its callbacks included.
THEOREM VisitsStandStill == Spec => []VisitIsASnapshot
<1>1. IInv => VisitIsASnapshot
  BY DEF IInv, VisitInv, Visiting, VisitIsASnapshot
<1> QED BY <1>1, Invariant, PTL

\* How far a caller is from a lock that it can surely get.
Rank(t) ==
  IF pc[t] \in {"addListener", "store"} THEN 2
  ELSE IF pc[t] \in {"finding", "creating"} THEN 1 ELSE 0

\* A caller waits only for callers of a lower rank.
LEMMA WaitsForLower ==
  ASSUME IInv, NEW t \in Callers, NEW u \in Callers, BlockedBy(t, u)
  PROVE  Rank(u) < Rank(t)
<1> USE ConfigAssumption DEF IInv
<1>1. PICK k \in {Registry} \cup DOMAIN objects, mode \in {"R", "W"} :
        <<u, k, mode>> \in held /\ (Wants(t, k, "W") \/ (mode = "W" /\ Wants(t, k, "R")))
  BY DEF BlockedBy
<1>2. \/ k = Registry /\ mode = "W" /\ pc[u] \in Looking
      \/ k = Registry /\ mode = "R" /\ u \in Threads /\ pc[u] \in Visiting
      \/ k \in DOMAIN objects /\ k # Registry /\ mode = "R" /\ u \in Loaders /\ pc[u] \in Announcing
  BY <1>1 DEF HeldInv
<1>3. CASE pc[t] \in {"mismatch", "toString"}
  <2>1. k \in DOMAIN objects /\ mode = "W"
    <3>1. CASE pc[t] = "mismatch"
      <4>1. s_datas[name[t]] \in DOMAIN objects
        BY <3>1 DEF LookupInv, Looking, TypeOK
      <4> QED BY <1>1, <3>1, <4>1 DEF Wants
    <3>2. CASE pc[t] = "toString"
      <4>1. t \in Threads
        BY <3>2 DEF Role, Callers, Setting, Announcing, Looking
      <4> QED BY <1>1, <3>2, <4>1 DEF Wants, VisitInv, Visiting
    <3> QED BY <1>3, <3>1, <3>2
  <2> QED BY <1>2, <2>1, ObjectsHaveOtherLocks
<1>4. CASE pc[t] = "finding"
  <2>1. k = Registry /\ mode = "W"
    BY <1>1, <1>4 DEF Wants
  <2> QED BY <1>2, <1>4, <2>1 DEF Rank, Looking
<1>5. CASE pc[t] = "creating"
  <2>1. k = Registry
    BY <1>1, <1>5 DEF Wants
  <2>2. discipline = "create"
    BY <1>5 DEF SetInv, Role, Callers, Visiting, Looking
  <2>3. pc[u] \in Looking \cup {"visit", "toString"}
    BY <1>2, <2>1, <2>2 DEF VisitInv, Visiting
  <2> QED BY <1>5, <2>3 DEF Rank, Looking
<1>6. CASE pc[t] \in {"addListener", "store"}
  <2>1. k \in DOMAIN objects
    <3>1. CASE pc[t] = "addListener"
      <4>1. t \in Threads
        BY <3>1 DEF Role, Callers, Setting, Announcing, Looking
      <4> QED BY <1>1, <3>1, <4>1 DEF Wants, VisitInv, Visiting
    <3>2. CASE pc[t] = "store"
      <4>1. t \in Loaders
        BY <3>2 DEF Role, Callers, Visiting, Looking
      <4> QED BY <1>1, <3>2, <4>1 DEF Wants, SetInv, Setting
    <3> QED BY <1>6, <3>1, <3>2
  <2>2. pc[u] \in Announcing
    BY <1>2, <2>1, ObjectsHaveOtherLocks
  <2> QED BY <1>6, <2>2 DEF Rank, Announcing, Looking
<1> QED BY <1>1, <1>3, <1>4, <1>5, <1>6 DEF Wants

\* Under either discipline no callers wait for each other's locks for ever.
THEOREM NobodyWaitsInACircle == Spec => []NoCircularWait
<1>1. ASSUME IInv PROVE NoCircularWait
  <2> SUFFICES ASSUME NEW D \in SUBSET Callers, NEW t \in D,
                      \A u \in D : \E w \in D : BlockedBy(u, w)
               PROVE  FALSE
    BY DEF NoCircularWait
  <2>1. \A u \in D : \E w \in D : Rank(w) < Rank(u)
    BY <1>1, WaitsForLower
  <2>2. \A u \in D : Rank(u) \in {0, 1, 2}
    BY DEF Rank
  <2>3. \A u \in D : Rank(u) # 0
    BY <2>1, <2>2
  <2>4. \A u \in D : Rank(u) # 1
    BY <2>1, <2>2, <2>3
  <2> QED BY <2>1, <2>2, <2>3, <2>4
<1> QED BY <1>1, Invariant, PTL

-----------------------------------------------------------------------------
(* A load by itself reaches its variables *)

\* The variables that a load knew are there, and are as they were.
LEMMA ReachedKept ==
  ASSUME IInv, NEW l \in Loaders, UNCHANGED <<doc, known>>, NEW i \in DOMAIN doc[l], Reached(l, i),
         \A n \in Registered : s_datas'[n] = s_datas[n] /\ objects'[s_datas[n]] = objects[s_datas[n]]
  PROVE  Reached(l, i)'
<1>1. known[l] \subseteq Registered
  BY DEF IInv, TypeOK
<1> QED BY <1>1 DEF Reached

\* The same for a step that keeps the loop where it is.
LEMMA LoadKept ==
  ASSUME IInv, NEW l \in Loaders, LoadInv(l), UNCHANGED <<doc, nodes, known>>,
         pc'[l] = "done" => nodes[l] = {},
         \A n \in Registered : s_datas'[n] = s_datas[n] /\ objects'[s_datas[n]] = objects[s_datas[n]]
  PROVE  LoadInv(l)'
<1>1. ASSUME NEW i \in DOMAIN doc[l] \ nodes[l] PROVE Reached(l, i)'
  BY ReachedKept DEF LoadInv
<1> QED BY <1>1 DEF LoadInv

\* The loop leaves a node that has reached its variable, or has none.
LEMMA LoadGoesOn ==
  ASSUME IInv, NEW l \in Loaders, LoadInv(l), UNCHANGED <<doc, known, s_datas, objects>>,
         pc'[l] # "done", nodes[l] # {}, nodes' = [nodes EXCEPT ![l] = @ \ {First(l)}],
         Reached(l, First(l))
  PROVE  LoadInv(l)'
<1>1. nodes'[l] = nodes[l] \ {First(l)}
  BY DEF IInv, TypeOK
<1>2. ASSUME NEW i \in DOMAIN doc[l] \ nodes'[l] PROVE Reached(l, i)'
  <2>1. Reached(l, i)
    BY <1>1 DEF LoadInv
  <2> QED BY <2>1 DEF Reached
<1> QED BY <1>2 DEF LoadInv

\* What is not listed has a name with a 9, or one that is no variable's.
LEMMA LoadStarts ==
  ASSUME IInv, NEW l \in Loaders, NEW d \in Documents, LoadFromYaml(l, d)
  PROVE  LoadInv(l)'
<1>1. /\ doc'[l] = d
      /\ nodes'[l] = {i \in DOMAIN d : Listed(d[i].name)}
      /\ known'[l] = Registered
      /\ pc'[l] = "node"
      /\ UNCHANGED <<s_datas, objects>>
  BY DEF IInv, TypeOK, LoadFromYaml, Goto, Callers
<1>2. ASSUME NEW i \in DOMAIN d, ~Listed(d[i].name), d[i].name \in Registered
      PROVE  Has(d[i].name, Nine)
  BY <1>2 DEF IInv, RegistryInv, Listed, ValidName
<1>3. ASSUME NEW i \in DOMAIN doc'[l] \ nodes'[l] PROVE Reached(l, i)'
  BY <1>1, <1>2 DEF Reached
<1> QED BY <1>1, <1>3 DEF LoadInv

\* LookupBase passes over a node only when no variable has its name.
LEMMA LookupBaseLoads ==
  ASSUME IInv, NEW l \in Loaders, LoadInv(l), LookupBase(l)
  PROVE  LoadInv(l)'
<1>1. /\ UNCHANGED <<doc, known, s_datas, objects>>
      /\ pc[l] = "node"
      /\ nodes[l] # {}
  BY DEF LookupBase
<1>2. CASE Node(l).name \in Registered
  <2>1. UNCHANGED nodes /\ pc'[l] = "fromString"
    BY <1>2 DEF IInv, TypeOK, LookupBase, Goto, Callers
  <2> QED BY <1>1, <2>1, LoadKept
<1>3. CASE Node(l).name \notin Registered
  <2>1. nodes' = [nodes EXCEPT ![l] = @ \ {First(l)}] /\ pc'[l] = "node"
    BY <1>1, <1>3 DEF LookupBase
  <2>2. Reached(l, First(l))
    BY <1>3 DEF IInv, TypeOK, Reached, Node
  <2> QED BY <1>1, <2>1, <2>2, LoadGoesOn
<1> QED BY <1>2, <1>3

\* fromString passes over a node when it does not parse, or changes nothing.
LEMMA FromStringLoads ==
  ASSUME IInv, NEW l \in Loaders, LoadInv(l), FromString(l)
  PROVE  LoadInv(l)'
<1>1. /\ UNCHANGED <<doc, known, s_datas, objects>>
      /\ nodes[l] # {}
      /\ pc[l] = "fromString"
  BY DEF FromString, IInv, SetInv, Setting
<1>2. s_datas[Node(l).name] = var[l]
  BY <1>1 DEF IInv, SetInv, Setting, RegistryInv
<1>3. CASE /\ NextNode(l)
           /\ Parses(Node(l).text, objects[var[l]].type) => objects[var[l]].val = Node(l).text.val
  <2>1. nodes' = [nodes EXCEPT ![l] = @ \ {First(l)}] /\ pc'[l] # "done"
    BY <1>3 DEF NextNode, Goto, IInv, TypeOK, Callers
  <2>2. Reached(l, First(l))
    BY <1>2, <1>3 DEF Reached, Node
  <2> QED BY <1>1, <2>1, <2>2, LoadGoesOn
<1>4. CASE Goto(l, "callback") /\ UNCHANGED nodes
  <2>1. pc'[l] # "done"
    BY <1>4 DEF Goto, IInv, TypeOK, Callers
  <2> QED BY <1>1, <1>4, <2>1, LoadKept
<1> QED BY <1>3, <1>4, Zenon DEF FromString

\* Every name is once in a document.
UniqueNames == \A d \in Documents : \A i, j \in DOMAIN d : d[i].name = d[j].name => i = j

\* The store reaches the node's variable, and no variable of another node.
LEMMA StoreLoads ==
  ASSUME IInv, NEW l \in Loaders, LoadInv(l), Store(l), UniqueNames
  PROVE  LoadInv(l)'
<1>1. /\ UNCHANGED <<doc, known, s_datas>>
      /\ nodes[l] # {}
      /\ var[l] \in DOMAIN objects
      /\ objects[var[l]].name = Node(l).name
      /\ s_datas[Node(l).name] = var[l]
  BY DEF Store, IInv, SetInv, Setting, RegistryInv
<1>2. nodes'[l] = nodes[l] \ {First(l)} /\ pc'[l] # "done"
  BY DEF Store, NextNode, Goto, IInv, TypeOK, Callers
<1>3. Stored(var[l], Node(l).text.val)
  BY StoreEffect
<1>4. ASSUME NEW i \in DOMAIN doc[l] \ nodes'[l] PROVE Reached(l, i)'
  <2>1. CASE i = First(l)
    BY <1>1, <1>3, <2>1 DEF Stored, Reached, Node
  <2>2. CASE i # First(l)
    <3>1. i \in DOMAIN doc[l] \ nodes[l] /\ Reached(l, i)
      BY <1>2, <2>2 DEF LoadInv
    <3>2. doc[l][i].name # Node(l).name
      BY <1>1, <2>2, FirstIsANode DEF IInv, UniqueNames, Node
    <3>3. CASE doc[l][i].name \in known[l]
      <4>1. doc[l][i].name \in Registered
        BY <3>3 DEF IInv, TypeOK
      <4>2. s_datas[doc[l][i].name] \in DOMAIN objects \ {var[l]}
        BY <1>1, <3>2, <4>1 DEF IInv, TypeOK, RegistryInv
      <4>3. objects'[s_datas[doc[l][i].name]] = objects[s_datas[doc[l][i].name]]
        BY <1>3, <4>2 DEF Stored
      <4> QED BY <1>1, <3>1, <4>3 DEF Reached
    <3>4. CASE doc[l][i].name \notin known[l]
      BY <1>1, <3>4 DEF Reached
    <3> QED BY <3>3, <3>4
  <2> QED BY <2>1, <2>2
<1> QED BY <1>1, <1>2, <1>4 DEF LoadInv

\* A step that neither moves the loop nor sets a variable.
LEMMA OthersLoad ==
  ASSUME IInv, NEW l \in Loaders, LoadInv(l),
         UNCHANGED <<doc, nodes, known>>, pc'[l] # "done" \/ pc'[l] = pc[l],
         UNCHANGED <<s_datas, objects>>
  PROVE  LoadInv(l)'
BY LoadKept DEF LoadInv

OneLoader == \A l, m \in Loaders : l = m

\* With one loader, every step keeps what the loop has behind it.
LEMMA LoadNext ==
  ASSUME LInv, [Next]_vars, NEW l \in Loaders, OneLoader, UniqueNames
  PROVE  LoadInv(l)'
<1> USE ConfigAssumption DEF LInv
<1>0. pc = [t \in Callers |-> pc[t]] /\ l \in Callers /\ l \notin Threads
  BY DEF IInv, TypeOK, Callers
<1>1. CASE UNCHANGED vars
  BY <1>1, OthersLoad DEF vars, lookup, visit, load
<1>2. ASSUME NEW t \in Callers, NEW n \in Names, NEW ty \in Types, Lookup(t, n, ty)
      PROVE  LoadInv(l)'
  <2>1. pc'[l] # "done" \/ pc'[l] = pc[l]
    BY <1>0, <1>2 DEF Lookup, Return, Goto
  <2> QED BY <1>2, <2>1, OthersLoad DEF Lookup, load
<1>3. ASSUME NEW t \in Callers, NEW n \in Names, NEW ty \in Types, Find(t, n, ty)
      PROVE  LoadInv(l)'
  <2>1. pc'[l] # "done" \/ pc'[l] = pc[l]
    BY <1>0, <1>3 DEF Find, Goto
  <2> QED BY <1>3, <2>1, OthersLoad DEF Find, load
<1>4. ASSUME NEW t \in Callers, LookupMismatch(t)
      PROVE  LoadInv(l)'
  <2>1. pc'[l] # "done" \/ pc'[l] = pc[l]
    BY <1>0, <1>4 DEF LookupMismatch, Return, Goto
  <2> QED BY <1>4, <2>1, OthersLoad DEF LookupMismatch, load
<1>5. ASSUME NEW t \in Callers, LookupCreate(t)
      PROVE  LoadInv(l)'
  <2>1. pc'[l] # "done" \/ pc'[l] = pc[l]
    BY <1>0, <1>5 DEF LookupCreate, Return, Goto
  <2>2. Created(name[t], type[t])
    BY <1>5, LookupCreateEffect
  <2>3. \A n \in Registered : s_datas'[n] = s_datas[n] /\ objects'[s_datas[n]] = objects[s_datas[n]]
    BY <2>2 DEF Created, IInv, TypeOK
  <2>4. UNCHANGED <<doc, nodes, known>>
    BY <1>5 DEF LookupCreate, load
  <2>5. pc'[l] = "done" => nodes[l] = {}
    BY <2>1 DEF LoadInv
  <2> QED BY <2>3, <2>4, <2>5, LoadKept
<1>6. ASSUME NEW t \in Threads, Visit(t) \/ VisitCall(t) \/ VisitReturn(t) \/ EndVisit(t)
      PROVE  LoadInv(l)'
  <2>1. pc'[l] = pc[l]
    BY <1>0, <1>6 DEF Visit, VisitCall, VisitReturn, EndVisit, Goto
  <2> QED BY <1>6, <2>1, OthersLoad DEF Visit, VisitCall, VisitReturn, EndVisit, load
<1>7. ASSUME NEW d \in Documents, LoadFromYaml(l, d)
      PROVE  LoadInv(l)'
  BY <1>7, LoadStarts
<1>8. ASSUME LookupBase(l) \/ FromString(l) \/ Store(l)
      PROVE  LoadInv(l)'
  BY <1>8, LookupBaseLoads, FromStringLoads, StoreLoads
<1>9. ASSUME ChangeCallback(l) \/ EndCallbacks(l)
      PROVE  LoadInv(l)'
  <2>1. pc'[l] # "done"
    BY <1>0, <1>9 DEF ChangeCallback, EndCallbacks, Goto
  <2> QED BY <1>9, <2>1, OthersLoad DEF ChangeCallback, EndCallbacks, load
<1>10. ASSUME EndLoad(l)
       PROVE  LoadInv(l)'
  BY <1>10, LoadKept DEF EndLoad, load
<1> QED BY <1>1, <1>2, <1>3, <1>4, <1>5, <1>6, <1>7, <1>8, <1>9, <1>10 DEF Next, OneLoader

\* A load that no other load runs beside, of a document with each name once, sets
\* every variable that was registered before it and that has a readable value in
\* the document.  With two loads, or a name twice, the last store wins.
THEOREM LoadsReachTheirVariables ==
  ASSUME OneLoader, UniqueNames
  PROVE  Spec => []LoadReachesAll
<1>1. Init => LInv
  BY InitInv
<1>2. ASSUME LInv, [Next]_vars PROVE LInv'
  <2>1. IInv'
    BY <1>2, NextInv DEF LInv
  <2>2. ASSUME NEW l \in Loaders PROVE LoadInv(l)'
    BY <1>2, LoadNext
  <2> QED BY <2>1, <2>2 DEF LInv
<1>3. LInv => LoadReachesAll
  BY DEF LInv, LoadInv, Reached, LoadReachesAll
<1> QED BY <1>1, <1>2, <1>3, PTL DEF Spec
=============================================================================
