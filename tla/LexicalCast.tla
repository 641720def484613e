---------------------------- MODULE LexicalCast ----------------------------
(***************************************************************************)
(* LexicalCast between text and the types of configuration variables,      *)
(* src/src/config.h: int and std::string, and the containers of them.  A   *)
(* type is the sequence of its constructors: <<"map", "seq", "int">> is    *)
(* map<string, vector<int>>.  vector and list are "seq", set and           *)
(* unordered_set are "set", map and unordered_map are "map".               *)
(*                                                                         *)
(* A text is a literal of one of the kinds that YAML tells apart, or the   *)
(* emission of a node.  What may throw returns a sequence: of its result,  *)
(* or empty.                                                               *)
(***************************************************************************)
EXTENDS Naturals, Sequences, SequencesExt

Null == [kind |-> "Null"]
Scalar(s) == [kind |-> "Scalar", scalar |-> s]
SeqNode(items) == [kind |-> "Sequence", items |-> items]
MapNode(pairs) == [kind |-> "Map", pairs |-> pairs]   \* of <<key, node>>

Lit(s) == [lit |-> s]
NodeText(n) == [node |-> n]

\* The literals that are not plain scalars.
Comment     == "# comment"
QuotedA     == "'a'"
QuotedTilde == "\"~\""
Broken      == "["

\* YAML::Load
Load(t) ==
  CASE "node" \in DOMAIN t              -> <<t.node>>
    [] t = Lit(Broken)                  -> <<>>
    [] t \in {Lit(""), Lit("~"), Lit(Comment)} -> <<Null>>
    [] t = Lit(QuotedA)                 -> <<Scalar("a")>>
    [] t = Lit(QuotedTilde)             -> <<Scalar("~")>>
    [] OTHER                            -> <<Scalar(t.lit)>>

\* ss << node: a scalar that would not be read as itself is quoted.
Emit(n) ==
  CASE n = Null        -> Lit("~")
    [] n = Scalar("~") -> Lit(QuotedTilde)
    [] n.kind = "Scalar" /\ n # Scalar("~") -> Lit(n.scalar)
    [] OTHER           -> NodeText(n)

\* The results of the elements, if none of them throws.
All(results) ==
  IF \E i \in DOMAIN results : results[i] = <<>> THEN <<>>
  ELSE <<[i \in DOMAIN results |-> results[i][1]]>>

\* The next call on a result, if there is one.
Then(result, Op(_)) == IF result = <<>> THEN <<>> ELSE Op(result[1])

-----------------------------------------------------------------------------
(* To a string *)

IntText == <<"1", "2">>

\* Mutant of EmitSeq: node = ... for node.push_back(...).
EmitSeqLast(items) == <<Emit(IF items = <<>> THEN Null ELSE Last(items))>>

\* A node that nothing is pushed into stays Null.
EmitSeq(items) == <<Emit(IF items = <<>> THEN Null ELSE SeqNode(items))>>

RECURSIVE ToStr(_, _)

\* YAML::Load(LexicalCast<T, std::string>()(i)) of each element
LoadEach(ty, values) == All([i \in DOMAIN values |-> Then(ToStr(ty, values[i]), Load)])

\* node[key] = ... of each member
EmitMap(keys, nodes) ==
  <<Emit(IF nodes = <<>> THEN Null ELSE MapNode([i \in DOMAIN nodes |-> <<keys[i], nodes[i]>>]))>>

SeqToStr(ty, v) == Then(LoadEach(ty, v), EmitSeq)
SetToStr(ty, v) == Then(LoadEach(ty, SetToSeq(v)), EmitSeq)
MapToStr(ty, v) ==
  LET keys == SetToSeq(DOMAIN v)
      Pairs(nodes) == EmitMap(keys, nodes)
  IN Then(LoadEach(ty, [i \in DOMAIN keys |-> v[keys[i]]]), Pairs)

ToStr(ty, v) ==
  CASE Head(ty) = "int"    -> <<Lit(IntText[v])>>
    [] Head(ty) = "string" -> <<v>>
    [] Head(ty) = "seq"    -> SeqToStr(Tail(ty), v)
    [] Head(ty) = "set"    -> SetToStr(Tail(ty), v)
    [] Head(ty) = "map"    -> MapToStr(Tail(ty), v)

-----------------------------------------------------------------------------
(* From a string *)

\* Mutant of Elements: ss.str("") is missing, texts pile up.
ElementsPiled(n) ==
  IF n.kind = "Sequence"
  THEN [i \in DOMAIN n.items |-> IF i = 1 THEN Emit(n.items[i]) ELSE Lit("piled")]
  ELSE <<>>

\* The texts of node[i], i < node.size(): a scalar has none, and node[i] of a map
\* is undefined, which is emitted as "".
Elements(n) ==
  CASE n.kind = "Sequence" -> [i \in DOMAIN n.items |-> Emit(n.items[i])]
    [] n.kind = "Map"      -> [i \in DOMAIN n.pairs |-> Lit("")]
    [] OTHER               -> <<>>

\* it->first.Scalar() and the text of it->second.  The elements of a sequence have
\* no first, and Scalar throws.
Members(n) ==
  CASE n.kind = "Map"      -> <<[i \in DOMAIN n.pairs |-> <<n.pairs[i][1], Emit(n.pairs[i][2])>>]>>
    [] n.kind = "Sequence" /\ n.items # <<>> -> <<>>
    [] OTHER               -> <<<<>>>>

\* insert keeps the member that is there.
FirstOfEach(keys, values) ==
  [k \in ToSet(keys) |->
     values[CHOOSE i \in DOMAIN keys : keys[i] = k /\ \A j \in 1 .. i - 1 : keys[j] # k]]

RECURSIVE FromStr(_, _)

CastEach(ty, texts) == All([i \in DOMAIN texts |-> FromStr(ty, texts[i])])

SeqFromStr(ty, t) ==
  LET Cast(n) == CastEach(ty, Elements(n))
  IN Then(Load(t), Cast)

SetFromStr(ty, t) ==
  LET Insert(values) == <<ToSet(values)>>
  IN Then(SeqFromStr(ty, t), Insert)

MapFromStr(ty, t) ==
  LET Cast(ms) == LET Insert(values) == <<FirstOfEach([i \in DOMAIN ms |-> ms[i][1]], values)>>
                  IN Then(CastEach(ty, [i \in DOMAIN ms |-> ms[i][2]]), Insert)
  IN Then(Then(Load(t), Members), Cast)

FromStr(ty, t) ==
  CASE Head(ty) = "int"    -> SetToSeq({i \in DOMAIN IntText : t = Lit(IntText[i])})
    [] Head(ty) = "string" -> <<t>>
    [] Head(ty) = "seq"    -> SeqFromStr(Tail(ty), t)
    [] Head(ty) = "set"    -> SetFromStr(Tail(ty), t)
    [] Head(ty) = "map"    -> MapFromStr(Tail(ty), t)

-----------------------------------------------------------------------------
(* What is kept of a value that is written and read again: the reference.   *)

\* A default_value: of a container, the empty one.
DefaultOf(ty) ==
  CASE Head(ty) = "int"    -> 1
    [] Head(ty) = "string" -> Lit("")
    [] Head(ty) = "set"    -> {}
    [] OTHER               -> <<>>

RECURSIVE Leaves(_, _), Reread(_, _)

\* The strings in a value.
Leaves(ty, v) ==
  CASE Head(ty) = "int"    -> {}
    [] Head(ty) = "string" -> {v}
    [] Head(ty) = "set"    -> UNION {Leaves(Tail(ty), x) : x \in v}
    [] OTHER               -> UNION {Leaves(Tail(ty), v[i]) : i \in DOMAIN v}

\* The value with each string replaced by the YAML node that it reads as.
Reread(ty, v) ==
  CASE Head(ty) = "int"    -> v
    [] Head(ty) = "string" -> Emit(Load(v)[1])
    [] Head(ty) = "set"    -> {Reread(Tail(ty), x) : x \in v}
    [] OTHER               -> [i \in DOMAIN v |-> Reread(Tail(ty), v[i])]

\* No conversion inside the value throws: a string alone is not converted, and in a
\* container every one has to be YAML.
Convertible(ty, v) == Len(ty) = 1 \/ \A s \in Leaves(ty, v) : Load(s) # <<>>

Kept(ty, v) == IF Len(ty) = 1 THEN v ELSE Reread(ty, v)
=============================================================================
