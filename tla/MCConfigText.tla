---------------------------- MODULE MCConfigText ----------------------------
(***************************************************************************)
(* For "logs", all documents with one logger and up to two appenders, and  *)
(* documents that define a logger twice.  For the other variables, the     *)
(* containers of int and string up to two levels deep, with values of up   *)
(* to two elements, and all YAML nodes of that depth as texts.             *)
(***************************************************************************)
EXTENDS ConfigText

CONSTANTS f0, f1, BAD

AppenderNodes ==
  [type : {NULL, "FileLogAppender", "StdoutLogAppender", "Other"}, file : {NULL, "log.txt"},
   level : {"DEBUG"}, formatter : {NULL, EMPTY, f1, BAD}]
LoggerNodes(names, levels, formatters, appenders) ==
  [name : names, level : levels, formatter : formatters, appenders : appenders]

One == LoggerNodes({NULL, "root"}, {NULL, "debug", "other"}, {NULL, EMPTY, f0, f1, BAD},
                   {<<>>} \cup {<<a>> : a \in AppenderNodes})
Two == LoggerNodes({"root"}, {"FATAL"}, {NULL, f1}, {<<a, b>> : a, b \in AppenderNodes})
Few == LoggerNodes({"root", "system"}, {NULL, "DEBUG"}, {NULL, f1}, {<<>>})

MCLogTexts == {<<n>> : n \in One \cup Two} \cup {<<m, n>> : m, n \in Few}

-----------------------------------------------------------------------------
Keys == {"a", "k"}
UpToTwo(S) == {<<>>} \cup {<<x>> : x \in S} \cup {<<x, y>> : x, y \in S}
MapsOf(S) == UNION {[K -> S] : K \in SUBSET Keys}

\* Strings: plain, a number, and each kind that is not plain; one that is a map.
Leaf == {Lit(s) : s \in {"a", "1", "", "~", Comment, QuotedA, QuotedTilde, Broken}}
          \cup {NodeText(MapNode(<<<<"k", Null>>>>))}
FewStrings == {Lit("a"), Lit(""), Lit(QuotedA), Lit(Broken)}

Of(c, S) == CASE c = "seq" -> UpToTwo(S) [] c = "set" -> {ToSet(s) : s \in UpToTwo(S)} [] OTHER -> MapsOf(S)
Containers == {"seq", "set", "map"}

Flat == {<<<<"string">>, s>> : s \in Leaf}
          \cup UNION {{<<<<c, "string">>, v>> : v \in Of(c, Leaf)} : c \in Containers}
          \cup UNION {{<<<<c, "int">>, v>> : v \in Of(c, {1, 2})} : c \in Containers}
Nested == UNION {{<<<<c, d, "string">>, v>> : v \in Of(c, Of(d, FewStrings))} : c, d \in Containers}
MCValues == Flat \cup Nested

Nodes0 == {Null, Scalar("a"), Scalar("~"), Scalar("1")}
Pairs(S) == {<<k, n>> : k \in Keys, n \in S}
Nodes1 == Nodes0 \cup {SeqNode(s) : s \in UpToTwo(Nodes0)} \cup {MapNode(s) : s \in UpToTwo(Pairs(Nodes0))}
Nodes2 == Nodes1 \cup {SeqNode(<<n>>) : n \in Nodes1} \cup {MapNode(<<<<"k", n>>>>) : n \in Nodes1}
AllTypes == {<<x>> : x \in {"int", "string"}} \cup {<<c, x>> : c \in Containers, x \in {"int", "string"}}
              \cup {<<c, d, "string">> : c, d \in Containers}
MCTexts == AllTypes \X ({Emit(n) : n \in Nodes2} \cup Leaf)
=============================================================================
