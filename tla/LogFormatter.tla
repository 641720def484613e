---------------------------- MODULE LogFormatter ----------------------------
(***************************************************************************)
(* LogFormatter of src/src/log.cpp: init, which parses a log pattern, one  *)
(* step per turn of its two loops, and format, which writes an event.      *)
(* Characters are what the parser tells apart: "%", the braces ("open" and *)
(* "close"), the name of the date item ("d"), the name of any other known  *)
(* item ("m"), a letter that names no item ("a"), and everything else      *)
(* ("x").  Indices are 1-based, as in TLA+ sequences.                      *)
(***************************************************************************)
EXTENDS Naturals, Sequences

CONSTANTS
  Patterns,  \* the patterns to parse
  BufSize    \* the longest format whose date fits into the buffer of 64

ItemName == {"m", "d"}
Letter == ItemName \cup {"a"}   \* isalpha
Char == {"%", "open", "close", "x"} \cup Letter

ASSUME LogFormatterAssumption ==
  /\ Patterns \subseteq Seq(Char)
  /\ BufSize \in Nat

VARIABLES
  m_pattern, m_items, m_error,               \* the fields
  out,                                       \* what format wrote, item by item
  vec, str, i,                               \* the locals of init
  pos, fmt_begin, fmt_status, iwstr, iwfmt,  \* the locals of its inner loop
  pc

inner  == <<pos, fmt_begin, fmt_status, iwstr, iwfmt>>
fields == <<m_pattern, m_items, m_error, out>>
vars   == <<fields, vec, str, i, inner, pc>>

Init ==
  /\ m_pattern \in Patterns
  /\ m_items = <<>>
  /\ m_error = FALSE
  /\ out = <<>>
  /\ vec = <<>>
  /\ str = <<>>
  /\ i = 1
  /\ pos = 1
  /\ fmt_begin = 0
  /\ fmt_status = 0
  /\ iwstr = <<>>
  /\ iwfmt = <<>>
  /\ pc = "outer"

size == Len(m_pattern)
At(k) == m_pattern[k]
Tuple(s, f, type) == [s |-> s, fmt |-> f, type |-> type]

NotFlushed == vec  \* mutant of Flushed

\* The literal text collected so far, as an element of vec.
Flushed == IF str = <<>> THEN vec ELSE Append(vec, Tuple(str, <<>>, 0))

-----------------------------------------------------------------------------
(* The outer loop *)

Literal ==
  /\ pc = "outer" /\ i <= size
  /\ At(i) # "%"
  /\ str' = Append(str, At(i))
  /\ i' = i + 1
  /\ UNCHANGED <<fields, vec, inner, pc>>

IsDouble == i + 1 <= size /\ At(i + 1) = "%"

\* "%%": the literal is taken, and the loop goes on with the second "%".
DoublePercent ==
  /\ pc = "outer" /\ i <= size
  /\ At(i) = "%" /\ IsDouble
  /\ str' = Append(str, "%")
  /\ i' = i + 1
  /\ UNCHANGED <<fields, vec, inner, pc>>

Directive ==
  /\ pc = "outer" /\ i <= size
  /\ At(i) = "%" /\ ~IsDouble
  /\ pos' = i + 1
  /\ fmt_begin' = 0
  /\ fmt_status' = 0
  /\ iwstr' = <<>>
  /\ iwfmt' = <<>>
  /\ pc' = "inner"
  /\ UNCHANGED <<fields, vec, str, i>>

(* The inner loop *)

InInner == pc = "inner" /\ pos <= size
Name == SubSeq(m_pattern, i + 1, pos - 1)
Stops == fmt_status = 0 /\ At(pos) \notin Letter \cup {"open", "close"}

StopName ==
  /\ InInner /\ Stops
  /\ iwstr' = Name
  /\ pc' = "emit"
  /\ UNCHANGED <<fields, vec, str, i, pos, fmt_begin, fmt_status, iwfmt>>

OpenBrace ==
  /\ InInner /\ fmt_status = 0 /\ At(pos) = "open"
  /\ iwstr' = Name
  /\ fmt_begin' = pos
  /\ fmt_status' = 1
  /\ pos' = pos + 1
  /\ UNCHANGED <<fields, vec, str, i, iwfmt, pc>>

CloseBrace ==
  /\ InInner /\ fmt_status = 1 /\ At(pos) = "close"
  /\ iwfmt' = SubSeq(m_pattern, fmt_begin + 1, pos - 1)
  /\ fmt_status' = 0
  /\ pos' = pos + 1
  /\ pc' = "emit"
  /\ UNCHANGED <<fields, vec, str, i, fmt_begin, iwstr>>

\* ++pos; at the end of the pattern the rest is the name, if there is none yet.
Advance ==
  /\ InInner /\ ~Stops
  /\ At(pos) # (IF fmt_status = 0 THEN "open" ELSE "close")
  /\ pos' = pos + 1
  /\ iwstr' = IF pos' > size /\ iwstr = <<>> THEN SubSeq(m_pattern, i + 1, size) ELSE iwstr
  /\ UNCHANGED <<fields, vec, str, i, fmt_begin, fmt_status, iwfmt, pc>>

EndInner ==
  /\ pc = "inner" /\ pos > size
  /\ pc' = "emit"
  /\ UNCHANGED <<fields, vec, str, i, inner>>

(* Behind the inner loop *)

EmitItem ==
  /\ pc = "emit" /\ fmt_status = 0
  /\ vec' = Append(Flushed, Tuple(iwstr, iwfmt, 1))
  /\ str' = <<>>
  /\ i' = pos
  /\ pc' = "outer"
  /\ UNCHANGED <<fields, inner>>

\* Mutant of EmitError: no error text, and i stays on the "%".
EmitErrorStays ==
  /\ pc = "emit" /\ fmt_status = 1
  /\ m_error' = TRUE
  /\ pc' = "outer"
  /\ UNCHANGED <<m_pattern, m_items, out, vec, str, i, inner>>

\* An unclosed brace: the text before it is not flushed, and the characters
\* behind the "%" are read again as literals.
EmitError ==
  /\ pc = "emit" /\ fmt_status = 1
  /\ vec' = Append(vec, Tuple(<<"error">>, iwfmt, 0))
  /\ m_error' = TRUE
  /\ i' = i + 1
  /\ pc' = "outer"
  /\ UNCHANGED <<m_pattern, m_items, out, str, inner>>

(* The items: a name that is not in s_format_items becomes an error text *)
s_format_items == {<<c>> : c \in ItemName}
Known(v) == v.type = 0 \/ v.s \in s_format_items

\* The format of a date without one, "%Y-%m-%d %H:%M:%S"
DefaultDate == <<"default">>

\* The constructors of the items: only the date's uses its format.
DateFormat(f) == IF f = <<>> THEN DefaultDate ELSE f
Item(v) == IF v.type = 0 THEN Tuple(v.s, <<>>, 0)
           ELSE Tuple(v.s, IF v.s = <<"d">> THEN DateFormat(v.fmt) ELSE <<>>, 1)

MakeItems ==
  /\ pc = "outer" /\ i > size
  /\ m_items' = [k \in DOMAIN Flushed |->
                   IF Known(Flushed[k]) THEN Item(Flushed[k]) ELSE Tuple(<<"error">>, <<>>, 0)]
  /\ m_error' = (m_error \/ \E k \in DOMAIN Flushed : ~Known(Flushed[k]))
  /\ vec' = Flushed
  /\ pc' = "done"
  /\ UNCHANGED <<m_pattern, out, str, i, inner>>

(* format *)

Message == <<"message">>
Garbage == <<"garbage">>

\* strftime: a date that does not fit leaves the buffer undefined, and the
\* result that says so is not looked at.
Date(f) == IF Len(f) <= BufSize THEN {<<"date", f>>} ELSE {Garbage, <<>>}

\* What an item may write.
Output(item) ==
  IF item.type = 0 THEN {item.s} ELSE IF item.s = <<"d">> THEN Date(item.fmt) ELSE {Message}

Format ==
  /\ pc = "done"
  /\ out' \in {o \in [DOMAIN m_items -> UNION {Output(m_items[k]) : k \in DOMAIN m_items}] :
                 \A k \in DOMAIN m_items : o[k] \in Output(m_items[k])}
  /\ pc' = "formatted"
  /\ UNCHANGED <<m_pattern, m_items, m_error, vec, str, i, inner>>

Next ==
  \/ Literal \/ DoublePercent \/ Directive
  \/ StopName \/ OpenBrace \/ CloseBrace \/ Advance \/ EndInner
  \/ EmitItem \/ EmitError \/ MakeItems \/ Format

Spec == Init /\ [][Next]_vars /\ WF_vars(Next)

-----------------------------------------------------------------------------
(* The documented syntax: "%xxx %xxx{xxx} %%" (log.cpp:544) *)

Malformed == [ok |-> FALSE, items |-> <<>>]

\* An item in front of the items of the rest; neighbouring text is put together.
Join(item, rest) ==
  IF ~rest.ok THEN Malformed
  ELSE IF item.type = 0 /\ rest.items # <<>> /\ rest.items[1].type = 0
  THEN [ok |-> TRUE, items |-> <<Tuple(item.s \o rest.items[1].s, <<>>, 0)>> \o Tail(rest.items)]
  ELSE [ok |-> TRUE, items |-> <<item>> \o rest.items]

CharAt(p, k) == IF k <= Len(p) THEN p[k] ELSE "x"

\* The closing braces behind k, and the first of them
Ends(p, k) == {j \in (k + 1)..Len(p) : p[j] = "close"}
Close(p, k) == CHOOSE j \in Ends(p, k) : \A e \in Ends(p, k) : j <= e

\* What the characters of p from k on mean, given what those further on mean: text,
\* "%%", an item whose name ends where no letter or brace follows, or an item with
\* a format.
Meaning(p, from, k) ==
  IF k > Len(p) THEN [ok |-> TRUE, items |-> <<>>]
  ELSE IF p[k] # "%" THEN Join(Tuple(<<p[k]>>, <<>>, 0), from[k + 1])
  ELSE IF CharAt(p, k + 1) = "%" THEN Join(Tuple(<<"%">>, <<>>, 0), from[k + 2])
  ELSE IF CharAt(p, k + 1) \in ItemName /\ CharAt(p, k + 2) \notin Letter \cup {"open", "close"}
  THEN Join(Tuple(<<p[k + 1]>>, <<>>, 1), from[k + 2])
  ELSE IF CharAt(p, k + 1) \in ItemName /\ CharAt(p, k + 2) = "open" /\ Ends(p, k) # {}
  THEN Join(Tuple(<<p[k + 1]>>, SubSeq(p, k + 3, Close(p, k) - 1), 1), from[Close(p, k) + 1])
  ELSE Malformed

Meanings(p) ==
  LET from[k \in 1..(Len(p) + 2)] == Meaning(p, from, k) IN from

Reference(p) == Meanings(p)[1]

-----------------------------------------------------------------------------
(* Properties *)

\* The text of the documented items for an event: a date in its format, or in the
\* default one; anything where it is longer than the buffer.
Written(item) ==
  LET f == IF item.fmt = <<>> THEN DefaultDate ELSE item.fmt IN
  IF item.type = 0 THEN item.s
  ELSE IF item.s = <<"m">> THEN Message
  ELSE IF Len(f) > BufSize THEN <<"any">> ELSE <<"date", f>>

HasDouble == \E k \in 1..(size - 1) : At(k) = "%" /\ At(k + 1) = "%"

\* "the formats %xxx %xxx{xxx} %%" (log.cpp:544): a pattern of the documented
\* syntax gives no error, and writes exactly its text, its items and its dates;
\* any other one sets m_error.  The code keeps this for patterns without "%%",
\* whose second "%" it reads again as the beginning of an item (log.cpp:556-559),
\* and but for dates that do not fit (log.cpp:208).
ParsesTheSyntax ==
  LET ref == Reference(m_pattern) IN
  pc = "formatted" /\ ~HasDouble =>
    /\ ref.ok = ~m_error
    /\ ref.ok => /\ Len(out) = Len(ref.items)
                 /\ \A k \in DOMAIN out :
                      Written(ref.items[k]) \in {out[k], <<"any">>}

\* An event can be formatted by what init makes of every pattern, although its
\* inner loop sets back i: init ends.
Terminates == <>(pc = "formatted")
=============================================================================
