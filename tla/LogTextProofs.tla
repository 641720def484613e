---------------------------- MODULE LogTextProofs ----------------------------
(***************************************************************************)
(* What the texts of the log mean, whatever they are: init and format do   *)
(* with every pattern without "%%" what the documented syntax says, and    *)
(* the "logs" variable writes documents that are read as what was written, *)
(* for patterns, documents and lists of appenders of any length.           *)
(*                                                                         *)
(* The first part is about LogFormatter (variables m_pattern to pc), the   *)
(* second about LogsText (variables stage to loggers).                     *)
(***************************************************************************)
EXTENDS LogFormatter, LogsText, SequenceTheorems, FiniteSetTheorems, WellFoundedInduction, TLAPS

(* Naturals *)

LessThan == {ss \in Nat \X Nat : ss[1] < ss[2]}

\* Every set of naturals that is not empty has a least element.
LEMMA LeastElement ==
  ASSUME NEW T, T \subseteq Nat, T # {}
  PROVE  \E x \in T : \A y \in T : x <= y
<1>1. IsWellFoundedOn(LessThan, Nat)
  BY NatLessThanWellFounded DEF OpToRel, LessThan
<1>2. PICK x \in T : \A y \in T : ~(<<y, x>> \in LessThan)
  BY <1>1, WFMin, Zenon
<1>3. ASSUME NEW y \in T PROVE x <= y
  <2>1. <<y, x>> \in LessThan <=> y < x
    BY DEF LessThan
  <2> QED BY <1>2, <2>1
<1> QED BY <1>3

\* Induction, for a set instead of a predicate.
LEMMA SetInduction ==
  ASSUME NEW T \in SUBSET Nat, 0 \in T, \A n \in Nat : n \in T => n + 1 \in T
  PROVE  \A n \in Nat : n \in T
<1> SUFFICES ASSUME Nat \ T # {} PROVE FALSE
  OBVIOUS
<1>1. PICK x \in Nat \ T : \A y \in Nat \ T : x <= y
  BY LeastElement
<1>2. x - 1 \in Nat /\ x - 1 \in T
  BY <1>1
<1> QED BY <1>1, <1>2

-----------------------------------------------------------------------------
(* LogFormatter: the reference *)

\* Texts, the elements of vec, and what a pattern may mean.
Word == Char \cup {"error"}
Tuples == [s : Seq(Word), fmt : Seq(Word), type : {0, 1}]
Result == [ok : BOOLEAN, items : Seq(Tuples)]

Text(s) == Tuple(s, <<>>, 0)

\* Patterns are texts.
LEMMA CharsAreWords ==
  ASSUME NEW p \in Seq(Char)
  PROVE  /\ p \in Seq(Word)
         /\ \A k \in 1..Len(p) : p[k] \in Word
<1>1. Char \subseteq Word
  BY DEF Word
<1>2. p \in [1..Len(p) -> Word]
  BY <1>1
<1> QED BY <1>2, IsASeq

\* A part of a pattern, and one character of it, are texts.
LEMMA PartsAreWords ==
  ASSUME NEW p \in Seq(Char), NEW a \in Nat \ {0}, NEW b \in Int, b <= Len(p)
  PROVE  SubSeq(p, a, b) \in Seq(Word)
<1>1. p \in Seq(Word)
  BY CharsAreWords
<1> QED BY <1>1

\* Join keeps the type.
LEMMA JoinType ==
  ASSUME NEW item \in Tuples, NEW rest \in Result
  PROVE  Join(item, rest) \in Result
<1>1. CASE ~rest.ok
  BY <1>1 DEF Join, Malformed, Result
<1>2. CASE rest.ok /\ item.type = 0 /\ rest.items # <<>> /\ rest.items[1].type = 0
  <2>1. PICK s \in Seq(Tuples) : s = rest.items /\ Len(s) # 0
    BY <1>2 DEF Result
  <2>2. item.s \o s[1].s \in Seq(Word)
    <3>1. s[1] \in Tuples
      BY <2>1
    <3> QED BY <3>1 DEF Tuples
  <2>3. Tail(s) \in Seq(Tuples) /\ Tuple(item.s \o s[1].s, <<>>, 0) \in Tuples
    BY <2>1, <2>2 DEF Tuples, Tuple
  <2>4. <<Tuple(item.s \o s[1].s, <<>>, 0)>> \o Tail(s) \in Seq(Tuples)
    BY <2>3
  <2> QED BY <1>2, <2>1, <2>4 DEF Join, Result
<1>3. CASE rest.ok /\ ~(item.type = 0 /\ rest.items # <<>> /\ rest.items[1].type = 0)
  <2>1. <<item>> \o rest.items \in Seq(Tuples)
    BY DEF Result
  <2> QED BY <1>3, <2>1 DEF Join, Result
<1> QED BY <1>1, <1>2, <1>3

\* The parts of a sequence with an element in front.
LEMMA ConsParts ==
  ASSUME NEW item \in Tuples, NEW v \in Seq(Tuples), NEW w, w = <<item>> \o v
  PROVE  w \in Seq(Tuples) /\ w # <<>> /\ Len(w) = Len(v) + 1 /\ w[1] = item /\ Tail(w) = v
<1>1. w \in Seq(Tuples) /\ Len(w) = Len(v) + 1 /\ w[1] = item
  OBVIOUS
<1>2. Tail(w) \in Seq(Tuples) /\ Len(Tail(w)) = Len(v)
  BY <1>1
<1>3. \A k \in 1..Len(v) : Tail(w)[k] = v[k]
  BY <1>1
<1>4. Tail(w) = v
  BY <1>2, <1>3, SeqEqual
<1> QED BY <1>1, <1>4

\* Join with a rest that begins with text, and with one that does not.
LEMMA JoinOntoText ==
  ASSUME NEW s \in Seq(Word), NEW u \in Seq(Word), NEW v \in Seq(Tuples), NEW rest \in Result,
         rest.ok, rest.items = <<Text(u)>> \o v
  PROVE  Join(Text(s), rest) = [ok |-> TRUE, items |-> <<Text(s \o u)>> \o v]
<1>1. Text(u) \in Tuples
  BY DEF Text, Tuple, Tuples
<1>2. PICK w : w = rest.items
  OBVIOUS
<1>3. w # <<>> /\ w[1] = Text(u) /\ Tail(w) = v
  BY <1>1, <1>2, ConsParts
<1>4. w[1].type = 0 /\ w[1].s = u /\ Text(s).type = 0 /\ Text(s).s = s
  BY <1>3 DEF Text, Tuple
<1>5. Join(Text(s), rest) = [ok |-> TRUE, items |-> <<Tuple(Text(s).s \o w[1].s, <<>>, 0)>> \o Tail(w)]
  BY <1>2, <1>3, <1>4 DEF Join
<1> QED BY <1>3, <1>4, <1>5 DEF Text

\* Nothing is merged with an item that is no text.
LEMMA JoinOntoItem ==
  ASSUME NEW item \in Tuples, NEW rest \in Result, rest.ok,
         item.type = 1 \/ rest.items = <<>> \/ rest.items[1].type = 1
  PROVE  Join(item, rest) = [ok |-> TRUE, items |-> <<item>> \o rest.items]
BY DEF Join

\* Text in front of text is one text.
LEMMA JoinText ==
  ASSUME NEW s \in Seq(Word), NEW t \in Seq(Word), NEW rest \in Result
  PROVE  Join(Text(s), Join(Text(t), rest)) = Join(Text(s \o t), rest)
<1> DEFINE x == Join(Text(t), rest)
<1>1. Text(t) \in Tuples /\ Text(s \o t) \in Tuples
  BY DEF Text, Tuple, Tuples
<1>2. x \in Result
  BY <1>1, JoinType
<1>3. CASE ~rest.ok
  BY <1>3 DEF Join, Malformed
<1>4. CASE rest.ok /\ (rest.items = <<>> \/ rest.items[1].type = 1)
  <2>1. x = [ok |-> TRUE, items |-> <<Text(t)>> \o rest.items]
    BY <1>1, <1>4, JoinOntoItem
  <2>2. Join(Text(s), x) = [ok |-> TRUE, items |-> <<Text(s \o t)>> \o rest.items]
    <3> HIDE DEF x
    <3>1. x.ok /\ x.items = <<Text(t)>> \o rest.items /\ rest.items \in Seq(Tuples)
      BY <2>1 DEF Result
    <3> QED BY <1>2, <3>1, JoinOntoText
  <2>3. Join(Text(s \o t), rest) = [ok |-> TRUE, items |-> <<Text(s \o t)>> \o rest.items]
    BY <1>1, <1>4, JoinOntoItem
  <2> QED BY <2>2, <2>3
<1>5. CASE rest.ok /\ rest.items # <<>> /\ rest.items[1].type # 1
  <2>1. PICK v \in Seq(Tuples) : v = Tail(rest.items)
    <3>1. rest.items \in Seq(Tuples) /\ Len(rest.items) # 0
      BY <1>5 DEF Result
    <3>2. Tail(rest.items) \in Seq(Tuples)
      BY <3>1
    <3> QED BY <3>2
  <2>2. PICK u \in Seq(Word) : u = rest.items[1].s /\ rest.items[1].type = 0
    <3>1. rest.items[1] \in Tuples
      BY <1>5 DEF Result
    <3> QED BY <1>5, <3>1 DEF Tuples
  <2>3. x = [ok |-> TRUE, items |-> <<Text(t \o u)>> \o v]
    BY <1>5, <2>1, <2>2 DEF Join, Text, Tuple
  <2>4. Join(Text(s), x) = [ok |-> TRUE, items |-> <<Text(s \o (t \o u))>> \o v]
    <3> HIDE DEF x
    <3>0. t \o u \in Seq(Word)
      OBVIOUS
    <3>1. PICK y \in Seq(Word) : y = t \o u
      BY <3>0
    <3>2. x.ok /\ x.items = <<Text(y)>> \o v
      BY <2>3, <3>1
    <3>3. Join(Text(s), x) = [ok |-> TRUE, items |-> <<Text(s \o y)>> \o v]
      BY <1>2, <3>2, JoinOntoText
    <3> QED BY <3>1, <3>3
  <2>5. Join(Text(s \o t), rest) = [ok |-> TRUE, items |-> <<Text((s \o t) \o u)>> \o v]
    BY <1>5, <2>1, <2>2 DEF Join, Text, Tuple
  <2>6. s \o (t \o u) = (s \o t) \o u
    BY ConcatAssociative
  <2> QED BY <2>4, <2>5, <2>6
<1> QED BY <1>3, <1>4, <1>5

\* The first closing brace.
LEMMA CloseIsFirst ==
  ASSUME NEW p \in Seq(Char), NEW k \in Nat, Ends(p, k) # {}
  PROVE  Close(p, k) \in Ends(p, k) /\ \A e \in Ends(p, k) : Close(p, k) <= e
<1>0. Len(p) \in Nat
  OBVIOUS
<1>1. Ends(p, k) \subseteq Nat
  BY <1>0 DEF Ends
<1>2. \E j \in Ends(p, k) : \A e \in Ends(p, k) : j <= e
  BY <1>1, LeastElement
<1> QED BY <1>2, Zenon DEF Close

\* What characters mean depends on later ones only.
LEMMA MeaningLooksAhead ==
  ASSUME NEW p \in Seq(Char), NEW k \in 1..(Len(p) + 2), NEW f, NEW g,
         \A j \in (k + 1)..(Len(p) + 2) : f[j] = g[j]
  PROVE  Meaning(p, f, k) = Meaning(p, g, k)
<1>1. Len(p) \in Nat
  OBVIOUS
<1>2. CASE k > Len(p)
  BY <1>1, <1>2 DEF Meaning
<1>3. CASE k <= Len(p)
  <2>1. f[k + 1] = g[k + 1] /\ f[k + 2] = g[k + 2]
    BY <1>1, <1>3
  <2>2. Ends(p, k) # {} => f[Close(p, k) + 1] = g[Close(p, k) + 1]
    <3> SUFFICES ASSUME Ends(p, k) # {} PROVE f[Close(p, k) + 1] = g[Close(p, k) + 1]
      OBVIOUS
    <3>0. k \in Nat
      BY <1>1
    <3>1. Close(p, k) \in Ends(p, k)
      BY <3>0, CloseIsFirst
    <3>2. Close(p, k) + 1 \in (k + 1)..(Len(p) + 2)
      BY <1>1, <3>1 DEF Ends
    <3> QED BY <3>2
  <2> QED BY <2>1, <2>2 DEF Meaning
<1> QED BY <1>1, <1>2, <1>3

\* The meanings of the last d positions.
Tailwise(p, d, g) ==
  g = [k \in (Len(p) + 3 - d)..(Len(p) + 2) |-> Meaning(p, g, k)]

\* The recursive definition of the reference defines a function.
LEMMA MeaningsExist ==
  ASSUME NEW p \in Seq(Char)
  PROVE  \E g : g = [k \in 1..(Len(p) + 2) |-> Meaning(p, g, k)]
<1> DEFINE n == Len(p) + 2
           T == {d \in Nat : d <= n => \E g : Tailwise(p, d, g)}
<1>1. n \in Nat /\ Len(p) \in Nat
  OBVIOUS
<1>2. 0 \in T
  <2>1. \A k \in (Len(p) + 3 - 0)..(Len(p) + 2) : FALSE
    BY <1>1
  <2>2. (Len(p) + 3 - 0)..(Len(p) + 2) = {}
    BY <2>1
  <2>3. PICK g : g = [k \in {} |-> 0]
    OBVIOUS
  <2>4. [k \in {} |-> 0] = [k \in {} |-> Meaning(p, g, k)]
    OBVIOUS
  <2>5. Tailwise(p, 0, g)
    BY <2>2, <2>3, <2>4 DEF Tailwise
  <2> QED BY <2>5
<1>3. ASSUME NEW d \in Nat, d \in T PROVE d + 1 \in T
  <2> SUFFICES ASSUME d + 1 <= n PROVE \E h : Tailwise(p, d + 1, h)
    OBVIOUS
  <2>1. PICK g : Tailwise(p, d, g)
    BY <1>1, <1>3
  <2> DEFINE m == Len(p) + 2 - d
             h == [k \in m..n |-> IF k = m THEN Meaning(p, g, m) ELSE g[k]]
  <2>2. m \in 1..n /\ Len(p) + 3 - d = m + 1 /\ Len(p) + 3 - (d + 1) = m
    BY <1>1
  <2>3. \A k \in (m + 1)..n : g[k] = Meaning(p, g, k) /\ h[k] = g[k]
    <3>1. g = [k \in (m + 1)..n |-> Meaning(p, g, k)]
      BY <2>1, <2>2 DEF Tailwise
    <3>2. \A k \in (m + 1)..n : g[k] = Meaning(p, g, k)
      BY <3>1
    <3> QED BY <1>1, <2>2, <3>2
  <2>4. ASSUME NEW k \in m..n PROVE h[k] = Meaning(p, h, k)
    <3>1. k \in 1..n
      BY <1>1, <2>2
    <3>2. \A j \in (k + 1)..n : g[j] = h[j]
      BY <1>1, <2>2, <2>3
    <3> HIDE DEF h
    <3>3. Meaning(p, g, k) = Meaning(p, h, k)
      BY <3>1, <3>2, MeaningLooksAhead
    <3>4. h[k] = Meaning(p, g, k)
      <4>1. CASE k = m
        BY <1>1, <2>2, <4>1 DEF h
      <4>2. CASE k \in (m + 1)..n
        BY <2>3, <4>2
      <4> QED BY <1>1, <2>2, <4>1, <4>2
    <3> QED BY <3>3, <3>4
  <2>5. h = [k \in m..n |-> Meaning(p, h, k)]
    BY <2>4
  <2>6. Tailwise(p, d + 1, h)
    BY <2>2, <2>5 DEF Tailwise
  <2> QED BY <2>6
<1>4. n \in T
  <2>1. T \in SUBSET Nat
    OBVIOUS
  <2> HIDE DEF T
  <2> QED BY <1>1, <1>2, <1>3, <2>1, SetInduction
<1>5. PICK g : Tailwise(p, n, g)
  BY <1>1, <1>4
<1>6. Len(p) + 3 - n = 1
  BY <1>1
<1> QED BY <1>5, <1>6 DEF Tailwise

\* The reference satisfies its definition.
LEMMA MeaningsDef ==
  ASSUME NEW p \in Seq(Char), NEW k \in 1..(Len(p) + 2)
  PROVE  Meanings(p)[k] = Meaning(p, Meanings(p), k)
<1>1. Meanings(p) = [j \in 1..(Len(p) + 2) |-> Meaning(p, Meanings(p), j)]
  BY MeaningsExist DEF Meanings
<1> QED BY <1>1

\* What is not malformed is well-formed.
LEMMA JoinIsSound ==
  ASSUME NEW item, NEW rest
  PROVE  Join(item, rest).ok \/ Join(item, rest) = Malformed
BY DEF Join

\* What a pattern means is well-typed when what its later parts mean is.
LEMMA MeaningType ==
  ASSUME NEW p \in Seq(Char), NEW k \in 1..(Len(p) + 2), NEW f,
         \A j \in (k + 1)..(Len(p) + 2) : f[j] \in Result
  PROVE  /\ Meaning(p, f, k) \in Result
         /\ Meaning(p, f, k).ok \/ Meaning(p, f, k) = Malformed
<1>1. Len(p) \in Nat /\ k \in Nat
  OBVIOUS
<1>2. CASE k > Len(p)
  BY <1>1, <1>2 DEF Meaning, Result
<1>3. CASE k <= Len(p)
  <2>1. f[k + 1] \in Result /\ f[k + 2] \in Result
    BY <1>1, <1>3
  <2>2. Malformed \in Result
    BY DEF Malformed, Result
  <2>3. \A c \in Word, u \in Seq(Word), kind \in {0, 1} : Tuple(<<c>>, u, kind) \in Tuples
    BY DEF Tuple, Tuples
  <2>4. \A c \in Word, kind \in {0, 1} : Tuple(<<c>>, <<>>, kind) \in Tuples
    BY DEF Tuple, Tuples
  <2>5. p[k] \in Word /\ "%" \in Word
    BY <1>1, <1>3, CharsAreWords DEF Word, Char
  <2>6. ASSUME CharAt(p, k + 1) \in ItemName PROVE k + 1 <= Len(p) /\ p[k + 1] \in Word
    <3>1. k + 1 <= Len(p)
      BY <1>1, <2>6 DEF CharAt, Letter, ItemName
    <3> QED BY <1>1, <3>1, CharsAreWords
  <2>7. CASE p[k] # "%"
    BY <1>1, <1>3, <2>1, <2>4, <2>5, <2>7, JoinType, JoinIsSound DEF Meaning
  <2>8. CASE p[k] = "%" /\ CharAt(p, k + 1) = "%"
    BY <1>1, <1>3, <2>1, <2>4, <2>5, <2>8, JoinType, JoinIsSound DEF Meaning
  <2>9. CASE /\ p[k] = "%" /\ CharAt(p, k + 1) \in ItemName
             /\ CharAt(p, k + 2) \notin Letter \cup {"open", "close"}
    <3>1. CharAt(p, k + 1) # "%"
      BY <2>9 DEF Letter, ItemName
    <3>2. Meaning(p, f, k) = Join(Tuple(<<p[k + 1]>>, <<>>, 1), f[k + 2])
      BY <1>1, <1>3, <2>9, <3>1 DEF Meaning
    <3> QED BY <2>1, <2>4, <2>6, <2>9, <3>2, JoinType, JoinIsSound
  <2>10. CASE /\ p[k] = "%" /\ CharAt(p, k + 1) \in ItemName
              /\ CharAt(p, k + 2) = "open" /\ Ends(p, k) # {}
    <3>1. CharAt(p, k + 1) # "%"
      BY <2>10 DEF Letter, ItemName
    <3>2. PICK e : e = Close(p, k)
      OBVIOUS
    <3>3. e \in (k + 1)..Len(p)
      BY <1>1, <2>10, <3>2, CloseIsFirst DEF Ends
    <3>4. Meaning(p, f, k) = Join(Tuple(<<p[k + 1]>>, SubSeq(p, k + 3, e - 1), 1), f[e + 1])
      BY <1>1, <1>3, <2>10, <3>1, <3>2 DEF Meaning
    <3>5. f[e + 1] \in Result
      BY <1>1, <3>3
    <3>6. SubSeq(p, k + 3, e - 1) \in Seq(Word)
      BY <1>1, <3>3, PartsAreWords
    <3>7. Tuple(<<p[k + 1]>>, SubSeq(p, k + 3, e - 1), 1) \in Tuples
      BY <2>3, <2>6, <2>10, <3>6
    <3> QED BY <3>4, <3>5, <3>7, JoinType, JoinIsSound
  <2>11. CASE /\ p[k] = "%" /\ CharAt(p, k + 1) # "%"
              /\ ~(/\ CharAt(p, k + 1) \in ItemName
                   /\ CharAt(p, k + 2) \notin Letter \cup {"open", "close"})
              /\ ~(/\ CharAt(p, k + 1) \in ItemName
                   /\ CharAt(p, k + 2) = "open" /\ Ends(p, k) # {})
    BY <1>1, <1>3, <2>2, <2>11 DEF Meaning
  <2> QED BY <2>7, <2>8, <2>9, <2>10, <2>11
<1> QED BY <1>1, <1>2, <1>3

\* What the characters of a pattern mean from each place on is well-typed.
LEMMA MeaningsType ==
  ASSUME NEW p \in Seq(Char), NEW k \in 1..(Len(p) + 2)
  PROVE  /\ Meanings(p)[k] \in Result
         /\ Meanings(p)[k].ok \/ Meanings(p)[k] = Malformed
<1> DEFINE n == Len(p) + 2
           Good(x) == x \in Result /\ (x.ok \/ x = Malformed)
           T == {d \in Nat : \A j \in 1..n : n - d < j => Good(Meanings(p)[j])}
<1>1. n \in Nat /\ Len(p) \in Nat
  OBVIOUS
<1>2. 0 \in T
  BY <1>1
<1>3. ASSUME NEW d \in Nat, d \in T PROVE d + 1 \in T
  <2> SUFFICES ASSUME NEW j \in 1..n, n - (d + 1) < j PROVE Good(Meanings(p)[j])
    BY <1>1
  <2>1. \A l \in (j + 1)..n : Meanings(p)[l] \in Result
    BY <1>1, <1>3
  <2>2. Meanings(p)[j] = Meaning(p, Meanings(p), j)
    BY MeaningsDef
  <2>3. Good(Meaning(p, Meanings(p), j))
    BY <2>1, MeaningType
  <2> QED BY <2>2, <2>3
<1>4. n \in T
  <2>1. T \in SUBSET Nat
    OBVIOUS
  <2> HIDE DEF T
  <2> QED BY <1>1, <1>2, <1>3, <2>1, SetInduction
<1> QED BY <1>1, <1>4

-----------------------------------------------------------------------------
(* The invariant of init *)

R(k) == Meanings(m_pattern)[k]

TypeInv ==
  /\ m_pattern \in Seq(Char)
  /\ vec \in Seq(Tuples)
  /\ str \in Seq(Word) /\ iwstr \in Seq(Word) /\ iwfmt \in Seq(Word)
  /\ i \in 1..(size + 1) /\ pos \in 1..(size + 1)
  /\ fmt_begin \in 0..size /\ fmt_status \in {0, 1}
  /\ m_error \in BOOLEAN
  /\ pc \in {"outer", "inner", "emit", "done", "formatted"}

NameChar == Letter \cup {"close"}

\* The characters between the "%" and the place a are those of a name; there is
\* a brace at fmt_begin, and none that closes it before the place a.
NameUpTo(a) == \A k \in (i + 1)..(a - 1) : At(k) \in NameChar
OpenUpTo(a) ==
  /\ fmt_begin \in (i + 1)..(a - 1) /\ At(fmt_begin) = "open"
  /\ NameUpTo(fmt_begin)
  /\ \A k \in (fmt_begin + 1)..(a - 1) : At(k) # "close"

\* What the inner loop has read: a name, or a name and a part of its format; and
\* what it leaves: a name, a name with its format, or a brace that nothing closes.
InName ==
  /\ fmt_status = 0 /\ iwfmt = <<>>
  /\ NameUpTo(pos)
  /\ iwstr = IF pos > size THEN Name ELSE <<>>
InFormat ==
  /\ fmt_status = 1 /\ iwfmt = <<>>
  /\ OpenUpTo(pos)
  /\ pos <= size => iwstr = SubSeq(m_pattern, i + 1, fmt_begin - 1)
Named ==
  /\ fmt_status = 0 /\ iwfmt = <<>>
  /\ NameUpTo(pos)
  /\ iwstr = Name
  /\ pos > size \/ At(pos) \notin Letter \cup {"open", "close"}
Formatted ==
  /\ fmt_status = 0
  /\ OpenUpTo(pos - 1) /\ At(pos - 1) = "close"
  /\ iwstr = SubSeq(m_pattern, i + 1, fmt_begin - 1)
  /\ iwfmt = SubSeq(m_pattern, fmt_begin + 1, pos - 2)
Unclosed ==
  /\ fmt_status = 1
  /\ pos > size
  /\ OpenUpTo(pos)

ScanInv ==
  pc \in {"inner", "emit"} =>
    /\ i < pos /\ At(i) = "%" /\ ~IsDouble
    /\ pc = "inner" => InName \/ InFormat
    /\ pc = "emit" => Named \/ Formatted \/ Unclosed

\* Text, or items, in front of the rest.
TextThen(s, rest) == IF s = <<>> THEN rest ELSE Join(Text(s), rest)
ItemsThen(v, rest) == IF rest.ok THEN [ok |-> TRUE, items |-> v \o rest.items] ELSE Malformed

\* While init runs, what it has collected and what the rest of the pattern means
\* make up what the whole pattern means, until something is wrong with it.
AllKnown(v) == \A k \in DOMAIN v : Known(v[k])
Bad == m_error \/ ~AllKnown(vec)
Collected ==
  IF Bad THEN ~R(1).ok ELSE R(1) = ItemsThen(vec, TextThen(str, R(i)))
CollectInv == pc \in {"outer", "inner", "emit"} /\ ~HasDouble => Collected

\* When it is done, m_items are the items the pattern means.
DoneInv ==
  pc = "done" /\ ~HasDouble =>
    /\ R(1).ok = ~m_error
    /\ R(1).ok => /\ AllKnown(R(1).items)
                  /\ m_items = [k \in DOMAIN R(1).items |-> Item(R(1).items[k])]

Inv == TypeInv /\ ScanInv /\ CollectInv /\ DoneInv /\ ParsesTheSyntax

-----------------------------------------------------------------------------
(* What the reference says of what the inner loop leaves *)

\* The meaning of the rest of the pattern is a result.
LEMMA RType ==
  ASSUME TypeInv, NEW k \in 1..(size + 2)
  PROVE  /\ R(k) = Meaning(m_pattern, Meanings(m_pattern), k)
         /\ R(k) \in Result
         /\ R(k).ok \/ R(k) = Malformed
BY MeaningsDef, MeaningsType DEF TypeInv, R, size

\* The name of a known item is one letter.
LEMMA OneLetter ==
  ASSUME NEW p \in Seq(Char), NEW a \in Nat \ {0}, NEW b \in Nat, b <= Len(p), a <= b + 1
  PROVE  /\ SubSeq(p, a, b) \in s_format_items <=> a = b /\ p[a] \in ItemName
         /\ a = b => SubSeq(p, a, b) = <<p[a]>>
<1>1. Len(p) \in Nat
  OBVIOUS
<1>2. PICK s : s = SubSeq(p, a, b)
  OBVIOUS
<1>3. s \in Seq(Char) /\ Len(s) = b + 1 - a /\ \A k \in 1..(b + 1 - a) : s[k] = p[a + k - 1]
  BY <1>1, <1>2
<1>4. ASSUME a = b PROVE s = <<p[a]>>
  <2>1. Len(s) = 1 /\ s[1] = p[a] /\ p[a] \in Char
    BY <1>3, <1>4
  <2>2. <<p[a]>> \in Seq(Char) /\ Len(<<p[a]>>) = 1 /\ <<p[a]>>[1] = p[a]
    BY <2>1
  <2> QED BY <1>3, <2>1, <2>2, SeqEqual
<1>5. ASSUME NEW c \in ItemName, s = <<c>> PROVE a = b /\ p[a] \in ItemName
  <2>1. Len(s) = 1 /\ s[1] = c
    BY <1>5
  <2>2. b + 1 - a = 1
    BY <1>3, <2>1
  <2>3. a = b
    BY <2>2
  <2>4. s[1] = p[a]
    BY <1>3, <2>3
  <2> QED BY <2>1, <2>3, <2>4
<1> QED BY <1>2, <1>4, <1>5 DEF s_format_items

\* init has read a "%", which the reference does not take for a part of "%%".
LEMMA AtDirective ==
  ASSUME TypeInv, ScanInv, pc = "emit"
  PROVE  i < pos /\ i <= Len(m_pattern) /\ At(i) = "%" /\ CharAt(m_pattern, i + 1) # "%"
<1>1. Len(m_pattern) \in Nat /\ i \in Nat /\ pos \in Nat /\ pos <= Len(m_pattern) + 1
  BY DEF TypeInv, size
<1> QED BY <1>1 DEF ScanInv, IsDouble, size, At, CharAt

\* An item with a known name means what is put into vec for it.
LEMMA KnownItem ==
  ASSUME TypeInv, ScanInv, pc = "emit", fmt_status = 0, iwstr \in s_format_items
  PROVE  R(i) = Join(Tuple(iwstr, iwfmt, 1), R(pos))
<1> DEFINE p == m_pattern
           f == Meanings(p)
<1>0. p \in Seq(Char) /\ Len(p) \in Nat /\ i \in Nat \ {0} /\ pos \in Nat /\ pos <= Len(p) + 1
  BY DEF TypeInv, size
<1>1. i < pos /\ i <= Len(p) /\ p[i] = "%" /\ CharAt(p, i + 1) # "%"
  BY <1>0, AtDirective DEF At
<1>2. R(i) = Meaning(p, f, i)
  BY <1>0, <1>1, RType DEF size
<1>4. Named \/ Formatted
  BY DEF ScanInv, Unclosed
<1> HIDE DEF f, p
<1>5. CASE Named
  <2>1. iwstr = SubSeq(p, i + 1, pos - 1) /\ iwfmt = <<>>
    BY <1>5 DEF Named, Name, p
  <2>2. i + 1 = pos - 1 /\ p[i + 1] \in ItemName /\ iwstr = <<p[i + 1]>>
    BY <1>0, <1>1, <2>1, OneLetter
  <2>3. CharAt(p, i + 1) \in ItemName
    BY <1>0, <2>2 DEF CharAt
  <2>4. CharAt(p, i + 2) \notin Letter \cup {"open", "close"}
    BY <1>0, <1>5, <2>2 DEF CharAt, Named, size, At, p, Letter, ItemName
  <2>5. R(i) = Join(Tuple(<<p[i + 1]>>, <<>>, 1), f[i + 2])
    BY <1>0, <1>1, <1>2, <2>3, <2>4 DEF Meaning
  <2>6. i + 2 = pos
    BY <1>0, <2>2
  <2> QED BY <2>1, <2>2, <2>5, <2>6 DEF R, f, p
<1>6. CASE Formatted
  <2>1. /\ iwstr = SubSeq(p, i + 1, fmt_begin - 1)
        /\ iwfmt = SubSeq(p, fmt_begin + 1, pos - 2)
        /\ fmt_begin \in (i + 1)..(pos - 2) /\ p[fmt_begin] = "open"
        /\ \A k \in (fmt_begin + 1)..(pos - 2) : p[k] # "close"
        /\ p[pos - 1] = "close"
    BY <1>0, <1>6 DEF Formatted, OpenUpTo, At, p
  <2>2. i + 1 = fmt_begin - 1 /\ p[i + 1] \in ItemName /\ iwstr = <<p[i + 1]>>
    <3>1. fmt_begin - 1 \in Nat /\ fmt_begin - 1 <= Len(p) /\ i + 1 <= fmt_begin - 1 + 1
      BY <1>0, <2>1
    <3> QED BY <1>0, <1>1, <2>1, <3>1, OneLetter
  <2>3. CharAt(p, i + 1) \in ItemName /\ CharAt(p, i + 2) = "open"
    BY <1>0, <2>1, <2>2 DEF CharAt
  <2>4. pos - 1 \in Ends(p, i) /\ \A e \in Ends(p, i) : pos - 1 <= e
    <3>1. pos - 1 \in Ends(p, i)
      BY <1>0, <2>1 DEF Ends
    <3>2. ASSUME NEW e \in Ends(p, i) PROVE pos - 1 <= e
      <4>1. e \in (i + 1)..Len(p) /\ p[e] = "close"
        BY DEF Ends
      <4>2. e # i + 1 /\ e # fmt_begin
        BY <2>1, <2>2, <4>1 DEF Letter, ItemName
      <4>3. e \notin (fmt_begin + 1)..(pos - 2)
        BY <2>1, <4>1
      <4> QED BY <1>0, <2>1, <2>2, <4>1, <4>2, <4>3
    <3> QED BY <3>1, <3>2
  <2>5. Close(p, i) = pos - 1
    <3>1. Close(p, i) \in Ends(p, i) /\ Close(p, i) <= pos - 1
      BY <1>0, <2>4, CloseIsFirst
    <3>2. Close(p, i) \in Nat
      BY <1>0, <3>1 DEF Ends
    <3> QED BY <1>0, <2>4, <3>1, <3>2
  <2>6. R(i) = Join(Tuple(<<p[i + 1]>>, SubSeq(p, i + 3, Close(p, i) - 1), 1), f[Close(p, i) + 1])
    <3>1. CharAt(p, i + 2) \in Letter \cup {"open", "close"} /\ Ends(p, i) # {}
      BY <2>3, <2>4
    <3> QED BY <1>0, <1>1, <1>2, <2>3, <3>1 DEF Meaning
  <2>7. i + 3 = fmt_begin + 1 /\ Close(p, i) - 1 = pos - 2 /\ Close(p, i) + 1 = pos
    BY <1>0, <1>1, <2>1, <2>2, <2>5
  <2> QED BY <2>1, <2>2, <2>6, <2>7 DEF R, f, p
<1> QED BY <1>4, <1>5, <1>6

\* A name the code does not know is not one of the syntax.
LEMMA UnknownItem ==
  ASSUME TypeInv, ScanInv, pc = "emit", fmt_status = 0, iwstr \notin s_format_items
  PROVE  R(i) = Malformed
<1> DEFINE p == m_pattern
           f == Meanings(p)
<1>0. p \in Seq(Char) /\ Len(p) \in Nat /\ i \in Nat \ {0} /\ pos \in Nat /\ pos <= Len(p) + 1
  BY DEF TypeInv, size
<1>1. i < pos /\ i <= Len(p) /\ p[i] = "%" /\ CharAt(p, i + 1) # "%"
  BY <1>0, AtDirective DEF At
<1>2. R(i) = Meaning(p, f, i)
  BY <1>0, <1>1, RType DEF size
<1>4. Named \/ Formatted
  BY DEF ScanInv, Unclosed
<1> HIDE DEF f, p
<1>5. SUFFICES ASSUME CharAt(p, i + 1) \in ItemName
               PROVE  CharAt(p, i + 2) \in Letter \cup {"close"}
  BY <1>0, <1>1, <1>2 DEF Meaning, Letter, ItemName
<1>6. i + 1 <= Len(p) /\ p[i + 1] \in ItemName
  BY <1>0, <1>5 DEF CharAt, Letter, ItemName
<1>7. CASE Named
  <2>1. iwstr = SubSeq(p, i + 1, pos - 1) /\ \A k \in (i + 1)..(pos - 1) : p[k] \in NameChar
    BY <1>7 DEF Named, Name, NameUpTo, At, p
  <2>2. pos - 1 # i + 1
    BY <1>0, <1>1, <1>6, <2>1, OneLetter
  <2>3. pos # i + 1
    BY <1>0, <1>6, <1>7 DEF Named, size, At, p, Letter, ItemName
  <2>4. i + 2 \in (i + 1)..(pos - 1) /\ i + 2 <= Len(p)
    BY <1>0, <1>1, <2>2, <2>3
  <2> QED BY <2>1, <2>4 DEF NameChar, CharAt
<1>8. CASE Formatted
  <2>1. /\ iwstr = SubSeq(p, i + 1, fmt_begin - 1)
        /\ fmt_begin \in (i + 1)..(pos - 2) /\ p[fmt_begin] = "open"
        /\ \A k \in (i + 1)..(fmt_begin - 1) : p[k] \in NameChar
    BY <1>0, <1>8 DEF Formatted, OpenUpTo, NameUpTo, At, p
  <2>2. fmt_begin - 1 # i + 1
    BY <1>0, <1>6, <2>1, OneLetter
  <2>3. fmt_begin # i + 1
    BY <1>6, <2>1 DEF Letter, ItemName
  <2>4. i + 2 \in (i + 1)..(fmt_begin - 1) /\ i + 2 <= Len(p)
    BY <1>0, <2>1, <2>2, <2>3
  <2> QED BY <2>1, <2>4 DEF NameChar, CharAt
<1> QED BY <1>4, <1>7, <1>8

\* Neither is an item whose brace is not closed.
LEMMA UnclosedItem ==
  ASSUME TypeInv, ScanInv, pc = "emit", fmt_status = 1
  PROVE  R(i) = Malformed
<1> DEFINE p == m_pattern
           f == Meanings(p)
<1>0. p \in Seq(Char) /\ Len(p) \in Nat /\ i \in Nat \ {0} /\ pos \in Nat /\ pos <= Len(p) + 1
  BY DEF TypeInv, size
<1>1. i < pos /\ i <= Len(p) /\ p[i] = "%" /\ CharAt(p, i + 1) # "%"
  BY <1>0, AtDirective DEF At
<1>2. R(i) = Meaning(p, f, i)
  BY <1>0, <1>1, RType DEF size
<1>4. pos = Len(p) + 1 /\ OpenUpTo(Len(p) + 1)
  BY <1>0 DEF ScanInv, Named, Formatted, Unclosed, size
<1> HIDE DEF f, p
<1>5. SUFFICES ASSUME CharAt(p, i + 1) \in ItemName
               PROVE  \/ CharAt(p, i + 2) \in Letter \cup {"close"}
                      \/ CharAt(p, i + 2) = "open" /\ Ends(p, i) = {}
  BY <1>0, <1>1, <1>2 DEF Meaning, Letter, ItemName
<1>6. i + 1 <= Len(p) /\ p[i + 1] \in ItemName
  BY <1>0, <1>5 DEF CharAt, Letter, ItemName
<1>7. /\ fmt_begin \in (i + 1)..Len(p) /\ p[fmt_begin] = "open"
      /\ \A k \in (i + 1)..(fmt_begin - 1) : p[k] \in NameChar
      /\ \A k \in (fmt_begin + 1)..Len(p) : p[k] # "close"
  BY <1>0, <1>4 DEF OpenUpTo, NameUpTo, At, p
<1>8. fmt_begin # i + 1
  BY <1>6, <1>7 DEF Letter, ItemName
<1>9. CASE fmt_begin = i + 2
  <2>1. CharAt(p, i + 2) = "open"
    BY <1>0, <1>7, <1>9 DEF CharAt
  <2>2. ASSUME NEW e \in Ends(p, i) PROVE FALSE
    <3>1. e \in (i + 1)..Len(p) /\ p[e] = "close"
      BY DEF Ends
    <3>2. e # i + 1 /\ e # i + 2
      BY <1>6, <1>7, <1>9, <3>1 DEF Letter, ItemName
    <3>3. e \in (fmt_begin + 1)..Len(p)
      BY <1>0, <1>9, <3>1, <3>2
    <3> QED BY <1>7, <3>1, <3>3
  <2> QED BY <2>1, <2>2
<1>10. CASE fmt_begin # i + 2
  <2>1. i + 2 \in (i + 1)..(fmt_begin - 1) /\ i + 2 <= Len(p)
    BY <1>0, <1>7, <1>8, <1>10
  <2> QED BY <1>7, <2>1 DEF NameChar, CharAt
<1> QED BY <1>9, <1>10

-----------------------------------------------------------------------------
(* The types and the inner loop *)

\* init begins with the locals of a parser that has read nothing.
LEMMA InitTypes == Init => TypeInv /\ ScanInv
<1> SUFFICES ASSUME Init PROVE TypeInv /\ ScanInv
  OBVIOUS
<1>1. m_pattern \in Seq(Char)
  BY LogFormatterAssumption DEF Init
<1>2. size \in Nat
  BY <1>1 DEF size
<1>3. vec \in Seq(Tuples) /\ str \in Seq(Word) /\ iwstr \in Seq(Word) /\ iwfmt \in Seq(Word)
  <2>1. vec = <<>> /\ str = <<>> /\ iwstr = <<>> /\ iwfmt = <<>>
    BY DEF Init
  <2> QED BY <2>1
<1>4. i \in 1..(size + 1) /\ pos \in 1..(size + 1) /\ fmt_begin \in 0..size /\ fmt_status \in {0, 1}
  BY <1>2 DEF Init
<1>5. pc = "outer" /\ m_error \in BOOLEAN
  BY Zenon DEF Init
<1> QED BY <1>1, <1>3, <1>4, <1>5 DEF TypeInv, ScanInv

\* The text collected so far, put into vec, is a tuple like the others.
LEMMA FlushedType ==
  ASSUME TypeInv
  PROVE  Flushed \in Seq(Tuples)
<1>1. Tuple(str, <<>>, 0) \in Tuples
  BY DEF TypeInv, Tuple, Tuples
<1>2. Append(vec, Tuple(str, <<>>, 0)) \in Seq(Tuples)
  BY <1>1 DEF TypeInv
<1> QED BY <1>2 DEF Flushed, TypeInv

\* Every turn of the two loops keeps the scanning invariant.
LEMMA NextTypes == TypeInv /\ ScanInv /\ [Next]_vars => TypeInv' /\ ScanInv'
<1> SUFFICES ASSUME TypeInv, ScanInv, [Next]_vars PROVE TypeInv' /\ ScanInv'
  OBVIOUS
<1>0. /\ m_pattern \in Seq(Char) /\ size \in Nat /\ i \in Nat \ {0} /\ i <= size + 1
      /\ pos \in Nat \ {0} /\ pos <= size + 1 /\ fmt_begin \in Nat
  BY DEF TypeInv, size
<1>1. ASSUME m_pattern' = m_pattern PROVE size' = size
  BY <1>1 DEF size
<1>2. ASSUME NEW k \in 1..size PROVE At(k) \in Word
  BY <1>0, CharsAreWords DEF At, size
<1>3. CASE Literal
  <2>1. m_pattern' = m_pattern /\ size' = size
    BY <1>1, <1>3 DEF Literal, fields
  <2>2. str' \in Seq(Word)
    BY <1>0, <1>2, <1>3 DEF Literal, TypeInv
  <2> QED BY <1>0, <1>3, <2>1, <2>2 DEF Literal, TypeInv, ScanInv, fields, inner
<1>4. CASE DoublePercent
  <2>1. m_pattern' = m_pattern /\ size' = size
    BY <1>1, <1>4 DEF DoublePercent, fields
  <2>2. str' \in Seq(Word)
    BY <1>4 DEF DoublePercent, TypeInv, Word, Char
  <2> QED BY <1>0, <1>4, <2>1, <2>2 DEF DoublePercent, TypeInv, ScanInv, fields, inner
<1>5. CASE Directive
  <2>1. m_pattern' = m_pattern /\ size' = size
    BY <1>1, <1>5 DEF Directive, fields
  <2>2. TypeInv'
    BY <1>0, <1>5, <2>1 DEF Directive, TypeInv, fields
  <2>3. InName'
    <3>1. i' = i /\ pos' = i + 1
      BY <1>5 DEF Directive
    <3>2. Name' = <<>>
      <4>1. SubSeq(m_pattern, i + 1, i + 1 - 1) = <<>>
        BY <1>0 DEF size
      <4> QED BY <2>1, <3>1, <4>1 DEF Name
    <3>3. NameUpTo(pos)'
      BY <1>0, <3>1 DEF NameUpTo
    <3> QED BY <1>5, <3>2, <3>3 DEF Directive, InName
  <2> QED BY <1>0, <1>5, <2>1, <2>2, <2>3 DEF Directive, ScanInv, IsDouble, At
<1>6. CASE StopName
  <2>1. m_pattern' = m_pattern /\ size' = size
    BY <1>1, <1>6 DEF StopName, fields
  <2>2. iwstr' \in Seq(Word)
    <3>1. i + 1 \in Nat \ {0} /\ pos - 1 \in Int /\ pos - 1 <= Len(m_pattern)
      BY <1>0 DEF size
    <3> QED BY <1>0, <1>6, <3>1, PartsAreWords DEF StopName, Name
  <2>3. TypeInv'
    BY <1>6, <2>1, <2>2 DEF StopName, TypeInv, fields
  <2>4. InName
    BY <1>6 DEF StopName, InInner, Stops, ScanInv, InFormat
  <2>5. Named'
    BY <1>0, <1>6, <2>1, <2>4 DEF StopName, Stops, InName, Named, NameUpTo, Name, At
  <2> QED BY <1>6, <2>1, <2>3, <2>5 DEF StopName, InInner, ScanInv, IsDouble, At
<1>7. CASE OpenBrace
  <2>1. m_pattern' = m_pattern /\ size' = size
    BY <1>1, <1>7 DEF OpenBrace, fields
  <2>2. iwstr' \in Seq(Word)
    <3>1. i + 1 \in Nat \ {0} /\ pos - 1 \in Int /\ pos - 1 <= Len(m_pattern)
      BY <1>0 DEF size
    <3> QED BY <1>0, <1>7, <3>1, PartsAreWords DEF OpenBrace, Name
  <2>3. TypeInv'
    BY <1>0, <1>7, <2>1, <2>2 DEF OpenBrace, InInner, TypeInv, fields
  <2>4. InName /\ i < pos
    BY <1>7 DEF OpenBrace, InInner, ScanInv, InFormat
  <2>5. OpenUpTo(pos)'
    BY <1>0, <1>7, <2>1, <2>4 DEF OpenBrace, OpenUpTo, NameUpTo, At, InName
  <2>6. InFormat'
    BY <1>7, <2>1, <2>4, <2>5 DEF OpenBrace, InName, InFormat, Name
  <2> QED BY <1>0, <1>7, <2>1, <2>3, <2>4, <2>6 DEF OpenBrace, InInner, ScanInv, IsDouble, At
<1>8. CASE CloseBrace
  <2>1. m_pattern' = m_pattern /\ size' = size
    BY <1>1, <1>8 DEF CloseBrace, fields
  <2>2. iwfmt' \in Seq(Word)
    <3>1. fmt_begin + 1 \in Nat \ {0} /\ pos - 1 \in Int /\ pos - 1 <= Len(m_pattern)
      BY <1>0 DEF size
    <3> QED BY <1>0, <1>8, <3>1, PartsAreWords DEF CloseBrace
  <2>3. TypeInv'
    BY <1>0, <1>8, <2>1, <2>2 DEF CloseBrace, InInner, TypeInv, fields
  <2>4. InFormat /\ i < pos
    BY <1>8 DEF CloseBrace, InInner, ScanInv, InName
  <2>5. pos' - 1 = pos /\ pos' - 2 = pos - 1 /\ i' = i /\ fmt_begin' = fmt_begin
    BY <1>0, <1>8 DEF CloseBrace
  <2>6. OpenUpTo(pos - 1)'
    BY <2>1, <2>4, <2>5 DEF InFormat, OpenUpTo, NameUpTo, At
  <2>7. Formatted'
    BY <1>8, <2>1, <2>4, <2>5, <2>6 DEF CloseBrace, InInner, Formatted, InFormat, At
  <2> QED BY <1>0, <1>8, <2>1, <2>3, <2>4, <2>7 DEF CloseBrace, InInner, ScanInv, IsDouble, At
<1>9. CASE Advance
  <2>1. m_pattern' = m_pattern /\ size' = size
    BY <1>1, <1>9 DEF Advance, fields
  <2>2. iwstr' \in Seq(Word)
    <3>1. i + 1 \in Nat \ {0} /\ size \in Int /\ size <= Len(m_pattern)
      BY <1>0 DEF size
    <3>2. SubSeq(m_pattern, i + 1, size) \in Seq(Word)
      BY <1>0, <3>1, PartsAreWords
    <3> QED BY <1>9, <3>2 DEF Advance, TypeInv
  <2>3. TypeInv'
    BY <1>0, <1>9, <2>1, <2>2 DEF Advance, InInner, TypeInv, fields
  <2>4. i < pos /\ i' = i /\ pos' = pos + 1 /\ pos <= size /\ pc = "inner" /\ pc' = "inner"
    BY <1>9 DEF Advance, InInner, ScanInv
  <2>5. CASE InName
    <3>1. At(pos) \in NameChar
      BY <1>9, <2>5 DEF Advance, Stops, InName, NameChar
    <3>2. NameUpTo(pos)'
      BY <1>0, <2>1, <2>4, <2>5, <3>1 DEF InName, NameUpTo, At
    <3>3. pos' > size => pos' - 1 = size
      BY <1>0, <2>4
    <3>4. iwstr' = (IF pos' > size THEN SubSeq(m_pattern, i + 1, pos' - 1) ELSE <<>>)
      <4>1. iwstr = <<>>
        BY <1>0, <2>4, <2>5 DEF InName
      <4> QED BY <1>9, <3>3, <4>1 DEF Advance
    <3>5. InName'
      BY <1>9, <2>1, <2>4, <2>5, <3>2, <3>4 DEF Advance, InName, Name
    <3> QED BY <1>0, <2>1, <2>3, <2>4, <3>5 DEF ScanInv, IsDouble, At
  <2>6. CASE InFormat
    <3>1. At(pos) # "close"
      BY <1>9, <2>6 DEF Advance, InFormat
    <3>2. fmt_begin' = fmt_begin /\ fmt_status' = 1 /\ iwfmt' = <<>>
      BY <1>9, <2>6 DEF Advance, InFormat
    <3>3. OpenUpTo(pos)'
      BY <1>0, <2>1, <2>4, <2>6, <3>1, <3>2 DEF InFormat, OpenUpTo, NameUpTo, At
    <3>4. InFormat'
      BY <1>0, <1>9, <2>1, <2>4, <2>6, <3>2, <3>3 DEF Advance, InFormat
    <3> QED BY <1>0, <2>1, <2>3, <2>4, <3>4 DEF ScanInv, IsDouble, At
  <2> QED BY <2>4, <2>5, <2>6 DEF ScanInv
<1>10. CASE EndInner
  <2>1. m_pattern' = m_pattern /\ size' = size
    BY <1>1, <1>10 DEF EndInner, fields
  <2>2. TypeInv'
    BY <1>10, <2>1 DEF EndInner, TypeInv, fields, inner
  <2>3. InName => Named'
    BY <1>0, <1>10, <2>1 DEF EndInner, InName, Named, NameUpTo, Name, At, inner
  <2>4. InFormat => Unclosed'
    BY <1>0, <1>10, <2>1
       DEF EndInner, InFormat, Unclosed, OpenUpTo, NameUpTo, At, inner
  <2> QED BY <1>10, <2>1, <2>2, <2>3, <2>4 DEF EndInner, ScanInv, IsDouble, At, inner
<1>11. CASE EmitItem
  <2>1. m_pattern' = m_pattern /\ size' = size
    BY <1>1, <1>11 DEF EmitItem, fields
  <2>2. vec' \in Seq(Tuples)
    <3>1. Tuple(iwstr, iwfmt, 1) \in Tuples
      BY DEF TypeInv, Tuple, Tuples
    <3> QED BY <1>11, <3>1, FlushedType DEF EmitItem
  <2> QED BY <1>0, <1>11, <2>1, <2>2 DEF EmitItem, TypeInv, ScanInv, fields, inner
<1>12. CASE EmitError
  <2>1. m_pattern' = m_pattern /\ size' = size
    BY <1>1, <1>12 DEF EmitError
  <2>2. vec' \in Seq(Tuples)
    <3>1. Tuple(<<"error">>, iwfmt, 0) \in Tuples
      BY DEF TypeInv, Tuple, Tuples, Word
    <3> QED BY <1>12, <3>1 DEF EmitError, TypeInv
  <2>3. i + 1 <= size + 1
    BY <1>0, <1>12 DEF EmitError, ScanInv
  <2> QED BY <1>0, <1>12, <2>1, <2>2, <2>3 DEF EmitError, TypeInv, ScanInv, inner
<1>13. CASE MakeItems
  <2>1. m_pattern' = m_pattern /\ size' = size
    BY <1>1, <1>13 DEF MakeItems
  <2>2. m_error' \in BOOLEAN
    BY <1>13, Zenon DEF MakeItems, TypeInv
  <2>3. vec' \in Seq(Tuples)
    BY <1>13, FlushedType DEF MakeItems
  <2>4. UNCHANGED <<str, i, inner>> /\ pc' = "done"
    BY <1>13 DEF MakeItems
  <2> QED BY <2>1, <2>2, <2>3, <2>4 DEF TypeInv, ScanInv, inner
<1>14. CASE Format
  <2>1. m_pattern' = m_pattern /\ size' = size
    BY <1>1, <1>14 DEF Format
  <2>2. UNCHANGED <<m_error, vec, str, i, inner>> /\ pc' = "formatted"
    BY <1>14 DEF Format
  <2> QED BY <2>1, <2>2 DEF TypeInv, ScanInv, inner
<1>15. CASE UNCHANGED vars
  BY <1>15 DEF vars, fields, inner, TypeInv, size, ScanInv, At, IsDouble, InName, InFormat,
               Named, Formatted, Unclosed, NameUpTo, OpenUpTo, Name
<1> QED BY <1>3, <1>4, <1>5, <1>6, <1>7, <1>8, <1>9, <1>10, <1>11, <1>12, <1>13, <1>14, <1>15
        DEF Next

-----------------------------------------------------------------------------
(* What has been collected *)

\* A character moves from the rest to the text.
LEMMA TextGrows ==
  ASSUME NEW s \in Seq(Word), NEW c \in Word, NEW rest \in Result
  PROVE  TextThen(s, Join(Text(<<c>>), rest)) = TextThen(Append(s, c), rest)
<1>1. <<c>> \in Seq(Word) /\ Append(s, c) \in Seq(Word) /\ Len(Append(s, c)) = Len(s) + 1
  OBVIOUS
<1>2. Append(s, c) # <<>>
  BY AppendProperties
<1>3. s \o <<c>> = Append(s, c)
  BY AppendIsConcat
<1>4. CASE s = <<>>
  <2>1. Append(s, c) = <<c>>
    BY <1>4
  <2> QED BY <1>2, <1>4, <2>1 DEF TextThen
<1>5. CASE s # <<>>
  <2>1. PICK t \in Seq(Word) : t = <<c>>
    BY <1>1
  <2>2. Join(Text(s), Join(Text(t), rest)) = Join(Text(s \o t), rest)
    BY JoinText
  <2> QED BY <1>2, <1>3, <1>5, <2>1, <2>2 DEF TextThen
<1> QED BY <1>4, <1>5

WithText(v, s) == IF s = <<>> THEN v ELSE Append(v, Tuple(s, <<>>, 0))

\* An element between two sequences.
LEMMA ConcatAppend ==
  ASSUME NEW v \in Seq(Tuples), NEW t \in Tuples, NEW w \in Seq(Tuples)
  PROVE  v \o (<<t>> \o w) = Append(v, t) \o w
<1>1. <<t>> \in Seq(Tuples)
  OBVIOUS
<1>2. PICK u \in Seq(Tuples) : u = <<t>>
  BY <1>1
<1>3. Append(v, t) = v \o u
  BY <1>2, AppendIsConcat
<1>4. (v \o u) \o w = v \o (u \o w)
  BY ConcatAssociative
<1> QED BY <1>2, <1>3, <1>4

\* Text and an item move from the rest to the items.
LEMMA ItemsGrow ==
  ASSUME NEW v \in Seq(Tuples), NEW s \in Seq(Word), NEW item \in Tuples, item.type = 1,
         NEW rest \in Result
  PROVE  ItemsThen(v, TextThen(s, Join(item, rest))) = ItemsThen(Append(WithText(v, s), item), rest)
<1>1. CASE ~rest.ok
  <2>1. Join(item, rest) = Malformed
    BY <1>1 DEF Join
  <2> QED BY <1>1, <2>1 DEF TextThen, ItemsThen, Join, Malformed
<1>2. CASE rest.ok
  <2>1. PICK w \in Seq(Tuples) : w = rest.items
    BY DEF Result
  <2>2. PICK y \in Result : y = Join(item, rest)
    BY JoinType
  <2>3. PICK z \in Seq(Tuples) : z = <<item>> \o w
    <3>1. <<item>> \o w \in Seq(Tuples)
      OBVIOUS
    <3> QED BY <3>1
  <2>4. y.ok /\ y.items = z
    BY <1>2, <2>1, <2>2, <2>3, JoinOntoItem
  <2>5. z # <<>> /\ z[1].type = 1
    BY <2>3, ConsParts
  <2>6. CASE s = <<>>
    <3>1. TextThen(s, y) = y /\ WithText(v, s) = v
      BY <2>6 DEF TextThen, WithText
    <3>2. v \o (<<item>> \o w) = Append(v, item) \o w
      BY ConcatAppend
    <3> QED BY <1>2, <2>1, <2>2, <2>3, <2>4, <3>1, <3>2 DEF ItemsThen
  <2>7. CASE s # <<>>
    <3>0. Tuple(s, <<>>, 0) \in Tuples
      BY DEF Tuples, Tuple
    <3>1. PICK t \in Tuples : t = Tuple(s, <<>>, 0)
      BY <3>0
    <3>2. TextThen(s, y) = [ok |-> TRUE, items |-> <<t>> \o z] /\ WithText(v, s) = Append(v, t)
      BY <2>4, <2>5, <2>7, <3>1, JoinOntoItem DEF TextThen, WithText, Text
    <3>3. v \o (<<t>> \o z) = Append(Append(v, t), item) \o w
      <4>0. Append(v, t) \in Seq(Tuples)
        OBVIOUS
      <4>1. PICK v2 \in Seq(Tuples) : v2 = Append(v, t)
        BY <4>0
      <4>2. v \o (<<t>> \o z) = v2 \o z
        BY <4>1, ConcatAppend
      <4>3. v2 \o (<<item>> \o w) = Append(v2, item) \o w
        BY ConcatAppend
      <4> QED BY <2>3, <4>1, <4>2, <4>3
    <3>4. ItemsThen(v, TextThen(s, y)) = [ok |-> TRUE, items |-> v \o (<<t>> \o z)]
      BY <3>2 DEF ItemsThen
    <3>5. ItemsThen(Append(WithText(v, s), item), rest)
            = [ok |-> TRUE, items |-> Append(Append(v, t), item) \o w]
      BY <1>2, <2>1, <3>2 DEF ItemsThen
    <3> QED BY <2>2, <3>3, <3>4, <3>5
  <2> QED BY <2>6, <2>7
<1> QED BY <1>1, <1>2

\* In front of the end of the pattern, and in front of something malformed.
LEMMA ItemsEnd ==
  ASSUME NEW v \in Seq(Tuples), NEW s \in Seq(Word)
  PROVE  /\ ItemsThen(v, TextThen(s, [ok |-> TRUE, items |-> <<>>]))
              = [ok |-> TRUE, items |-> WithText(v, s)]
         /\ ItemsThen(v, TextThen(s, Malformed)) = Malformed
<1>1. PICK e : e = [ok |-> TRUE, items |-> <<>>]
  OBVIOUS
<1>2. ItemsThen(v, TextThen(s, e)) = [ok |-> TRUE, items |-> WithText(v, s)]
  <2>1. CASE s = <<>>
    <3>1. v \o <<>> = v
      OBVIOUS
    <3> QED BY <1>1, <2>1, <3>1 DEF TextThen, ItemsThen, WithText
  <2>2. CASE s # <<>>
    <3>0. Tuple(s, <<>>, 0) \in Tuples
      BY DEF Tuples, Tuple
    <3>1. PICK t \in Tuples : t = Tuple(s, <<>>, 0)
      BY <3>0
    <3>2. <<t>> \o <<>> = <<t>> /\ v \o <<t>> = Append(v, t)
      BY AppendIsConcat
    <3>3. Join(t, e) = [ok |-> TRUE, items |-> <<t>> \o <<>>]
      BY <1>1 DEF Join
    <3>4. TextThen(s, e) = [ok |-> TRUE, items |-> <<t>>] /\ WithText(v, s) = Append(v, t)
      BY <2>2, <3>1, <3>2, <3>3 DEF TextThen, WithText, Text
    <3>5. PICK u : u = <<t>> /\ v \o u = Append(v, t)
      BY <3>2
    <3>6. TextThen(s, e) = [ok |-> TRUE, items |-> u]
      BY <3>4, <3>5
    <3>7. ItemsThen(v, TextThen(s, e)) = [ok |-> TRUE, items |-> v \o u]
      BY <3>6 DEF ItemsThen
    <3> QED BY <3>4, <3>5, <3>7
  <2> QED BY <2>1, <2>2
<1>3. ItemsThen(v, TextThen(s, Malformed)) = Malformed
  BY DEF ItemsThen, TextThen, Join, Malformed
<1> QED BY <1>1, <1>2, <1>3

\* At the beginning nothing is collected.
LEMMA ItemsBegin ==
  ASSUME NEW x \in Result, x.ok \/ x = Malformed
  PROVE  x = ItemsThen(<<>>, TextThen(<<>>, x))
<1>1. CASE x.ok
  <2>1. <<>> \o x.items = x.items /\ x = [ok |-> TRUE, items |-> x.items]
    BY <1>1 DEF Result
  <2> QED BY <1>1, <2>1 DEF ItemsThen, TextThen
<1>2. CASE x = Malformed
  BY <1>2 DEF ItemsThen, TextThen, Malformed
<1> QED BY <1>1, <1>2

\* Only an item with an unknown name is put in that the code does not know.
LEMMA AppendKnown ==
  ASSUME NEW v \in Seq(Tuples), NEW t \in Tuples
  PROVE  AllKnown(Append(v, t)) <=> AllKnown(v) /\ Known(t)
<1>1. PICK w : w = Append(v, t)
  OBVIOUS
<1>2. /\ Len(v) \in Nat /\ DOMAIN v = 1..Len(v) /\ DOMAIN w = 1..(Len(v) + 1)
      /\ w[Len(v) + 1] = t
      /\ \A k \in 1..Len(v) : w[k] = v[k]
  BY <1>1
<1>3. AllKnown(w) <=> AllKnown(v) /\ Known(t)
  <2>1. ASSUME AllKnown(w) PROVE AllKnown(v) /\ Known(t)
    BY <1>2, <2>1 DEF AllKnown
  <2>2. ASSUME AllKnown(v), Known(t) PROVE AllKnown(w)
    <3>1. ASSUME NEW k \in DOMAIN w PROVE Known(w[k])
      <4>1. k \in 1..Len(v) \/ k = Len(v) + 1
        BY <1>2
      <4> QED BY <1>2, <2>2, <4>1 DEF AllKnown
    <3> QED BY <3>1 DEF AllKnown
  <2> QED BY <2>1, <2>2
<1> QED BY <1>1, <1>3

\* Flushing the text adds no unknown item.
LEMMA FlushedKnown ==
  ASSUME TypeInv
  PROVE  AllKnown(Flushed) <=> AllKnown(vec)
<1>1. CASE str = <<>>
  BY <1>1 DEF Flushed
<1>2. CASE str # <<>>
  <2>1. Tuple(str, <<>>, 0) \in Tuples
    BY DEF TypeInv, Tuple, Tuples
  <2>2. Known(Tuple(str, <<>>, 0))
    BY DEF Known, Tuple
  <2> QED BY <1>2, <2>1, <2>2, AppendKnown DEF Flushed, TypeInv
<1> QED BY <1>1, <1>2

\* Nothing is collected, and all of the pattern is still to be read.
LEMMA InitCollect == Init => CollectInv
<1> SUFFICES ASSUME Init PROVE Collected
  BY DEF CollectInv
<1>1. TypeInv
  BY InitTypes
<1>2. size \in Nat
  BY <1>1 DEF TypeInv, size
<1>3. 1 \in 1..(size + 2)
  BY <1>2
<1>4. R(1) = ItemsThen(<<>>, TextThen(<<>>, R(1)))
  BY <1>1, <1>3, RType, ItemsBegin
<1>5. ~Bad
  BY DEF Init, Bad, AllKnown
<1> QED BY <1>4, <1>5 DEF Init, Collected

\* Every turn keeps what is collected together with what is still to be read.
LEMMA NextCollect == TypeInv /\ ScanInv /\ CollectInv /\ [Next]_vars => CollectInv'
<1> SUFFICES ASSUME TypeInv, ScanInv, CollectInv, [Next]_vars,
                    pc' \in {"outer", "inner", "emit"}, ~HasDouble'
             PROVE  Collected'
  BY DEF CollectInv
<1>0. m_pattern \in Seq(Char) /\ size \in Nat /\ i \in Nat \ {0} /\ i <= size + 1 /\ pos \in 1..(size + 1)
  BY DEF TypeInv, size
<1>1. ASSUME m_pattern' = m_pattern, pc \in {"outer", "inner", "emit"}
      PROVE  Collected /\ \A k : (R(k))' = Meanings(m_pattern)[k]
  BY <1>1 DEF CollectInv, HasDouble, size, At, R
<1>2. ASSUME UNCHANGED <<m_pattern, m_error, vec, str, i>>, pc \in {"outer", "inner", "emit"}
      PROVE  Collected'
  BY <1>1, <1>2 DEF Collected, Bad, R
<1>3. CASE Literal
  <2>1. UNCHANGED <<m_pattern, m_error, vec>> /\ str' = Append(str, At(i)) /\ i' = i + 1
        /\ pc = "outer" /\ i <= size /\ At(i) # "%"
    BY <1>3 DEF Literal, fields
  <2>2. Collected
    BY <1>1, <2>1
  <2>3. R(i) = Join(Text(<<At(i)>>), R(i + 1))
    <3>1. R(i) = Meaning(m_pattern, Meanings(m_pattern), i)
      BY <1>0, RType
    <3>2. ~(i > Len(m_pattern)) /\ m_pattern[i] # "%"
      BY <1>0, <2>1 DEF size, At
    <3>3. R(i) = Join(Tuple(<<m_pattern[i]>>, <<>>, 0), Meanings(m_pattern)[i + 1])
      BY <3>1, <3>2 DEF Meaning
    <3> QED BY <3>3 DEF At, Text, R
  <2>4. At(i) \in Word /\ R(i + 1) \in Result
    BY <1>0, <2>1, CharsAreWords, RType DEF At, size
  <2>5. TextThen(str, R(i)) = TextThen(str', R(i + 1))
    BY <2>1, <2>3, <2>4, TextGrows DEF TypeInv
  <2>6. Bad' = Bad /\ R(1)' = R(1) /\ R(i)' = R(i + 1)
    BY <2>1 DEF Bad, R
  <2> QED BY <2>1, <2>2, <2>5, <2>6 DEF Collected
<1>4. CASE DoublePercent
  <2>1. m_pattern' = m_pattern /\ i + 1 <= size /\ At(i) = "%" /\ At(i + 1) = "%"
    BY <1>4 DEF DoublePercent, IsDouble, fields
  <2>2. i \in 1..(size - 1)
    BY <1>0, <2>1
  <2> QED BY <2>1, <2>2 DEF HasDouble, size, At
<1>5. CASE Directive
  BY <1>2, <1>5 DEF Directive, fields
<1>6. CASE StopName \/ OpenBrace \/ CloseBrace \/ Advance \/ EndInner
  BY <1>2, <1>6 DEF StopName, OpenBrace, CloseBrace, Advance, EndInner, InInner, fields
<1>7. CASE EmitItem
  <2>1. /\ UNCHANGED <<m_pattern, m_error>> /\ str' = <<>> /\ i' = pos
        /\ vec' = Append(Flushed, Tuple(iwstr, iwfmt, 1))
        /\ pc = "emit" /\ fmt_status = 0
    BY <1>7 DEF EmitItem, fields
  <2>2. Collected
    BY <1>1, <2>1
  <2>3. Tuple(iwstr, iwfmt, 1) \in Tuples /\ Tuple(iwstr, iwfmt, 1).type = 1
        /\ (Known(Tuple(iwstr, iwfmt, 1)) <=> iwstr \in s_format_items)
    BY DEF TypeInv, Tuple, Tuples, Known
  <2>4. R(1)' = R(1) /\ R(i)' = R(pos)
    BY <2>1 DEF R
  <2>5. Bad' <=> Bad \/ iwstr \notin s_format_items
    BY <2>1, <2>3, FlushedType, FlushedKnown, AppendKnown DEF Bad
  <2>6. CASE Bad
    BY <2>2, <2>4, <2>5, <2>6 DEF Collected
  <2>7. CASE ~Bad /\ iwstr \notin s_format_items
    <3>1. R(1) = ItemsThen(vec, TextThen(str, Malformed))
      BY <2>1, <2>2, <2>7, UnknownItem DEF Collected
    <3>2. R(1) = Malformed
      BY <3>1, ItemsEnd DEF TypeInv
    <3> QED BY <2>4, <2>5, <2>7, <3>2 DEF Collected, Malformed
  <2>8. CASE ~Bad /\ iwstr \in s_format_items
    <3>1. R(1) = ItemsThen(vec, TextThen(str, Join(Tuple(iwstr, iwfmt, 1), R(pos))))
      BY <2>1, <2>2, <2>8, KnownItem DEF Collected
    <3>2. R(pos) \in Result
      BY <1>0, RType
    <3>3. R(1) = ItemsThen(Append(WithText(vec, str), Tuple(iwstr, iwfmt, 1)), R(pos))
      BY <2>3, <3>1, <3>2, ItemsGrow DEF TypeInv
    <3>4. R(1) = ItemsThen(vec', TextThen(str', R(pos)))
      BY <2>1, <3>3 DEF WithText, Flushed, TextThen
    <3> QED BY <2>4, <2>5, <2>8, <3>4 DEF Collected
  <2> QED BY <2>6, <2>7, <2>8
<1>8. CASE EmitError
  <2>1. m_pattern' = m_pattern /\ m_error' = TRUE /\ pc = "emit" /\ fmt_status = 1
    BY <1>8 DEF EmitError
  <2>2. Collected
    BY <1>1, <2>1
  <2>3. ~R(1).ok
    <3>1. CASE Bad
      BY <2>2, <3>1 DEF Collected
    <3>2. CASE ~Bad
      <4>1. R(1) = ItemsThen(vec, TextThen(str, Malformed))
        BY <2>1, <2>2, <3>2, UnclosedItem DEF Collected
      <4>2. R(1) = Malformed
        BY <4>1, ItemsEnd DEF TypeInv
      <4> QED BY <4>2 DEF Malformed
    <3> QED BY <3>1, <3>2
  <2> QED BY <2>1, <2>3 DEF Collected, Bad, R
<1>9. CASE MakeItems
  BY <1>9 DEF MakeItems
<1>10. CASE Format
  BY <1>10 DEF Format
<1>11. CASE UNCHANGED vars
  BY <1>2, <1>11 DEF vars, fields
<1> QED BY <1>3, <1>4, <1>5, <1>6, <1>7, <1>8, <1>9, <1>10, <1>11 DEF Next

-----------------------------------------------------------------------------
(* The items, and what format writes *)

\* The items that init makes are those of the reference.
LEMMA NextDone == TypeInv /\ CollectInv /\ DoneInv /\ [Next]_vars => DoneInv'
<1> SUFFICES ASSUME TypeInv, CollectInv, DoneInv, [Next]_vars, pc' = "done", ~HasDouble'
             PROVE  /\ R(1)'.ok = ~m_error'
                    /\ R(1)'.ok => /\ AllKnown(R(1)'.items)
                                   /\ m_items' = [k \in DOMAIN R(1)'.items |-> Item(R(1)'.items[k])]
  BY DEF DoneInv
<1>1. CASE MakeItems
  <2>1. /\ m_pattern' = m_pattern /\ pc = "outer" /\ i > size
        /\ m_items' = [k \in DOMAIN Flushed |->
                         IF Known(Flushed[k]) THEN Item(Flushed[k]) ELSE Tuple(<<"error">>, <<>>, 0)]
        /\ m_error' = (m_error \/ \E k \in DOMAIN Flushed : ~Known(Flushed[k]))
    BY <1>1 DEF MakeItems
  <2>2. Collected /\ R(1)' = R(1)
    BY <2>1 DEF CollectInv, HasDouble, size, At, R
  <2>3. m_error' = Bad
    <3>1. (\E k \in DOMAIN Flushed : ~Known(Flushed[k])) <=> ~AllKnown(vec)
      BY FlushedKnown DEF AllKnown
    <3> QED BY <2>1, <3>1 DEF Bad
  <2>4. size \in Nat /\ i = size + 1 /\ i \in 1..(size + 2) /\ 1 \in 1..(size + 2)
    BY <2>1 DEF TypeInv, size
  <2>5. R(i) = [ok |-> TRUE, items |-> <<>>]
    <3>1. R(i) = Meaning(m_pattern, Meanings(m_pattern), i) /\ i > Len(m_pattern)
      BY <2>1, <2>4, RType DEF size
    <3> QED BY <3>1 DEF Meaning
  <2>6. R(1).ok \in BOOLEAN
    BY <2>4, RType DEF Result
  <2>7. CASE Bad
    BY <2>2, <2>3, <2>6, <2>7 DEF Collected
  <2>8. CASE ~Bad
    <3>1. R(1) = [ok |-> TRUE, items |-> WithText(vec, str)]
      BY <2>2, <2>5, <2>8, ItemsEnd DEF Collected, TypeInv
    <3>2. WithText(vec, str) = Flushed
      BY DEF WithText, Flushed
    <3>3. R(1).ok = TRUE /\ R(1).items = Flushed
      BY <3>1, <3>2
    <3>4. AllKnown(Flushed)
      BY <2>8, FlushedKnown DEF Bad
    <3>5. m_items' = [k \in DOMAIN Flushed |-> Item(Flushed[k])]
      BY <2>1, <3>4 DEF AllKnown
    <3> QED BY <2>2, <2>3, <2>8, <3>3, <3>4, <3>5
  <2> QED BY <2>7, <2>8
<1>2. CASE UNCHANGED vars
  BY <1>2 DEF vars, fields, DoneInv, HasDouble, size, At, R
<1>3. ~(Literal \/ DoublePercent \/ Directive \/ StopName \/ OpenBrace \/ CloseBrace \/ Advance
        \/ EndInner \/ EmitItem \/ EmitError \/ Format)
  BY DEF Literal, DoublePercent, Directive, StopName, OpenBrace, CloseBrace, Advance, EndInner,
         EmitItem, EmitError, Format, InInner
<1> QED BY <1>1, <1>2, <1>3 DEF Next

\* Every item writes what the syntax says, unless its date does not fit.
LEMMA OutputIsWritten ==
  ASSUME NEW v \in Tuples, Known(v), NEW o \in Output(Item(v))
  PROVE  Written(v) \in {o, <<"any">>}
<1>1. CASE v.type = 0
  <2>1. Item(v).type = 0 /\ Item(v).s = v.s
    BY <1>1 DEF Item, Tuple
  <2>2. o = v.s
    BY <2>1 DEF Output
  <2>3. Written(v) = v.s
    BY <1>1 DEF Written
  <2> QED BY <2>2, <2>3
<1>2. CASE v.type # 0 /\ v.s = <<"m">>
  <2>1. v.s # <<"d">>
    BY <1>2
  <2>2. Item(v).type = 1 /\ Item(v).s = v.s
    BY <1>2 DEF Item, Tuple
  <2>3. o = Message
    BY <2>1, <2>2 DEF Output
  <2>4. Written(v) = Message
    BY <1>2 DEF Written
  <2> QED BY <2>3, <2>4
<1>3. CASE v.type # 0 /\ v.s = <<"d">>
  <2>1. v.s # <<"m">>
    BY <1>3
  <2>2. PICK f : f = DateFormat(v.fmt)
    OBVIOUS
  <2>3. Item(v).type = 1 /\ Item(v).s = <<"d">> /\ Item(v).fmt = f
    BY <1>3, <2>2 DEF Item, Tuple
  <2>4. o \in Date(f)
    BY <2>3 DEF Output
  <2>5. Len(f) \in Nat /\ BufSize \in Nat
    <3>1. v.fmt \in Seq(Word) /\ DefaultDate \in Seq({"default"})
      BY DEF Tuples, DefaultDate
    <3> QED BY <2>2, <3>1, LogFormatterAssumption DEF DateFormat
  <2>6. Written(v) = IF Len(f) > BufSize THEN <<"any">> ELSE <<"date", f>>
    BY <1>3, <2>1, <2>2 DEF Written, DateFormat
  <2> QED BY <2>4, <2>5, <2>6 DEF Date
<1> QED BY <1>1, <1>2, <1>3 DEF Known, s_format_items, Letter, ItemName

\* format writes them as the syntax says.
LEMMA NextParses == TypeInv /\ DoneInv /\ ParsesTheSyntax /\ [Next]_vars => ParsesTheSyntax'
<1> SUFFICES ASSUME TypeInv, DoneInv, ParsesTheSyntax, [Next]_vars,
                    pc' = "formatted", ~HasDouble'
             PROVE  /\ Reference(m_pattern)'.ok = ~m_error'
                    /\ Reference(m_pattern)'.ok =>
                         /\ Len(out') = Len(Reference(m_pattern)'.items)
                         /\ \A k \in DOMAIN out' :
                              Written(Reference(m_pattern)'.items[k]) \in {out'[k], <<"any">>}
  BY DEF ParsesTheSyntax
<1>1. CASE Format
  <2>1. /\ UNCHANGED <<m_pattern, m_error>> /\ pc = "done"
        /\ out' \in [DOMAIN m_items -> UNION {Output(m_items[k]) : k \in DOMAIN m_items}]
        /\ \A k \in DOMAIN m_items : out'[k] \in Output(m_items[k])
    BY <1>1 DEF Format
  <2>2. PICK ref : ref = R(1) /\ ref = Reference(m_pattern) /\ ref = Reference(m_pattern)'
    BY <2>1 DEF R, Reference
  <2>3. /\ ref.ok = ~m_error
        /\ ref.ok => /\ AllKnown(ref.items)
                     /\ m_items = [k \in DOMAIN ref.items |-> Item(ref.items[k])]
    BY <2>1, <2>2 DEF DoneInv, HasDouble, size, At
  <2>4. ref \in Result
    <3>1. 1 \in 1..(size + 2)
      BY DEF TypeInv, size
    <3> QED BY <2>2, <3>1, RType
  <2>5. ASSUME ref.ok
        PROVE  /\ Len(out') = Len(ref.items)
               /\ \A k \in DOMAIN out' : Written(ref.items[k]) \in {out'[k], <<"any">>}
    <3>1. PICK items \in Seq(Tuples) : items = ref.items
      BY <2>4 DEF Result
    <3>2. AllKnown(items) /\ m_items = [k \in DOMAIN items |-> Item(items[k])]
      BY <2>3, <2>5, <3>1
    <3>3. DOMAIN items = 1..Len(items) /\ Len(items) \in Nat
      OBVIOUS
    <3>4. PICK S : out' \in [1..Len(items) -> S]
      BY <2>1, <3>2, <3>3
    <3>5. Len(out') = Len(items) /\ DOMAIN out' = 1..Len(items)
      BY <3>3, <3>4, IsASeq
    <3>6. ASSUME NEW k \in DOMAIN out' PROVE Written(items[k]) \in {out'[k], <<"any">>}
      <4>1. items[k] \in Tuples /\ Known(items[k])
        BY <3>2, <3>3, <3>5 DEF AllKnown
      <4>2. out'[k] \in Output(Item(items[k]))
        BY <2>1, <3>2, <3>3, <3>5
      <4> QED BY <4>1, <4>2, OutputIsWritten
    <3> QED BY <3>1, <3>5, <3>6
  <2> QED BY <2>1, <2>2, <2>3, <2>5
<1>2. CASE UNCHANGED vars
  BY <1>2 DEF vars, fields, ParsesTheSyntax, HasDouble, size, At
<1>3. ~(Literal \/ DoublePercent \/ Directive \/ StopName \/ OpenBrace \/ CloseBrace \/ Advance
        \/ EndInner \/ EmitItem \/ EmitError \/ MakeItems)
  BY DEF Literal, DoublePercent, Directive, StopName, OpenBrace, CloseBrace, Advance, EndInner,
         EmitItem, EmitError, MakeItems, InInner
<1> QED BY <1>1, <1>2, <1>3 DEF Next

-----------------------------------------------------------------------------
(* The theorems *)

\* init keeps its types, the inner loop reads what it should, and what has been
\* collected is what the characters read so far mean (log.cpp:543-666).
THEOREM ParserInvariant == Spec => []Inv
<1>1. Init => Inv
  BY InitTypes, InitCollect DEF Init, Inv, DoneInv, ParsesTheSyntax
<1>2. Inv /\ [Next]_vars => Inv'
  BY NextTypes, NextCollect, NextDone, NextParses DEF Inv
<1> QED BY <1>1, <1>2, PTL DEF Spec

\* A pattern without "%%" gives no error exactly when it is one of the documented
\* syntax, and then format writes its text, its items and its dates: for patterns
\* of any length (log.cpp:543-666, 522-529).
THEOREM Parses == Spec => []ParsesTheSyntax
<1>1. Inv => ParsesTheSyntax
  BY DEF Inv
<1> QED BY <1>1, ParserInvariant, PTL

-----------------------------------------------------------------------------
(* LogsText: finite sets *)

\* The image of a finite set under a function is finite.
LEMMA FiniteImage ==
  ASSUME NEW S, IsFiniteSet(S), NEW f
  PROVE  IsFiniteSet({f[x] : x \in S})
<1> DEFINE T == {f[x] : x \in S}
           g == [x \in S |-> f[x]]
<1>1. g \in Surjection(S, T)
  BY DEF Surjection
<1> HIDE DEF T, g
<1>2. IsFiniteSet(T)
  BY <1>1, FS_Surjection
<1> QED BY <1>2 DEF T

\* SetToSeq lists the elements of a finite set.
LEMMA ListsTheSet ==
  ASSUME NEW S, IsFiniteSet(S)
  PROVE  /\ SetToSeq(S) \in Seq(S)
         /\ \A x \in S : \E k \in DOMAIN SetToSeq(S) : SetToSeq(S)[k] = x
<1> DEFINE n == Cardinality(S)
           s == SetToSeq(S)
<1>1. n \in Nat /\ ExistsBijection(1..n, S)
  BY FS_CardinalityType
<1>2. PICK b : b \in Bijection(1..n, S)
  BY <1>1 DEF ExistsBijection
<1>3. b \in [1..n -> S] /\ IsInjective(b)
  BY <1>2 DEF Bijection, Injection
<1>4. s \in [1..n -> S] /\ IsInjective(s)
  BY <1>3, Zenon DEF SetToSeq
<1> HIDE DEF s
<1>5. s \in Injection(1..n, S)
  BY <1>4 DEF Injection
<1>6. Cardinality(1..n) = n
  BY <1>1, FS_Interval
<1>7. s \in Surjection(1..n, S)
  BY <1>5, <1>6, FS_Injection
<1>8. \A x \in S : \E k \in 1..n : s[k] = x
  BY <1>7 DEF Surjection
<1>9. s \in Seq(S) /\ DOMAIN s = 1..n
  BY <1>1, <1>4, IsASeq
<1> QED BY <1>8, <1>9 DEF s

-----------------------------------------------------------------------------
(* Reading appenders *)

\* What the loop over the nodes of a set S may push.
ReadFrom(S) == {ReadAppender(x) : x \in {y \in S : Accepted(y)}}

\* The loop has a value behind each node.
LEMMA PushedExists ==
  ASSUME NEW S, NEW nodes \in Seq(S)
  PROVE  \E g : g = [k \in 0..Len(nodes) |-> Pushed(nodes, g, k)]
<1> DEFINE T == {n \in Nat : \E g : g = [k \in 0..n |-> Pushed(nodes, g, k)]}
<1>1. 0 \in T
  <2>1. PICK g : g = [k \in 0..0 |-> <<>>]
    OBVIOUS
  <2>2. \A k \in 0..0 : Pushed(nodes, g, k) = <<>>
    BY DEF Pushed
  <2>3. g = [k \in 0..0 |-> Pushed(nodes, g, k)]
    BY <2>1, <2>2
  <2> QED BY <2>3
<1>2. ASSUME NEW n \in Nat, n \in T PROVE n + 1 \in T
  <2>1. PICK g : g = [k \in 0..n |-> Pushed(nodes, g, k)]
    BY <1>2
  <2> DEFINE h == [k \in 0..(n + 1) |-> IF k = n + 1 THEN Pushed(nodes, g, k) ELSE g[k]]
  <2>2. \A k \in 0..n : h[k] = g[k] /\ g[k] = Pushed(nodes, g, k)
    <3>1. \A k \in 0..n : g[k] = Pushed(nodes, g, k)
      BY <2>1
    <3> QED BY <3>1
  <2>3. h[n + 1] = Pushed(nodes, g, n + 1)
    OBVIOUS
  <2>4. ASSUME NEW k \in 0..(n + 1) PROVE h[k] = Pushed(nodes, h, k)
    <3>1. k # 0 => h[k - 1] = g[k - 1]
      BY <2>2
    <3> HIDE DEF h
    <3>2. Pushed(nodes, h, k) = Pushed(nodes, g, k)
      BY <3>1 DEF Pushed
    <3>3. h[k] = Pushed(nodes, g, k)
      BY <2>2, <2>3
    <3> QED BY <3>2, <3>3
  <2>5. h = [k \in 0..(n + 1) |-> Pushed(nodes, h, k)]
    BY <2>4
  <2> HIDE DEF h
  <2>6. \E f : f = [k \in 0..(n + 1) |-> Pushed(nodes, f, k)]
    BY <2>5
  <2> QED BY <2>6
<1>3. Len(nodes) \in T
  <2>1. T \in SUBSET Nat /\ Len(nodes) \in Nat
    OBVIOUS
  <2> HIDE DEF T
  <2> QED BY <1>1, <1>2, <2>1, SetInduction
<1> QED BY <1>3

\* ReadAppenders is the last value of that loop.
LEMMA ReadAppendersDef ==
  ASSUME NEW S, NEW nodes \in Seq(S)
  PROVE  \E g : /\ ReadAppenders(nodes) = g[Len(nodes)]
                /\ \A k \in 0..Len(nodes) : g[k] = Pushed(nodes, g, k)
<1>1. PICK g : g = [k \in 0..Len(nodes) |-> Pushed(nodes, g, k)] /\ ReadAppenders(nodes) = g[Len(nodes)]
  BY PushedExists, Zenon DEF ReadAppenders
<1>2. \A k \in 0..Len(nodes) : g[k] = Pushed(nodes, g, k)
  BY <1>1
<1> QED BY <1>1, <1>2

\* Only accepted nodes are pushed.
LEMMA ReadAppendersType ==
  ASSUME NEW S, NEW nodes \in Seq(S)
  PROVE  ReadAppenders(nodes) \in Seq(ReadFrom(S))
<1>1. PICK g : /\ ReadAppenders(nodes) = g[Len(nodes)]
               /\ \A k \in 0..Len(nodes) : g[k] = Pushed(nodes, g, k)
  BY ReadAppendersDef
<1> DEFINE T == {n \in Nat : n <= Len(nodes) => g[n] \in Seq(ReadFrom(S))}
<1>2. Len(nodes) \in Nat
  OBVIOUS
<1>3. 0 \in T
  <2>1. g[0] = <<>>
    BY <1>1, <1>2 DEF Pushed
  <2>2. g[0] \in Seq(ReadFrom(S))
    BY <2>1
  <2> QED BY <2>2
<1>4. ASSUME NEW n \in Nat, n \in T PROVE n + 1 \in T
  <2> SUFFICES ASSUME n + 1 <= Len(nodes) PROVE g[n + 1] \in Seq(ReadFrom(S))
    OBVIOUS
  <2>1. g[n] \in Seq(ReadFrom(S))
    BY <1>2, <1>4
  <2>2. nodes[n + 1] \in S
    BY <1>2
  <2>3. g[n + 1] = IF Accepted(nodes[n + 1]) THEN Append(g[n], ReadAppender(nodes[n + 1])) ELSE g[n]
    <3>1. g[n + 1] = Pushed(nodes, g, n + 1) /\ n + 1 # 0 /\ n + 1 - 1 = n
      BY <1>1, <1>2
    <3> QED BY <3>1 DEF Pushed
  <2>4. Accepted(nodes[n + 1]) => ReadAppender(nodes[n + 1]) \in ReadFrom(S)
    BY <2>2 DEF ReadFrom
  <2> QED BY <2>1, <2>3, <2>4
<1>5. Len(nodes) \in T
  <2>1. T \in SUBSET Nat
    OBVIOUS
  <2> HIDE DEF T
  <2> QED BY <1>2, <1>3, <1>4, <2>1, SetInduction
<1> QED BY <1>1, <1>5

\* Where every node is accepted, each of them is read.
LEMMA ReadAppendersAll ==
  ASSUME NEW S, NEW nodes \in Seq(S), \A k \in DOMAIN nodes : Accepted(nodes[k])
  PROVE  ReadAppenders(nodes) = [k \in DOMAIN nodes |-> ReadAppender(nodes[k])]
<1>1. PICK g : /\ ReadAppenders(nodes) = g[Len(nodes)]
               /\ \A k \in 0..Len(nodes) : g[k] = Pushed(nodes, g, k)
  BY ReadAppendersDef
<1>0. PICK U : \A x \in S : ReadAppender(x) \in U
  <2>1. \A x \in S : ReadAppender(x) \in {ReadAppender(y) : y \in S}
    OBVIOUS
  <2> QED BY <2>1
<1> DEFINE Good(n, s) == /\ s \in Seq(U) /\ Len(s) = n
                         /\ \A k \in 1..n : s[k] = ReadAppender(nodes[k])
           T == {n \in Nat : n <= Len(nodes) => Good(n, g[n])}
<1>2. Len(nodes) \in Nat /\ DOMAIN nodes = 1..Len(nodes)
  OBVIOUS
<1>3. 0 \in T
  <2>1. g[0] = <<>>
    BY <1>1, <1>2 DEF Pushed
  <2>2. g[0] \in Seq(U) /\ Len(g[0]) = 0
    BY <2>1
  <2>3. \A k \in 1..0 : FALSE
    OBVIOUS
  <2> QED BY <2>2, <2>3
<1>4. ASSUME NEW n \in Nat, n \in T PROVE n + 1 \in T
  <2> SUFFICES ASSUME n + 1 <= Len(nodes) PROVE Good(n + 1, g[n + 1])
    OBVIOUS
  <2>1. PICK s \in Seq(U) : s = g[n] /\ Len(s) = n /\ \A k \in 1..n : s[k] = ReadAppender(nodes[k])
    BY <1>2, <1>4
  <2>2. PICK e \in U : e = ReadAppender(nodes[n + 1])
    BY <1>0, <1>2
  <2>3. g[n + 1] = Append(s, e)
    <3>1. g[n + 1] = Pushed(nodes, g, n + 1) /\ n + 1 # 0 /\ n + 1 - 1 = n /\ Accepted(nodes[n + 1])
      BY <1>1, <1>2
    <3> QED BY <2>1, <2>2, <3>1 DEF Pushed
  <2>4. Append(s, e) \in Seq(U) /\ Len(Append(s, e)) = n + 1
    BY <2>1
  <2>5. ASSUME NEW k \in 1..(n + 1) PROVE Append(s, e)[k] = ReadAppender(nodes[k])
    BY <2>1, <2>2
  <2> QED BY <2>3, <2>4, <2>5
<1>5. Len(nodes) \in T
  <2>1. T \in SUBSET Nat
    OBVIOUS
  <2> HIDE DEF T
  <2> QED BY <1>2, <1>3, <1>4, <2>1, SetInduction
<1>6. PICK s \in Seq(U) : s = ReadAppenders(nodes) /\ Good(Len(nodes), s)
  BY <1>1, <1>2, <1>5
<1>7. s = [k \in 1..Len(nodes) |-> ReadAppender(nodes[k])]
  BY <1>2, <1>6
<1> QED BY <1>2, <1>6, <1>7

-----------------------------------------------------------------------------
(* Reading "logs" *)

\* What is read: an appender of one of the two types, and a definition.
ReadsAppender(a) ==
  /\ a = [type |-> a.type, level |-> UNKNOW, formatter |-> a.formatter, file |-> a.file]
  /\ a.formatter # NULL
  /\ \/ a.type = 1 /\ a.file # NULL
     \/ a.type = 2 /\ a.file = EMPTY
ReadsDefine(d) ==
  /\ d = [level |-> d.level, formatter |-> d.formatter, appenders |-> d.appenders]
  /\ d.level \in Level
  /\ d.appenders \in Seq(ToSet(d.appenders))
  /\ \A k \in DOMAIN d.appenders : ReadsAppender(d.appenders[k])
ReadsLogs(ds) ==
  /\ IsFiniteSet(DOMAIN ds) /\ NULL \notin DOMAIN ds
  /\ \A name \in DOMAIN ds : ReadsDefine(ds[name])

\* A document: a sequence of nodes with sequences of appenders.
Document(doc) ==
  /\ doc \in Seq(ToSet(doc))
  /\ \A k \in DOMAIN doc : doc[k].appenders \in Seq(ToSet(doc[k].appenders))

\* Every sequence is one of its own elements.
LEMMA SeqOfItsElements ==
  ASSUME NEW S, NEW s \in Seq(S)
  PROVE  s \in Seq(ToSet(s))
<1>1. DOMAIN s = 1..Len(s) /\ Len(s) \in Nat
  OBVIOUS
<1>2. \A k \in 1..Len(s) : s[k] \in ToSet(s)
  BY <1>1 DEF ToSet
<1>3. s \in [1..Len(s) -> ToSet(s)]
  BY <1>1, <1>2
<1> QED BY <1>1, <1>3, IsASeq

\* An accepted node is read as an appender of one of the two types.
LEMMA ReadAppenderType ==
  ASSUME NEW a, Accepted(a)
  PROVE  ReadsAppender(ReadAppender(a))
<1>1. Or(a.formatter, EMPTY) # NULL
  BY LogDefineAssumption DEF Or
<1>2. PICK f : f = Or(a.formatter, EMPTY) /\ f # NULL
  BY <1>1
<1>3. CASE a.type = "FileLogAppender" /\ a.file # NULL
  <2>1. ReadAppender(a) = [type |-> 1, level |-> UNKNOW, formatter |-> f, file |-> a.file]
    BY <1>2, <1>3 DEF ReadAppender
  <2>2. PICK r, g : r = ReadAppender(a) /\ g = a.file /\ g # NULL
    BY <1>3
  <2>3. r = [type |-> 1, level |-> UNKNOW, formatter |-> f, file |-> g]
    BY <2>1, <2>2
  <2>4. r.type = 1 /\ r.formatter = f /\ r.file = g
    BY <2>3
  <2>5. r = [type |-> r.type, level |-> UNKNOW, formatter |-> r.formatter, file |-> r.file]
    BY <2>3, <2>4
  <2>6. ReadsAppender(r)
    BY <1>2, <2>2, <2>4, <2>5 DEF ReadsAppender
  <2> QED BY <2>2, <2>6
<1>4. CASE a.type = "StdoutLogAppender"
  <2>1. ReadAppender(a) = [type |-> 2, level |-> UNKNOW, formatter |-> f, file |-> EMPTY]
    BY <1>2, <1>4 DEF ReadAppender
  <2> QED BY <1>2, <2>1 DEF ReadsAppender
<1> QED BY <1>3, <1>4 DEF Accepted

\* Every string is read as a level.
LEMMA LevelType ==
  ASSUME NEW s
  PROVE  LevelFromString(s) \in Level
BY DEF LevelFromString, Level

\* A node is read as a level and appenders of the two types.
LEMMA ReadDefineType ==
  ASSUME NEW n, n.appenders \in Seq(ToSet(n.appenders))
  PROVE  ReadsDefine(ReadDefine(n))
<1>1. PICK got : got = ReadAppenders(n.appenders)
  OBVIOUS
<1>2. PICK S : S = ToSet(n.appenders)
  OBVIOUS
<1>3. got \in Seq(ReadFrom(S))
  BY <1>1, <1>2, ReadAppendersType
<1>4. got \in Seq(ToSet(got))
  BY <1>3, SeqOfItsElements
<1>5. ASSUME NEW k \in DOMAIN got PROVE ReadsAppender(got[k])
  <2>1. got[k] \in ReadFrom(S)
    <3>1. PICK U : U = ReadFrom(S)
      OBVIOUS
    <3>2. got \in Seq(U)
      BY <1>3, <3>1
    <3>3. got[k] \in U
      BY <3>2
    <3> QED BY <3>1, <3>3
  <2>2. PICK x : Accepted(x) /\ got[k] = ReadAppender(x)
    BY <2>1 DEF ReadFrom
  <2> QED BY <2>2, ReadAppenderType
<1>6. PICK l \in Level : l = LevelFromString(Or(n.level, EMPTY))
  BY LevelType
<1>7. ReadDefine(n) = [level |-> l, formatter |-> Or(n.formatter, EMPTY), appenders |-> got]
  BY <1>1, <1>6 DEF ReadDefine
<1>8. PICK d : d = ReadDefine(n)
  OBVIOUS
<1>9. d.level = l /\ d.appenders = got /\ d = [level |-> l, formatter |-> d.formatter, appenders |-> got]
  BY <1>7, <1>8
<1> QED BY <1>4, <1>5, <1>8, <1>9 DEF ReadsDefine

\* Every name is defined by a node of the document.
LEMMA ReadLogsAt ==
  ASSUME NEW doc, Document(doc), NEW name \in DOMAIN ReadLogs(doc)
  PROVE  \E k \in DOMAIN doc : doc[k].name = name /\ ReadLogs(doc)[name] = ReadDefine(doc[k])
<1> DEFINE T == {k \in DOMAIN doc : doc[k].name = name}
<1>1. DOMAIN doc \subseteq Nat
  BY DEF Document
<1>2. name \in {doc[k].name : k \in DOMAIN doc}
  BY DEF ReadLogs
<1>3. T # {} /\ T \subseteq Nat
  BY <1>1, <1>2
<1>4. \E k \in T : \A j \in T : k <= j
  BY <1>3, LeastElement
<1>5. PICK k : k = CHOOSE m \in DOMAIN doc :
                      doc[m].name = name /\ \A j \in DOMAIN doc : doc[j].name = name => m <= j
  OBVIOUS
<1>6. k \in DOMAIN doc /\ doc[k].name = name
  <2>1. \E m \in DOMAIN doc : doc[m].name = name /\ \A j \in DOMAIN doc : doc[j].name = name => m <= j
    BY <1>4
  <2> QED BY <1>5, <2>1, Zenon
<1>7. ReadLogs(doc)[name] = ReadDefine(doc[k])
  BY <1>5 DEF ReadLogs
<1> QED BY <1>6, <1>7

\* A document is read as finitely many definitions, each with a name.
LEMMA ReadLogsType ==
  ASSUME NEW doc, Document(doc)
  PROVE  ReadsLogs(ReadLogs(doc))
<1> DEFINE N == {doc[k].name : k \in DOMAIN doc}
           f == [k \in DOMAIN doc |-> doc[k].name]
<1>1. DOMAIN ReadLogs(doc) = N \ {NULL}
  BY DEF ReadLogs
<1>2. IsFiniteSet(DOMAIN doc)
  <2>1. DOMAIN doc = 1..Len(doc) /\ Len(doc) \in Nat
    BY DEF Document
  <2> QED BY <2>1, FS_Interval
<1>3. N = {f[k] : k \in DOMAIN doc}
  OBVIOUS
<1>4. IsFiniteSet(N \ {NULL})
  <2> HIDE DEF N, f
  <2>1. IsFiniteSet(N)
    BY <1>2, <1>3, FiniteImage
  <2> QED BY <2>1, FS_RemoveElement
<1>5. ASSUME NEW name \in DOMAIN ReadLogs(doc) PROVE ReadsDefine(ReadLogs(doc)[name])
  <2>1. PICK k \in DOMAIN doc : ReadLogs(doc)[name] = ReadDefine(doc[k])
    BY ReadLogsAt
  <2>2. ReadsDefine(ReadDefine(doc[k]))
    BY ReadDefineType DEF Document
  <2> QED BY <2>1, <2>2
<1> QED BY <1>1, <1>4, <1>5 DEF ReadsLogs

\* doc lists the nodes of the names in N.
Lists(doc, N, nodes) ==
  /\ doc \in Seq(ToSet(doc))
  /\ \A k \in DOMAIN doc : \E name \in N : doc[k] = nodes[name]
  /\ \A name \in N : \E k \in DOMAIN doc : doc[k] = nodes[name]

\* SetToSeq of the nodes lists them.
LEMMA ListsNodes ==
  ASSUME NEW N, IsFiniteSet(N), NEW nodes
  PROVE  Lists(SetToSeq({nodes[name] : name \in N}), N, nodes)
<1>1. PICK S : S = {nodes[name] : name \in N}
  OBVIOUS
<1>2. IsFiniteSet(S)
  BY <1>1, FiniteImage
<1>3. PICK doc : doc = SetToSeq(S)
  OBVIOUS
<1>4. doc \in Seq(S) /\ \A x \in S : \E k \in DOMAIN doc : doc[k] = x
  BY <1>2, <1>3, ListsTheSet
<1>5. \A k \in DOMAIN doc : doc[k] \in S
  BY <1>4
<1>6. doc \in Seq(ToSet(doc))
  BY <1>4, SeqOfItsElements
<1>7. Lists(doc, N, nodes)
  BY <1>1, <1>4, <1>5, <1>6 DEF Lists
<1> QED BY <1>1, <1>3, <1>7

\* A document that lists one node for each of a set of names is read as the
\* definitions in those nodes.
LEMMA ReadsTheList ==
  ASSUME NEW N, NULL \notin N, NEW nodes,
         \A name \in N : /\ nodes[name].name = name
                         /\ nodes[name].appenders \in Seq(ToSet(nodes[name].appenders)),
         NEW doc, Lists(doc, N, nodes)
  PROVE  /\ Document(doc)
         /\ DOMAIN ReadLogs(doc) = N
         /\ \A name \in N : ReadLogs(doc)[name] = ReadDefine(nodes[name])
<1>1. Document(doc)
  BY DEF Document, Lists
<1>2. {doc[k].name : k \in DOMAIN doc} = N
  <2>1. \A k \in DOMAIN doc : doc[k].name \in N
    BY DEF Lists
  <2>2. ASSUME NEW name \in N PROVE \E k \in DOMAIN doc : doc[k].name = name
    <3>1. PICK k \in DOMAIN doc : doc[k] = nodes[name]
      BY DEF Lists
    <3> QED BY <3>1
  <2> QED BY <2>1, <2>2
<1>3. DOMAIN ReadLogs(doc) = N
  <2>1. DOMAIN ReadLogs(doc) = {doc[k].name : k \in DOMAIN doc} \ {NULL}
    BY DEF ReadLogs
  <2> QED BY <1>2, <2>1
<1>4. ASSUME NEW name \in N PROVE ReadLogs(doc)[name] = ReadDefine(nodes[name])
  <2>1. name \in DOMAIN ReadLogs(doc)
    BY <1>3
  <2>2. PICK k \in DOMAIN doc : doc[k].name = name /\ ReadLogs(doc)[name] = ReadDefine(doc[k])
    BY <1>1, <2>1, ReadLogsAt
  <2>3. PICK other \in N : doc[k] = nodes[other]
    BY DEF Lists
  <2>4. other = name
    BY <2>2, <2>3
  <2> QED BY <2>2, <2>3, <2>4
<1> QED BY <1>1, <1>3, <1>4

-----------------------------------------------------------------------------
(* What is written is read again *)

\* A level is written by its name, or not at all.
LEMMA LevelRereads ==
  ASSUME NEW l \in Level
  PROVE  LevelFromString(Or(LevelField(l), EMPTY)) = l
<1>1. CASE l = UNKNOW
  <2>1. Or(LevelField(l), EMPTY) = EMPTY
    BY <1>1 DEF LevelField, Or
  <2>2. EMPTY \notin {"debug", "DEBUG"} /\ EMPTY \notin {"fatal", "FATAL"}
    BY LogDefineAssumption DEF LevelNames
  <2> QED BY <1>1, <2>1, <2>2 DEF LevelFromString
<1>2. CASE l = DEBUG
  <2>1. Or(LevelField(l), EMPTY) = "DEBUG"
    BY <1>2, LogDefineAssumption DEF LevelField, LevelToString, Or, DEBUG, UNKNOW, LevelNames
  <2> QED BY <1>2, <2>1 DEF LevelFromString
<1>3. CASE l = FATAL
  <2>1. Or(LevelField(l), EMPTY) = "FATAL"
    BY <1>3, LogDefineAssumption DEF LevelField, LevelToString, Or, DEBUG, FATAL, UNKNOW, LevelNames
  <2> QED BY <1>3, <2>1 DEF LevelFromString
<1> QED BY <1>1, <1>2, <1>3 DEF Level

\* The type and file of an appender; its node, with what it has of a level and a
\* formatter.
Target(a) == \/ a.type = 1 /\ a.file # NULL
             \/ a.type = 2 /\ a.file = EMPTY
Node(a, l, f) == [type |-> TypeField(a.type), file |-> FileField(a), level |-> l, formatter |-> f]

\* The node of an appender is accepted, and is read as the appender, with formatter
\* f and no level.
LEMMA NodeRereads ==
  ASSUME NEW a, Target(a), NEW l, NEW f
  PROVE  /\ Accepted(Node(a, l, f))
         /\ ReadAppender(Node(a, l, f))
              = [type |-> a.type, level |-> UNKNOW, formatter |-> Or(f, EMPTY), file |-> a.file]
<1>1. PICK n : n = Node(a, l, f)
  OBVIOUS
<1>2. CASE a.type = 1
  <2>1. n.type = "FileLogAppender" /\ n.file = a.file /\ n.formatter = f /\ a.file # NULL
    BY <1>1, <1>2 DEF Node, TypeField, FileField, Target
  <2> QED BY <1>1, <1>2, <2>1 DEF Accepted, ReadAppender
<1>3. CASE a.type = 2
  <2>1. n.type = "StdoutLogAppender" /\ n.formatter = f /\ a.file = EMPTY
    BY <1>1, <1>3 DEF Node, TypeField, FileField, Target
  <2> QED BY <1>1, <1>3, <2>1 DEF Accepted, ReadAppender
<1> QED BY <1>2, <1>3 DEF Target

\* toString of an appender is read as the appender.
LEMMA AppenderRereads ==
  ASSUME NEW a, ReadsAppender(a)
  PROVE  Accepted(PrintAppender(a)) /\ ReadAppender(PrintAppender(a)) = a
<1>1. PICK f : f = IF a.formatter = EMPTY THEN NULL ELSE a.formatter
  OBVIOUS
<1>2. Or(f, EMPTY) = a.formatter
  BY <1>1 DEF Or, ReadsAppender
<1>3. a.level = UNKNOW /\ Target(a)
  BY DEF ReadsAppender, Target
<1>4. PrintAppender(a) = Node(a, NULL, f)
  BY <1>1, <1>3 DEF PrintAppender, Node, LevelField
<1>5. a = [type |-> a.type, level |-> UNKNOW, formatter |-> a.formatter, file |-> a.file]
  BY DEF ReadsAppender
<1> QED BY <1>2, <1>3, <1>4, <1>5, NodeRereads

\* An appender of a logger with formatter fmt: it has a formatter of its own, which is
\* valid, or the logger's.
IsAppender(a, fmt) ==
  /\ a = [type |-> a.type, file |-> a.file, m_level |-> a.m_level,
          m_formatter |-> a.m_formatter, m_hasFormatter |-> a.m_hasFormatter]
  /\ Target(a)
  /\ a.m_hasFormatter \in BOOLEAN
  /\ a.m_hasFormatter => a.m_formatter \in Formatters
  /\ ~a.m_hasFormatter => a.m_formatter = fmt
IsLogger(l) ==
  /\ l = [m_level |-> l.m_level, m_formatter |-> l.m_formatter, m_appenders |-> l.m_appenders]
  /\ l.m_level \in Level /\ l.m_formatter \in Formatters
  /\ l.m_appenders \in Seq(ToSet(l.m_appenders))
  /\ \A k \in DOMAIN l.m_appenders : IsAppender(l.m_appenders[k], l.m_formatter)
IsManager(ls) ==
  /\ IsFiniteSet(DOMAIN ls) /\ NULL \notin DOMAIN ls
  /\ \A name \in DOMAIN ls : IsLogger(ls[name])

\* toYamlString of an appender: the node makes the same appender, but for its level.
LEMMA AppenderReimports ==
  ASSUME NEW fmt, NEW a, IsAppender(a, fmt), NEW n, n = AppenderToYaml(a)
  PROVE  Accepted(n) /\ ApplyAppender(ReadAppender(n), fmt) = [a EXCEPT !.m_level = UNKNOW]
<1>1. PICK f : f = IF a.m_hasFormatter THEN a.m_formatter ELSE NULL
  OBVIOUS
<1>2. PICK l : l = LevelField(a.m_level)
  OBVIOUS
<1>3. n = Node(a, l, f)
  BY <1>1, <1>2 DEF AppenderToYaml, Node
<1>4. PICK r : r = ReadAppender(n)
  OBVIOUS
<1>5. Accepted(n) /\ r = [type |-> a.type, level |-> UNKNOW, formatter |-> Or(f, EMPTY), file |-> a.file]
  BY <1>3, <1>4, NodeRereads DEF IsAppender
<1>6. r.type = a.type /\ r.level = UNKNOW /\ r.formatter = Or(f, EMPTY) /\ r.file = a.file
  BY <1>5
<1>7. [a EXCEPT !.m_level = UNKNOW]
        = [type |-> a.type, file |-> a.file, m_level |-> UNKNOW,
           m_formatter |-> a.m_formatter, m_hasFormatter |-> a.m_hasFormatter]
  BY DEF IsAppender
<1>8. CASE a.m_hasFormatter
  <2>1. r.formatter = a.m_formatter /\ r.formatter \in Formatters /\ a.m_hasFormatter = TRUE
    BY <1>1, <1>6, <1>8, LogDefineAssumption DEF Or, IsAppender
  <2>2. ApplyAppender(r, fmt)
          = [type |-> a.type, file |-> a.file, m_level |-> UNKNOW,
             m_formatter |-> a.m_formatter, m_hasFormatter |-> TRUE]
    BY <1>6, <2>1 DEF ApplyAppender
  <2> QED BY <1>4, <1>5, <1>7, <2>1, <2>2
<1>9. CASE ~a.m_hasFormatter
  <2>1. r.formatter \notin Formatters /\ a.m_formatter = fmt /\ a.m_hasFormatter = FALSE
    BY <1>1, <1>6, <1>9, LogDefineAssumption DEF Or, IsAppender
  <2>2. PICK own : own = (r.formatter \in Formatters)
    OBVIOUS
  <2>3. own = FALSE
    <3>1. (r.formatter \in Formatters) = FALSE
      BY <2>1, SMT
    <3> QED BY <2>2, <3>1, Zenon
  <2>4. ApplyAppender(r, fmt)
          = [type |-> r.type, file |-> r.file, m_level |-> r.level,
             m_formatter |-> IF own THEN r.formatter ELSE fmt, m_hasFormatter |-> own]
    BY <2>2, Zenon DEF ApplyAppender
  <2> QED BY <1>4, <1>5, <1>6, <1>7, <2>1, <2>3, <2>4
<1> QED BY <1>8, <1>9

\* A sequence of the nodes of appenders is a sequence.
LEMMA NodesAreASeq ==
  ASSUME NEW s, s \in Seq(ToSet(s)), NEW t, DOMAIN t = DOMAIN s, t = [k \in DOMAIN t |-> t[k]]
  PROVE  t \in Seq(ToSet(t))
<1>1. DOMAIN s = 1..Len(s) /\ Len(s) \in Nat
  OBVIOUS
<1>2. \A k \in 1..Len(s) : t[k] \in ToSet(t)
  BY <1>1 DEF ToSet
<1>3. t \in [1..Len(s) -> ToSet(t)]
  BY <1>1, <1>2
<1> QED BY <1>1, <1>3, IsASeq

\* toString of a definition: all but the formatter of the logger.
LEMMA DefineRereads ==
  ASSUME NEW d, ReadsDefine(d), NEW name, NEW n, n = PrintDefine(name, d)
  PROVE  /\ n.name = name
         /\ n.appenders \in Seq(ToSet(n.appenders))
         /\ ReadDefine(n) = [d EXCEPT !.formatter = EMPTY]
<1>1. PICK s : s = d.appenders /\ s \in Seq(ToSet(s)) /\ \A k \in DOMAIN s : ReadsAppender(s[k])
  BY DEF ReadsDefine
<1>2. PICK t : t = [k \in DOMAIN s |-> PrintAppender(s[k])]
  OBVIOUS
<1>3. t \in Seq(ToSet(t)) /\ DOMAIN t = DOMAIN s
  <2>1. DOMAIN t = DOMAIN s /\ t = [k \in DOMAIN t |-> t[k]]
    BY <1>2
  <2> QED BY <1>1, <2>1, NodesAreASeq
<1>4. \A k \in DOMAIN t : Accepted(t[k]) /\ ReadAppender(t[k]) = s[k]
  BY <1>1, <1>2, <1>3, AppenderRereads
<1>5. ReadAppenders(t) = [k \in DOMAIN t |-> ReadAppender(t[k])]
  BY <1>3, <1>4, ReadAppendersAll
<1>6. ReadAppenders(t) = s
  <2>1. s = [k \in DOMAIN s |-> s[k]]
    BY <1>1
  <2> QED BY <1>3, <1>4, <1>5, <2>1
<1>7. n.name = name /\ n.level = LevelField(d.level) /\ n.appenders = t
  BY <1>1, <1>2 DEF PrintDefine
<1>8. Or(n.formatter, EMPTY) = EMPTY
  BY DEF PrintDefine, Or
<1>9. LevelFromString(Or(n.level, EMPTY)) = d.level
  BY <1>7, LevelRereads DEF ReadsDefine
<1>10. ReadDefine(n) = [level |-> d.level, formatter |-> EMPTY, appenders |-> s]
  BY <1>6, <1>7, <1>8, <1>9 DEF ReadDefine
<1>11. [d EXCEPT !.formatter = EMPTY] = [level |-> d.level, formatter |-> EMPTY, appenders |-> s]
  <2>1. d = [level |-> d.level, formatter |-> d.formatter, appenders |-> s]
    BY <1>1 DEF ReadsDefine
  <2> QED BY <2>1
<1> QED BY <1>3, <1>7, <1>10, <1>11

\* toYamlString of a logger: the node makes the same logger, but for the levels of
\* its appenders.
LEMMA LoggerReimports ==
  ASSUME NEW l, IsLogger(l), NEW name, NEW n, n = LoggerToYaml(name, l)
  PROVE  /\ n.name = name
         /\ n.appenders \in Seq(ToSet(n.appenders))
         /\ Apply(ReadDefine(n)) = Unlevelled(l)
<1>1. PICK fmt \in Formatters : fmt = l.m_formatter
  BY DEF IsLogger
<1>2. PICK s : s = l.m_appenders /\ s \in Seq(ToSet(s)) /\ \A k \in DOMAIN s : IsAppender(s[k], fmt)
  BY <1>1 DEF IsLogger
<1>3. PICK t : t = [k \in DOMAIN s |-> AppenderToYaml(s[k])]
  OBVIOUS
<1>4. n.name = name /\ n.level = LevelField(l.m_level) /\ n.formatter = fmt /\ n.appenders = t
  BY <1>1, <1>2, <1>3 DEF LoggerToYaml
<1>5. t \in Seq(ToSet(t)) /\ DOMAIN t = DOMAIN s
  <2>1. DOMAIN t = DOMAIN s /\ t = [k \in DOMAIN t |-> t[k]]
    BY <1>3
  <2> QED BY <1>2, <2>1, NodesAreASeq
<1>6. \A k \in DOMAIN t : /\ Accepted(t[k])
                         /\ ApplyAppender(ReadAppender(t[k]), fmt) = [s[k] EXCEPT !.m_level = UNKNOW]
  <2> TAKE k \in DOMAIN t
  <2>1. t[k] = AppenderToYaml(s[k]) /\ IsAppender(s[k], fmt)
    BY <1>2, <1>3, <1>5
  <2> QED BY <2>1, AppenderReimports
<1>7. PICK r : r = ReadAppenders(t)
  OBVIOUS
<1>8. r = [k \in DOMAIN t |-> ReadAppender(t[k])]
  BY <1>5, <1>6, <1>7, ReadAppendersAll
<1>9. [k \in DOMAIN r |-> ApplyAppender(r[k], fmt)] = [k \in DOMAIN s |-> [s[k] EXCEPT !.m_level = UNKNOW]]
  BY <1>5, <1>6, <1>8
<1>10. PICK e : e = ReadDefine(n)
  OBVIOUS
<1>11. e.level = l.m_level /\ e.formatter = fmt /\ e.appenders = r
  <2>1. Or(n.formatter, EMPTY) = fmt
    BY <1>1, <1>4, LogDefineAssumption DEF Or
  <2>2. LevelFromString(Or(n.level, EMPTY)) = l.m_level
    BY <1>4, LevelRereads DEF IsLogger
  <2> QED BY <1>4, <1>7, <1>10, <2>1, <2>2 DEF ReadDefine
<1>12. Apply(e) = [m_level |-> l.m_level, m_formatter |-> fmt,
                   m_appenders |-> [k \in DOMAIN s |-> [s[k] EXCEPT !.m_level = UNKNOW]]]
  BY <1>1, <1>9, <1>11 DEF Apply
<1>13. Apply(e) = Unlevelled(l)
  BY <1>1, <1>2, <1>12 DEF Unlevelled
<1> QED BY <1>4, <1>5, <1>10, <1>13

\* The appender and the logger that a definition makes.
LEMMA AppliedAppender ==
  ASSUME NEW a, ReadsAppender(a), NEW fmt
  PROVE  IsAppender(ApplyAppender(a, fmt), fmt)
<1>1. PICK own \in BOOLEAN : own = (a.formatter \in Formatters)
  <2>1. (a.formatter \in Formatters) \in BOOLEAN
    BY SMT
  <2> QED BY <2>1, Zenon
<1>2. PICK b : b = ApplyAppender(a, fmt)
  OBVIOUS
<1>3. b = [type |-> a.type, file |-> a.file, m_level |-> a.level,
           m_formatter |-> IF own THEN a.formatter ELSE fmt, m_hasFormatter |-> own]
  BY <1>1, <1>2 DEF ApplyAppender
<1>4. /\ b.type = a.type /\ b.file = a.file /\ b.m_level = a.level
      /\ b.m_formatter = (IF own THEN a.formatter ELSE fmt) /\ b.m_hasFormatter = own
  BY <1>3
<1>5. Target(b)
  BY <1>4 DEF Target, ReadsAppender
<1>6. b = [type |-> b.type, file |-> b.file, m_level |-> b.m_level,
           m_formatter |-> b.m_formatter, m_hasFormatter |-> b.m_hasFormatter]
  BY <1>3, <1>4
<1>7. IsAppender(b, fmt)
  BY <1>1, <1>4, <1>5, <1>6 DEF IsAppender
<1> QED BY <1>2, <1>7

LEMMA AppliedLogger ==
  ASSUME NEW d, ReadsDefine(d)
  PROVE  IsLogger(Apply(d))
<1>1. PICK s : s = d.appenders /\ s \in Seq(ToSet(s)) /\ \A k \in DOMAIN s : ReadsAppender(s[k])
  BY DEF ReadsDefine
<1>2. PICK fmt \in Formatters : fmt = IF d.formatter \in Formatters THEN d.formatter ELSE DefaultFmt
  BY LogDefineAssumption
<1>3. PICK t : t = [k \in DOMAIN s |-> ApplyAppender(s[k], fmt)]
  OBVIOUS
<1>4. PICK l : l = Apply(d)
  OBVIOUS
<1>5. l = [m_level |-> d.level, m_formatter |-> fmt, m_appenders |-> t]
  BY <1>1, <1>2, <1>3, <1>4 DEF Apply
<1>6. l.m_level = d.level /\ l.m_formatter = fmt /\ l.m_appenders = t
  BY <1>5
<1>7. t \in Seq(ToSet(t)) /\ DOMAIN t = DOMAIN s
  <2>1. DOMAIN t = DOMAIN s /\ t = [k \in DOMAIN t |-> t[k]]
    BY <1>3
  <2> QED BY <1>1, <2>1, NodesAreASeq
<1>8. \A k \in DOMAIN t : IsAppender(t[k], fmt)
  <2> TAKE k \in DOMAIN t
  <2>1. t[k] = ApplyAppender(s[k], fmt) /\ ReadsAppender(s[k])
    BY <1>1, <1>3, <1>7
  <2> QED BY <2>1, AppliedAppender
<1>9. IsLogger(l)
  BY <1>5, <1>6, <1>7, <1>8 DEF IsLogger, ReadsDefine
<1> QED BY <1>4, <1>9

\* The root logger of the LoggerManager's constructor.
LEMMA DefaultLogger == IsLogger(DefaultRoot)
<1>1. PICK a : a = [type |-> 2, file |-> EMPTY, m_level |-> DEBUG,
                    m_formatter |-> DefaultFmt, m_hasFormatter |-> FALSE]
  OBVIOUS
<1>2. a.type = 2 /\ a.file = EMPTY /\ a.m_level = DEBUG /\ a.m_formatter = DefaultFmt /\ a.m_hasFormatter = FALSE
  BY <1>1
<1>3. IsAppender(a, DefaultFmt)
  BY <1>1, <1>2 DEF IsAppender, Target
<1>4. PICK s : s = <<a>>
  OBVIOUS
<1>5. s \in Seq({a}) /\ DOMAIN s = {1} /\ s[1] = a
  BY <1>4
<1>6. s \in Seq(ToSet(s))
  BY <1>5, SeqOfItsElements
<1>7. PICK l : l = DefaultRoot
  OBVIOUS
<1>8. l = [m_level |-> DEBUG, m_formatter |-> DefaultFmt, m_appenders |-> s]
  BY <1>1, <1>4, <1>7 DEF DefaultRoot
<1>9. l.m_level = DEBUG /\ l.m_formatter = DefaultFmt /\ l.m_appenders = s
  BY <1>8
<1>10. \A k \in DOMAIN s : IsAppender(s[k], DefaultFmt)
  BY <1>3, <1>5
<1>11. DEBUG \in Level /\ DefaultFmt \in Formatters
  BY LogDefineAssumption DEF Level
<1>12. IsLogger(l)
  BY <1>6, <1>8, <1>9, <1>10, <1>11 DEF IsLogger
<1> QED BY <1>7, <1>12

-----------------------------------------------------------------------------
(* What the variable "logs" writes, as a whole *)

\* toString of "logs": all but the formatters of loggers.
LEMMA LogsReadAgain ==
  ASSUME NEW ds, ReadsLogs(ds)
  PROVE  /\ Document(PrintLogs(ds))
         /\ ReadLogs(PrintLogs(ds))
              = [name \in DOMAIN ds |-> [ds[name] EXCEPT !.formatter = EMPTY]]
<1>1. PICK N : N = DOMAIN ds /\ IsFiniteSet(N) /\ NULL \notin N
  BY DEF ReadsLogs
<1>2. PICK nodes : nodes = [name \in N |-> PrintDefine(name, ds[name])]
  OBVIOUS
<1>3. PICK doc : doc = SetToSeq({nodes[name] : name \in N})
  OBVIOUS
<1>4. PrintLogs(ds) = doc
  <2>1. {nodes[name] : name \in N} = {PrintDefine(name, ds[name]) : name \in N}
    BY <1>2
  <2> QED BY <1>1, <1>3, <2>1 DEF PrintLogs
<1>5. ASSUME NEW name \in N
      PROVE  /\ nodes[name].name = name
             /\ nodes[name].appenders \in Seq(ToSet(nodes[name].appenders))
             /\ ReadDefine(nodes[name]) = [ds[name] EXCEPT !.formatter = EMPTY]
  <2>1. nodes[name] = PrintDefine(name, ds[name])
    BY <1>2
  <2>2. ReadsDefine(ds[name])
    BY <1>1 DEF ReadsLogs
  <2> QED BY <2>1, <2>2, DefineRereads
<1>6. Lists(doc, N, nodes)
  BY <1>1, <1>3, ListsNodes
<1>7. /\ Document(doc)
      /\ DOMAIN ReadLogs(doc) = N
      /\ \A name \in N : ReadLogs(doc)[name] = ReadDefine(nodes[name])
  <2>1. \A name \in N : /\ nodes[name].name = name
                       /\ nodes[name].appenders \in Seq(ToSet(nodes[name].appenders))
    BY <1>5
  <2> QED BY <1>1, <1>6, <2>1, ReadsTheList
<1>8. PICK got : got = ReadLogs(doc)
  OBVIOUS
<1>9. got = [name \in DOMAIN got |-> got[name]]
  BY <1>8 DEF ReadLogs
<1>10. got = [name \in DOMAIN ds |-> [ds[name] EXCEPT !.formatter = EMPTY]]
  BY <1>1, <1>5, <1>7, <1>8, <1>9
<1> QED BY <1>4, <1>7, <1>8, <1>10

\* toYamlString of the manager: the document makes the same loggers, but for the
\* levels of their appenders.
LEMMA LogsReimport ==
  ASSUME NEW ls, IsManager(ls)
  PROVE  /\ Document(ManagerToYaml(ls))
         /\ DOMAIN ReadLogs(ManagerToYaml(ls)) = DOMAIN ls
         /\ \A name \in DOMAIN ls : Apply(ReadLogs(ManagerToYaml(ls))[name]) = Unlevelled(ls[name])
<1>1. PICK N : N = DOMAIN ls /\ IsFiniteSet(N) /\ NULL \notin N
  BY DEF IsManager
<1>2. PICK nodes : nodes = [name \in N |-> LoggerToYaml(name, ls[name])]
  OBVIOUS
<1>3. PICK doc : doc = SetToSeq({nodes[name] : name \in N})
  OBVIOUS
<1>4. ManagerToYaml(ls) = doc
  <2>1. {nodes[name] : name \in N} = {LoggerToYaml(name, ls[name]) : name \in N}
    BY <1>2
  <2> QED BY <1>1, <1>3, <2>1 DEF ManagerToYaml
<1>5. ASSUME NEW name \in N
      PROVE  /\ nodes[name].name = name
             /\ nodes[name].appenders \in Seq(ToSet(nodes[name].appenders))
             /\ Apply(ReadDefine(nodes[name])) = Unlevelled(ls[name])
  <2>1. nodes[name] = LoggerToYaml(name, ls[name])
    BY <1>2
  <2>2. IsLogger(ls[name])
    BY <1>1 DEF IsManager
  <2> QED BY <2>1, <2>2, LoggerReimports
<1>6. Lists(doc, N, nodes)
  BY <1>1, <1>3, ListsNodes
<1>7. /\ Document(doc)
      /\ DOMAIN ReadLogs(doc) = N
      /\ \A name \in N : ReadLogs(doc)[name] = ReadDefine(nodes[name])
  BY <1>1, <1>5, <1>6, ReadsTheList
<1> QED BY <1>1, <1>4, <1>5, <1>7

\* The listener keeps the loggers it does not name, and makes the others.
LEMMA ConfiguredManager ==
  ASSUME NEW ls, IsManager(ls), NEW ds, ReadsLogs(ds),
         NEW to, to = [name \in DOMAIN ls \cup DOMAIN ds |->
                         IF name \in DOMAIN ds THEN Apply(ds[name]) ELSE ls[name]]
  PROVE  IsManager(to)
<1>1. DOMAIN to = DOMAIN ls \cup DOMAIN ds
  OBVIOUS
<1>2. IsFiniteSet(DOMAIN to) /\ NULL \notin DOMAIN to
  BY <1>1, FS_Union DEF IsManager, ReadsLogs
<1>3. ASSUME NEW name \in DOMAIN to PROVE IsLogger(to[name])
  <2>1. CASE name \in DOMAIN ds
    <3>1. to[name] = Apply(ds[name]) /\ ReadsDefine(ds[name])
      BY <2>1 DEF ReadsLogs
    <3> QED BY <3>1, AppliedLogger
  <2>2. CASE name \notin DOMAIN ds
    <3>1. to[name] = ls[name] /\ name \in DOMAIN ls
      BY <1>1, <2>2
    <3> QED BY <3>1 DEF IsManager
  <2> QED BY <2>1, <2>2
<1> QED BY <1>2, <1>3 DEF IsManager

-----------------------------------------------------------------------------
(* The life of "logs" *)

\* Whatever has been read is well formed, as are the loggers, and the text in hand
\* is the one that the stage says: a document, or what was written of the value or
\* of the loggers.
LogsInv ==
  /\ type = Logs
  /\ stage \in {"text", "read", "printed", "applied", "exported", "reread", "imported"}
  /\ stage = "text" => text \in LogTexts
  /\ ReadsLogs(val) /\ ReadsLogs(again)
  /\ stage = "printed" => text = PrintLogs(val)
  /\ IsManager(loggers)
  /\ stage = "exported" => text = ManagerToYaml(loggers)
  /\ ExportReimports
  /\ LogsReread

\* Nothing has been read yet.
LEMMA LogsInitInv == LogsInit => LogsInv
<1> SUFFICES ASSUME LogsInit PROVE LogsInv
  OBVIOUS
<1>1. ReadsLogs(<<>>)
  <2>1. DOMAIN <<>> = {}
    OBVIOUS
  <2> QED BY <2>1, FS_EmptySet DEF ReadsLogs
<1>2. IsManager(loggers)
  <2>1. DOMAIN loggers = {"root"} /\ loggers["root"] = DefaultRoot
    BY DEF LogsInit
  <2>2. IsFiniteSet({"root"})
    BY FS_Singleton
  <2> QED BY <2>1, <2>2, DefaultLogger, LogsTextAssumption DEF IsManager
<1> QED BY <1>1, <1>2 DEF LogsInit, LogsInv, ExportReimports, LogsReread

\* Reading, writing, configuring and exporting keep it.
LEMMA LogsNextInv == LogsInv /\ [LogsNext]_textVars => LogsInv'
<1> SUFFICES ASSUME LogsInv, [LogsNext]_textVars PROVE LogsInv'
  OBVIOUS
<1>1. CASE ReadText(ReadLogs(text))
  <2>1. Document(text)
    BY <1>1, LogsTextAssumption DEF LogsInv, ReadText, Document
  <2>2. ReadsLogs(val')
    BY <1>1, <2>1, ReadLogsType DEF ReadText
  <2> QED BY <1>1, <2>2 DEF ReadText, LogsInv, ExportReimports, LogsReread
<1>2. CASE PrintValue(PrintLogs(val))
  <2>1. stage = "read" /\ stage' = "printed" /\ text' = PrintLogs(val)
    BY <1>2 DEF PrintValue, LogsInv
  <2>2. UNCHANGED <<type, val, again, loggers>>
    BY <1>2 DEF PrintValue
  <2> QED BY <2>1, <2>2 DEF LogsInv, ExportReimports, LogsReread
<1>3. CASE ReadAgain(ReadLogs(text))
  <2>1. again' = ReadLogs(text) /\ UNCHANGED <<type, text, val, loggers>>
    BY <1>3 DEF ReadAgain
  <2>2. CASE stage = "printed"
    <3>1. stage' = "reread" /\ text = PrintLogs(val)
      BY <1>3, <2>2 DEF ReadAgain, LogsInv
    <3>2. Document(text) /\ again' = [name \in DOMAIN val |-> [val[name] EXCEPT !.formatter = EMPTY]]
      BY <2>1, <3>1, LogsReadAgain DEF LogsInv
    <3>3. ReadsLogs(again')
      BY <2>1, <3>2, ReadLogsType
    <3> QED BY <2>1, <3>1, <3>2, <3>3 DEF LogsInv, ExportReimports, LogsReread
  <2>3. CASE stage = "exported"
    <3>1. stage' = "imported" /\ text = ManagerToYaml(loggers) /\ IsManager(loggers)
      BY <1>3, <2>3 DEF ReadAgain, LogsInv
    <3>2. /\ Document(text) /\ DOMAIN again' = DOMAIN loggers
          /\ \A name \in DOMAIN loggers : Apply(again'[name]) = Unlevelled(loggers[name])
      BY <2>1, <3>1, LogsReimport
    <3>3. ReadsLogs(again')
      BY <2>1, <3>2, ReadLogsType
    <3> QED BY <2>1, <3>1, <3>2, <3>3 DEF LogsInv, ExportReimports, LogsReread
  <2> QED BY <1>3, <2>2, <2>3 DEF ReadAgain, LogsInv
<1>4. CASE Configure
  <2>1. IsManager(loggers) /\ ReadsLogs(val)
    BY DEF LogsInv
  <2>2. IsManager(loggers')
    BY <1>4, <2>1, ConfiguredManager DEF Configure
  <2> QED BY <1>4, <2>2 DEF Configure, LogsInv, ExportReimports, LogsReread
<1>5. CASE Export
  BY <1>5 DEF Export, LogsInv, ExportReimports, LogsReread
<1>6. CASE UNCHANGED textVars
  BY <1>6 DEF textVars, LogsInv, ExportReimports, LogsReread
<1> QED BY <1>1, <1>2, <1>3, <1>4, <1>5, <1>6 DEF LogsNext

\* The inductive invariant holds, for every set of documents.
THEOREM LogsInvariant == LogsSpec => []LogsInv
<1>1. LogsInit => LogsInv
  BY LogsInitInv
<1>2. LogsInv /\ [LogsNext]_textVars => LogsInv'
  BY LogsNextInv
<1> QED BY <1>1, <1>2, PTL DEF LogsSpec

\* Every appender read of "logs", whatever the document and however often it is
\* written and read, is a file appender with a file or a stdout appender, the
\* only ones that the listener can make (log.cpp:892-899).
THEOREM LogsTyped == LogsSpec => []TypeOK
<1>1. LogsInv => TypeOK
  <2> SUFFICES ASSUME LogsInv PROVE TypeOK
    OBVIOUS
  <2>1. ASSUME NEW ds \in {val, again}, NEW name \in DOMAIN ds
        PROVE  /\ ds[name].level \in Level
               /\ \A k \in DOMAIN ds[name].appenders :
                    LET a == ds[name].appenders[k] IN
                    (a.type = 1 /\ a.file # NULL) \/ a.type = 2
    <3>1. ReadsLogs(ds)
      BY DEF LogsInv
    <3>2. ReadsDefine(ds[name])
      BY <3>1 DEF ReadsLogs
    <3>3. \A k \in DOMAIN ds[name].appenders : ReadsAppender(ds[name].appenders[k])
      BY <3>2 DEF ReadsDefine
    <3> QED BY <3>2, <3>3 DEF ReadsDefine, ReadsAppender
  <2>2. stage \in {"text", "set", "read", "printed", "printed set", "applied", "exported",
                   "reread", "reread set", "imported"}
    BY DEF LogsInv
  <2> QED BY <2>1, <2>2 DEF TypeOK
<1> QED BY <1>1, LogsInvariant, PTL

\* What LoggerManager::toYamlString exports is read back as the loggers of the manager,
\* its default root logger included, for every document that they were configured
\* from; only the levels of appenders, which the code does not read, are lost.
THEOREM LogsReimported == LogsSpec => []ExportReimports
<1>1. LogsInv => ExportReimports
  BY DEF LogsInv
<1> QED BY <1>1, LogsInvariant, PTL

\* What toString writes of "logs" is read as its value, for every document, but
\* for the formatters of loggers (log.cpp:816).
THEOREM LogsRewritten == LogsSpec => []LogsReread
<1>1. LogsInv => LogsReread
  BY DEF LogsInv
<1> QED BY <1>1, LogsInvariant, PTL
=============================================================================
