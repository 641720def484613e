---------------------------- MODULE LoggerProofs ----------------------------
(***************************************************************************)
(* Proofs about Logger, for any number of threads, loggers, configurations *)
(* and formatters: a walk over a list of appenders is undisturbed but by   *)
(* delAppender, inherited formatters follow their logger, a null formatter *)
(* is used only after a setFormatter(nullptr), and a reload that no other  *)
(* overlaps applies its configuration.                                     *)
(***************************************************************************)
EXTENDS Logger, SequenceTheorems, TLAPS

-----------------------------------------------------------------------------
(* The invariant *)

\* The users' appender is in one list at a time, once, and in none while one of
\* them is inside of addAppender.  A formatter it was given is no null pointer.
MineInv ==
  /\ mine.has => mine.own # NULL
  /\ \A n \in Names : \A i, j \in DOMAIN m_appenders[n] :
       m_appenders[n][i] = Mine /\ m_appenders[n][j] = Mine => i = j
  /\ \A m, n \in Names : Attached(m) /\ Attached(n) => m = n
  /\ \A u \in Users : adding[u] # NULL => \A n \in Names : ~Attached(n)
  /\ \A u, v \in Users : adding[u] # NULL /\ adding[v] # NULL => u = v

\* The type of the users' appender
MinePtr == [fmt : FormatterPtr, has : BOOLEAN, own : FormatterPtr, loose : BOOLEAN, over : BOOLEAN]

\* A configured appender has a formatter, its own or the logger's.
FormatterInv(n) ==
  \A i \in DOMAIN m_appenders[n] : m_appenders[n][i] # Mine =>
    /\ m_appenders[n][i].has => m_appenders[n][i].fmt # NULL
    /\ ~m_appenders[n][i].has => m_appenders[n][i].fmt = m_formatter[n]

\* The users' appender formats like its logger or with the formatter given to it.
MineFormatterInv ==
  /\ \A n \in Names : Attached(n) /\ ~mine.has /\ ~mine.loose => mine.fmt = m_formatter[n]
  /\ mine.has /\ ~mine.over => mine.fmt = mine.own

\* The two loops of the listener stay inside the sets they go over.
ReloadInv(r) ==
  /\ pc[r] = "next" => todo[r] \subseteq DOMAIN new[r]
  /\ pc[r] \in {"level", "formatter", "clear", "add"} =>
       cur[r] \in DOMAIN new[r] /\ todo[r] \subseteq DOMAIN new[r]
  /\ pc[r] \in {"level", "formatter", "clear"} => made[r] = 0

\* The two parts of IterationUndisturbed: the walks, and the erasers.
WalkInv ==
  \A t \in Walkers : event[t] # NULL /\ event[t].at = "list" /\ ~event[t].raced
    => m_appenders[event[t].of] = event[t].all
EraseInv == \A u \in Users \ lost : erasing[u] # NULL => Attached(erasing[u])

ListsInv == MineInv /\ (\A n \in Names : FormatterInv(n)) /\ MineFormatterInv

IInv ==
  /\ TypeOK
  /\ ListsInv
  /\ \A r \in Reloaders : ReloadInv(r)
  /\ WalkInv
  /\ EraseInv
  /\ NoNullFormatter

-----------------------------------------------------------------------------
(* A reload by itself *)

\* The first k appenders of definition d are all that logger n has of its own.
Applied(n, d, k) ==
  /\ n \in m_loggers
  /\ m_level[n] = d.level
  /\ Len(Configured(n)) = k
  /\ \A i \in 1..k : IsOf(Configured(n)[i], d.appenders[i])

AppliedAll(n, d) == Applied(n, d, Len(d.appenders))

\* No reload overlaps another.
SoleInv ==
  ~mixed => \A r, q \in Reloaders : pc[r] # "idle" /\ pc[q] # "idle" => r = q

\* What the first loop of the listener has behind it is applied.
Progress(r) ==
  /\ pc[r] = "next" => \A n \in DOMAIN new[r] \ todo[r] : AppliedAll(n, new[r][n])
  /\ pc[r] \in {"removed", "store"} => \A n \in DOMAIN new[r] : AppliedAll(n, new[r][n])
  /\ pc[r] \in {"level", "formatter", "clear", "add"} =>
       /\ \A n \in DOMAIN new[r] \ (todo[r] \cup {cur[r]}) : AppliedAll(n, new[r][n])
       /\ cur[r] \in m_loggers
  /\ pc[r] \in {"formatter", "clear", "add"} => m_level[cur[r]] = Define(r).level
  /\ pc[r] = "add" => Applied(cur[r], Define(r), made[r])

AppliedInv ==
  ~mixed =>
    /\ Quiet => \A n \in DOMAIN g_log_defines : AppliedAll(n, g_log_defines[n])
    /\ crashed # "logger" => \A r \in Reloaders : Progress(r)

CInv == IInv /\ SoleInv /\ AppliedInv

-----------------------------------------------------------------------------
(* The operations on a list of appenders *)

Element == Appender \cup {Mine}

\* The users' appender is none of the configured ones, which have a type.
LEMMA MineIsNoAppender == Mine \notin Appender
BY DEF Mine, Appender

\* A sequence is a function on an interval.
LEMMA FunctionsAreSequences ==
  ASSUME NEW S, NEW k \in Nat, NEW s \in [1..k -> S]
  PROVE  s \in Seq(S) /\ Len(s) = k /\ DOMAIN s = 1..k
BY SeqDef

\* setFormatter keeps every appender in its place.
LEMMA WithFormatterEffect ==
  ASSUME NEW s \in Seq(Element), NEW f \in FormatterPtr
  PROVE  /\ WithFormatter(s, f) \in Seq(Element)
         /\ Len(WithFormatter(s, f)) = Len(s)
         /\ DOMAIN WithFormatter(s, f) = 1..Len(s)
         /\ \A i \in 1..Len(s) :
              /\ s[i] = Mine => WithFormatter(s, f)[i] = Mine
              /\ s[i] # Mine =>
                   /\ WithFormatter(s, f)[i] # Mine
                   /\ WithFormatter(s, f)[i].type = s[i].type
                   /\ WithFormatter(s, f)[i].level = s[i].level
                   /\ WithFormatter(s, f)[i].has = s[i].has
                   /\ WithFormatter(s, f)[i].fmt = IF s[i].has THEN s[i].fmt ELSE f
<1>1. Len(s) \in Nat /\ DOMAIN s = 1..Len(s) /\ \A i \in 1..Len(s) : s[i] \in Element
  OBVIOUS
<1> DEFINE E(i) == IF s[i] = Mine \/ s[i].has THEN s[i] ELSE [s[i] EXCEPT !.fmt = f]
<1>2. WithFormatter(s, f) = [i \in 1..Len(s) |-> E(i)]
  BY <1>1 DEF WithFormatter
<1>3. ASSUME NEW i \in 1..Len(s)
      PROVE  /\ E(i) \in Element
             /\ s[i] = Mine => E(i) = Mine
             /\ s[i] # Mine =>
                  /\ E(i) # Mine
                  /\ E(i).type = s[i].type
                  /\ E(i).level = s[i].level
                  /\ E(i).has = s[i].has
                  /\ E(i).fmt = IF s[i].has THEN s[i].fmt ELSE f
  <2>1. CASE s[i] = Mine
    BY <2>1 DEF Element
  <2>2. CASE s[i] # Mine
    <3>1. s[i] \in Appender
      BY <1>1, <2>2 DEF Element
    <3>2. CASE s[i].has
      BY <2>2, <3>1, <3>2 DEF Element
    <3>3. CASE ~s[i].has
      <4>1. E(i) = [s[i] EXCEPT !.fmt = f]
        BY <2>2, <3>3
      <4>2. [s[i] EXCEPT !.fmt = f] \in Appender
        BY <3>1 DEF Appender
      <4> HIDE DEF E
      <4>3. E(i).type = s[i].type /\ E(i).level = s[i].level /\ E(i).has = s[i].has /\ E(i).fmt = f
        BY <3>1, <4>1 DEF Appender
      <4> QED BY <2>2, <3>3, <4>1, <4>2, <4>3, MineIsNoAppender DEF Element
    <3> QED BY <3>2, <3>3
  <2> QED BY <2>1, <2>2
<1> HIDE DEF E
<1>4. WithFormatter(s, f) \in [1..Len(s) -> Element]
  BY <1>2, <1>3
<1>5. \A i \in 1..Len(s) : WithFormatter(s, f)[i] = E(i)
  BY <1>2
<1>6. /\ WithFormatter(s, f) \in Seq(Element)
      /\ Len(WithFormatter(s, f)) = Len(s)
      /\ DOMAIN WithFormatter(s, f) = 1..Len(s)
  BY <1>1, <1>4, FunctionsAreSequences
<1> HIDE <1>2
<1> QED BY <1>3, <1>5, <1>6

\* erase of the one position with the users' appender
LEMMA RemoveFirstEffect ==
  ASSUME NEW s \in Seq(Element), NEW p \in 1..Len(s), s[p] = Mine,
         \A i \in 1..Len(s) : s[i] = Mine => i = p
  PROVE  /\ RemoveFirst(s, Mine) \in Seq(Element)
         /\ Len(RemoveFirst(s, Mine)) = Len(s) - 1
         /\ \A i \in 1..(Len(s) - 1) :
              RemoveFirst(s, Mine)[i] = IF i < p THEN s[i] ELSE s[i + 1]
<1>1. Len(s) \in Nat /\ DOMAIN s = 1..Len(s)
  OBVIOUS
<1>2. SelectInSeq(s, LAMBDA v : v = Mine) = p
  <2>1. {i \in 1..Len(s) : s[i] = Mine} = {p}
    OBVIOUS
  <2>2. Min({p}) = p
    BY DEF Min
  <2> QED BY <2>1, <2>2 DEF SelectInSeq
<1>3. RemoveFirst(s, Mine) = SubSeq(s, 1, p - 1) \o SubSeq(s, p + 1, Len(s))
  BY <1>2 DEF RemoveFirst, RemoveAt
<1>4. SubSeq(s, 1, p - 1) \in Seq(Element) /\ SubSeq(s, p + 1, Len(s)) \in Seq(Element)
  BY <1>1
<1>5. Len(SubSeq(s, 1, p - 1)) = p - 1 /\ \A i \in 1..(p - 1) : SubSeq(s, 1, p - 1)[i] = s[i]
  BY <1>1
<1>6. /\ Len(SubSeq(s, p + 1, Len(s))) = Len(s) - p
      /\ \A i \in 1..(Len(s) - p) : SubSeq(s, p + 1, Len(s))[i] = s[p + i]
  <2> DEFINE m == p + 1
             n == Len(s)
  <2>1. m \in Int /\ n \in Int /\ \A i \in m..n : s[i] \in Element
    BY <1>1
  <2>2. n - m + 1 = Len(s) - p /\ (~(m <= n) => Len(s) - p = 0)
    <3>1. \A k \in Nat : k - (p + 1) + 1 = k - p /\ (p <= k /\ ~(p + 1 <= k) => k - p = 0)
      BY <1>1
    <3>2. p <= Len(s)
      BY <1>1
    <3> QED BY <1>1, <3>1, <3>2
  <2>3. \A i \in 1..(Len(s) - p) : m + i - 1 = p + i
    BY <1>1
  <2> HIDE DEF m, n
  <2>4. /\ Len(SubSeq(s, m, n)) = IF m <= n THEN n - m + 1 ELSE 0
        /\ \A i \in 1..(n - m + 1) : SubSeq(s, m, n)[i] = s[m + i - 1]
    BY <2>1, SubSeqProperties
  <2>5. \A i \in 1..(Len(s) - p) : SubSeq(s, m, n)[i] = s[p + i]
    BY <2>2, <2>3, <2>4
  <2> QED BY <2>2, <2>4, <2>5 DEF m, n
<1> DEFINE a == SubSeq(s, 1, p - 1)
           b == SubSeq(s, p + 1, Len(s))
<1>7. a \in Seq(Element) /\ b \in Seq(Element) /\ Len(a) = p - 1 /\ Len(b) = Len(s) - p
  BY <1>4, <1>5, <1>6
<1>8. /\ \A i \in 1..(p - 1) : a[i] = s[i]
      /\ \A i \in 1..(Len(s) - p) : b[i] = s[p + i]
      /\ RemoveFirst(s, Mine) = a \o b
  BY <1>3, <1>5, <1>6
<1> HIDE DEF a, b
<1>9. /\ a \o b \in Seq(Element)
      /\ Len(a \o b) = Len(a) + Len(b)
      /\ \A i \in 1..(Len(a) + Len(b)) : (a \o b)[i] = IF i <= Len(a) THEN a[i] ELSE b[i - Len(a)]
  BY <1>7, ConcatProperties
<1>10. ASSUME NEW i \in 1..(Len(s) - 1)
       PROVE  (a \o b)[i] = IF i < p THEN s[i] ELSE s[i + 1]
  <2>1. CASE i < p
    BY <1>1, <1>7, <1>8, <1>9, <2>1
  <2>2. CASE i >= p
    <3>1. i - (p - 1) \in 1..(Len(s) - p) /\ p + (i - (p - 1)) = i + 1 /\ ~(i <= p - 1)
      BY <1>1, <2>2
    <3>2. i \in 1..(Len(a) + Len(b))
      BY <1>1, <1>7
    <3>3. (a \o b)[i] = b[i - (p - 1)]
      BY <1>7, <1>9, <3>1, <3>2
    <3>4. ~(i < p) /\ b[i - (p - 1)] = s[i + 1]
      BY <1>1, <1>8, <2>2, <3>1
    <3> QED BY <3>3, <3>4
  <2>3. i < p \/ i >= p
    BY <1>1
  <2> QED BY <2>1, <2>2, <2>3
<1> QED BY <1>1, <1>7, <1>8, <1>9, <1>10

-----------------------------------------------------------------------------
(* The operations on the lists of all loggers *)

\* The initial states satisfy the invariant.
LEMMA InitInv ==
  ASSUME Init
  PROVE  CInv
<1> USE LoggerAssumption DEF Init
<1>1. [type |-> 2, level |-> DEBUG, fmt |-> DefaultFmt, has |-> FALSE] \in Appender
  BY DEF Appender, Levels, FormatterPtr
<1>2. PICK a \in Appender : a.fmt = DefaultFmt /\ ~a.has /\ m_appenders = [n \in Names |-> IF n = Root THEN <<a>> ELSE <<>>]
  BY <1>1
<1> HIDE DEF Init
<1>3. a # Mine
  BY MineIsNoAppender
<1>4. m_appenders \in [Names -> Seq(Appender \cup {Mine})]
  <2>1. a \in Appender \cup {Mine}
    OBVIOUS
  <2>2. <<a>> \in Seq(Appender \cup {Mine}) /\ <<>> \in Seq(Appender \cup {Mine})
    BY <2>1
  <2> QED BY <1>2, <2>2
<1>5. TypeOK
  BY <1>4 DEF Init, TypeOK, Levels, PC, FormatterPtr, NoConfig
<1>6. \A n \in Names : \A i \in DOMAIN m_appenders[n] : m_appenders[n][i] = a
  BY <1>2
<1>7. \A n \in Names : ~Attached(n)
  BY <1>3, <1>6 DEF Attached
<1>8. ListsInv
  BY <1>2, <1>3, <1>6, <1>7 DEF Init, ListsInv, MineInv, FormatterInv, MineFormatterInv
<1>9. \A r \in Reloaders : ReloadInv(r) /\ Progress(r)
  BY DEF Init, ReloadInv, Progress
<1>10. WalkInv /\ EraseInv /\ NoNullFormatter /\ SoleInv
  BY DEF Init, WalkInv, EraseInv, NoNullFormatter, SoleInv
<1>11. AppliedInv
  BY <1>9 DEF Init, AppliedInv, NoConfig
<1> QED BY <1>5, <1>8, <1>9, <1>10, <1>11 DEF CInv, IInv

\* A step that leaves the lists and what they depend on.
LEMMA ListsKept ==
  ASSUME ListsInv, UNCHANGED <<m_appenders, m_formatter, mine, adding>>
  PROVE  ListsInv'
BY DEF ListsInv, MineInv, FormatterInv, MineFormatterInv, Attached

\* addAppender of a configured appender
LEMMA ListAppend ==
  ASSUME IInv, NEW n \in Names, NEW a \in Appender,
         a.has => a.fmt # NULL, ~a.has => a.fmt = m_formatter[n],
         m_appenders' = [m_appenders EXCEPT ![n] = Append(@, a)],
         UNCHANGED <<m_formatter, mine, adding>>
  PROVE  ListsInv' /\ m_appenders' \in [Names -> Seq(Element)]
<1> USE DEF IInv
<1>1. m_appenders \in [Names -> Seq(Element)] /\ a # Mine
  BY MineIsNoAppender DEF TypeOK, Element
<1>2. PICK s \in Seq(Element) : s = m_appenders[n]
  BY <1>1
<1>3. /\ m_appenders'[n] = Append(s, a)
      /\ \A m \in Names \ {n} : m_appenders'[m] = m_appenders[m]
      /\ m_appenders' \in [Names -> Seq(Element)]
  BY <1>1, <1>2 DEF Element
<1>4. /\ Len(s) \in Nat /\ DOMAIN s = 1..Len(s) /\ DOMAIN Append(s, a) = 1..(Len(s) + 1)
      /\ \A i \in 1..Len(s) : Append(s, a)[i] = s[i]
      /\ Append(s, a)[Len(s) + 1] = a
  BY DEF Element
<1>5. \A i \in DOMAIN Append(s, a) : Append(s, a)[i] = Mine => i \in DOMAIN s /\ s[i] = Mine
  BY <1>1, <1>4
<1>6. \A m \in Names : Attached(m)' => Attached(m)
  BY <1>2, <1>3, <1>5 DEF Attached
<1>7. MineInv'
  BY <1>2, <1>3, <1>5, <1>6 DEF ListsInv, MineInv
<1>8. ASSUME NEW m \in Names PROVE FormatterInv(m)'
  BY <1>2, <1>3, <1>4 DEF ListsInv, FormatterInv
<1>9. MineFormatterInv'
  BY <1>6 DEF ListsInv, MineFormatterInv
<1> QED BY <1>3, <1>7, <1>8, <1>9 DEF ListsInv

\* clearAppenders
LEMMA ListClear ==
  ASSUME IInv, NEW n \in Names, m_appenders' = [m_appenders EXCEPT ![n] = <<>>],
         UNCHANGED <<m_formatter, mine, adding>>
  PROVE  ListsInv' /\ m_appenders' \in [Names -> Seq(Element)]
<1>1. /\ m_appenders'[n] = <<>>
      /\ \A m \in Names \ {n} : m_appenders'[m] = m_appenders[m]
      /\ m_appenders' \in [Names -> Seq(Element)]
  BY DEF IInv, TypeOK, Element
<1>2. \A m \in Names : Attached(m)' => Attached(m)
  BY <1>1 DEF Attached
<1>3. MineInv'
  BY <1>1, <1>2 DEF IInv, ListsInv, MineInv
<1>4. ASSUME NEW m \in Names PROVE FormatterInv(m)'
  BY <1>1 DEF IInv, ListsInv, FormatterInv
<1> QED BY <1>1, <1>2, <1>3, <1>4 DEF IInv, ListsInv, MineFormatterInv

\* setFormatter: every appender without a formatter of its own follows.
LEMMA ListSetFormatter ==
  ASSUME IInv, NEW n \in Names, NEW f \in FormatterPtr, SetFormatter(n, f), UNCHANGED adding
  PROVE  /\ ListsInv'
         /\ m_appenders' \in [Names -> Seq(Element)]
         /\ m_formatter' \in [Names -> FormatterPtr]
         /\ mine' \in MinePtr
         /\ Touch(n)
         /\ m_mutex[n] = NULL
         /\ \A m \in Names \ {n} : m_appenders'[m] = m_appenders[m]
<1> USE LoggerAssumption DEF IInv
<1>1. m_appenders \in [Names -> Seq(Element)] /\ m_formatter \in [Names -> FormatterPtr]
  BY DEF TypeOK, Element
<1>2. PICK s \in Seq(Element) : s = m_appenders[n]
  BY <1>1
<1>3. /\ m_appenders' = [m_appenders EXCEPT ![n] = WithFormatter(s, f)]
      /\ m_formatter' = [m_formatter EXCEPT ![n] = f]
      /\ mine' = IF Attached(n) /\ ~mine.has THEN [mine EXCEPT !.fmt = f, !.loose = FALSE] ELSE mine
      /\ m_mutex[n] = NULL
      /\ Touch(n)
  BY <1>2 DEF SetFormatter, Free
<1>4. PICK w \in Seq(Element) :
        /\ w = WithFormatter(s, f)
        /\ DOMAIN w = 1..Len(s)
        /\ \A i \in 1..Len(s) :
             /\ s[i] = Mine => w[i] = Mine
             /\ s[i] # Mine => w[i] # Mine /\ w[i].has = s[i].has
                               /\ w[i].fmt = IF s[i].has THEN s[i].fmt ELSE f
  BY WithFormatterEffect
<1>5. /\ m_appenders'[n] = w
      /\ \A m \in Names \ {n} : m_appenders'[m] = m_appenders[m] /\ m_formatter'[m] = m_formatter[m]
      /\ m_formatter'[n] = f
      /\ m_appenders' \in [Names -> Seq(Element)]
      /\ m_formatter' \in [Names -> FormatterPtr]
  BY <1>1, <1>3, <1>4
<1>6. DOMAIN s = 1..Len(s) /\ \A i \in DOMAIN w : w[i] = Mine <=> s[i] = Mine
  BY <1>4
<1>7. \A m \in Names : Attached(m)' <=> Attached(m)
  BY <1>2, <1>4, <1>5, <1>6 DEF Attached
<1>8. /\ mine' \in MinePtr
      /\ mine'.has = mine.has /\ mine'.own = mine.own /\ mine'.over = mine.over
      /\ Attached(n) /\ ~mine.has => mine'.fmt = f /\ mine'.loose = FALSE
      /\ ~(Attached(n) /\ ~mine.has) => mine' = mine
  BY <1>3 DEF TypeOK, MinePtr
<1>9. MineInv'
  <2>1. mine'.has => mine'.own # NULL
    BY <1>8 DEF ListsInv, MineInv
  <2>2. ASSUME NEW m \in Names, NEW i \in DOMAIN m_appenders'[m], NEW j \in DOMAIN m_appenders'[m],
               m_appenders'[m][i] = Mine, m_appenders'[m][j] = Mine
        PROVE  i = j
    <3>1. CASE m = n
      <4>1. i \in DOMAIN s /\ j \in DOMAIN s /\ s[i] = Mine /\ s[j] = Mine
        BY <1>4, <1>5, <1>6, <2>2, <3>1
      <4> QED BY <1>2, <4>1 DEF ListsInv, MineInv
    <3>2. CASE m # n
      BY <1>5, <2>2, <3>2 DEF ListsInv, MineInv
    <3> QED BY <3>1, <3>2
  <2> QED BY <1>7, <2>1, <2>2 DEF ListsInv, MineInv
<1>10. ASSUME NEW m \in Names PROVE FormatterInv(m)'
  <2>1. CASE m = n
    BY <1>2, <1>4, <1>5, <1>6, <2>1 DEF ListsInv, FormatterInv
  <2>2. CASE m # n
    <3>1. m_appenders'[m] = m_appenders[m] /\ m_formatter'[m] = m_formatter[m]
      BY <1>5, <2>2
    <3>2. FormatterInv(m)
      BY DEF ListsInv
    <3> HIDE DEF IInv
    <3> QED BY <3>1, <3>2 DEF FormatterInv
  <2> QED BY <2>1, <2>2
<1>11. MineFormatterInv'
  <2>1. ASSUME NEW m \in Names, Attached(m), ~mine'.has, ~mine'.loose
        PROVE  mine'.fmt = m_formatter'[m]
    <3>1. CASE m = n
      BY <1>5, <1>8, <2>1, <3>1
    <3>2. CASE m # n
      BY <1>5, <1>8, <2>1, <3>2 DEF ListsInv, MineInv, MineFormatterInv
    <3> QED BY <3>1, <3>2
  <2>2. mine'.has /\ ~mine'.over => mine'.fmt = mine'.own
    BY <1>8 DEF ListsInv, MineFormatterInv
  <2> QED BY <1>7, <2>1, <2>2 DEF MineFormatterInv
<1> QED BY <1>3, <1>5, <1>8, <1>9, <1>10, <1>11 DEF ListsInv

\* addAppender of the users' appender: push_back, with the formatter it then has.
LEMMA ListAttach ==
  ASSUME IInv, NEW n \in Names, \A m \in Names : ~Attached(m),
         m_appenders' = [m_appenders EXCEPT ![n] = Append(@, Mine)],
         UNCHANGED m_formatter, \A u \in Users : adding'[u] = NULL,
         mine'.has => mine'.own # NULL,
         ~mine'.has /\ ~mine'.loose => mine'.fmt = m_formatter[n],
         mine'.has /\ ~mine'.over => mine'.fmt = mine'.own
  PROVE  ListsInv' /\ m_appenders' \in [Names -> Seq(Element)]
<1> USE DEF IInv
<1>1. m_appenders \in [Names -> Seq(Element)] /\ Mine \in Element
  BY DEF TypeOK, Element
<1>2. PICK s \in Seq(Element) : s = m_appenders[n]
  BY <1>1
<1>3. /\ m_appenders'[n] = Append(s, Mine)
      /\ \A m \in Names \ {n} : m_appenders'[m] = m_appenders[m]
      /\ m_appenders' \in [Names -> Seq(Element)]
  BY <1>1, <1>2
<1>4. /\ Len(s) \in Nat /\ DOMAIN s = 1..Len(s) /\ DOMAIN Append(s, Mine) = 1..(Len(s) + 1)
      /\ \A i \in 1..Len(s) : Append(s, Mine)[i] = s[i] /\ s[i] # Mine
      /\ Append(s, Mine)[Len(s) + 1] = Mine
  BY <1>1, <1>2 DEF Attached
<1>5. \A i \in DOMAIN Append(s, Mine) : Append(s, Mine)[i] = Mine => i = Len(s) + 1
  BY <1>4
<1>6. \A m \in Names : Attached(m)' => m = n
  BY <1>3 DEF Attached
<1>7. ASSUME NEW m \in Names, NEW i \in DOMAIN m_appenders'[m], NEW j \in DOMAIN m_appenders'[m],
             m_appenders'[m][i] = Mine, m_appenders'[m][j] = Mine
      PROVE  i = j
  <2>1. m = n
    BY <1>6, <1>7 DEF Attached
  <2> QED BY <1>3, <1>5, <1>7, <2>1
<1>8. MineInv'
  BY <1>6, <1>7 DEF MineInv
<1>9. ASSUME NEW m \in Names PROVE FormatterInv(m)'
  <2>1. CASE m = n
    BY <1>2, <1>3, <1>4, <2>1 DEF ListsInv, FormatterInv
  <2>2. CASE m # n
    BY <1>3, <2>2 DEF ListsInv, FormatterInv
  <2> QED BY <2>1, <2>2
<1>10. MineFormatterInv'
  BY <1>6 DEF MineFormatterInv
<1> QED BY <1>3, <1>8, <1>9, <1>10 DEF ListsInv

\* A list without the users' appender is its own configured part.
LEMMA ConfiguredWithoutMine ==
  ASSUME NEW s \in Seq(Element), \A i \in 1..Len(s) : s[i] # Mine
  PROVE  RemoveFirst(s, Mine) = s
BY DEF RemoveFirst

\* erase of an appender that is not there
LEMMA UnlinkedDetached ==
  ASSUME IInv, NEW n \in Names, ~Attached(n)
  PROVE  Unlinked(n) = m_appenders
<1>1. m_appenders \in [Names -> Seq(Element)]
  BY DEF IInv, TypeOK, Element
<1>2. PICK s \in Seq(Element) : s = m_appenders[n]
  BY <1>1
<1>3. DOMAIN s = 1..Len(s)
  OBVIOUS
<1>4. RemoveFirst(s, Mine) = s
  BY <1>2, <1>3, ConfiguredWithoutMine DEF Attached
<1> QED BY <1>1, <1>2, <1>4 DEF Unlinked

\* delAppender: the list without the users' appender.
LEMMA ListDetach ==
  ASSUME IInv, NEW n \in Names, Attached(n),
         m_appenders' = [m_appenders EXCEPT ![n] = RemoveFirst(@, Mine)],
         UNCHANGED <<m_formatter, mine, adding>>
  PROVE  ListsInv' /\ m_appenders' \in [Names -> Seq(Element)]
<1> USE DEF IInv
<1>1. m_appenders \in [Names -> Seq(Element)]
  BY DEF TypeOK, Element
<1>2. PICK s \in Seq(Element) : s = m_appenders[n]
  BY <1>1
<1>3. Len(s) \in Nat /\ DOMAIN s = 1..Len(s)
  OBVIOUS
<1>4. PICK p \in 1..Len(s) : s[p] = Mine /\ \A i \in 1..Len(s) : s[i] = Mine => i = p
  BY <1>2, <1>3 DEF Attached, ListsInv, MineInv
<1>5. PICK w \in Seq(Element) :
        /\ w = RemoveFirst(s, Mine)
        /\ Len(w) = Len(s) - 1
        /\ \A i \in 1..(Len(s) - 1) : w[i] = IF i < p THEN s[i] ELSE s[i + 1]
  BY <1>4, RemoveFirstEffect
<1>6. /\ m_appenders'[n] = w
      /\ \A m \in Names \ {n} : m_appenders'[m] = m_appenders[m]
      /\ m_appenders' \in [Names -> Seq(Element)]
  BY <1>1, <1>2, <1>5
<1>7. \A i \in DOMAIN w : w[i] # Mine /\ \E j \in DOMAIN s : w[i] = s[j]
  <2>1. DOMAIN w = 1..(Len(s) - 1)
    BY <1>5
  <2>2. ASSUME NEW i \in 1..(Len(s) - 1) PROVE w[i] # Mine /\ \E j \in DOMAIN s : w[i] = s[j]
    <3>1. CASE i < p
      <4>1. i \in 1..Len(s) /\ i # p
        BY <1>3, <3>1
      <4> QED BY <1>3, <1>4, <1>5, <3>1, <4>1
    <3>2. CASE ~(i < p)
      <4>1. i + 1 \in 1..Len(s) /\ i + 1 # p
        BY <1>3, <3>2
      <4> QED BY <1>3, <1>4, <1>5, <3>2, <4>1
    <3> QED BY <3>1, <3>2
  <2> QED BY <2>1, <2>2
<1>8. \A m \in Names : ~Attached(m)'
  BY <1>6, <1>7 DEF Attached, ListsInv, MineInv
<1>9. MineInv'
  BY <1>8 DEF ListsInv, MineInv, Attached
<1>10. ASSUME NEW m \in Names PROVE FormatterInv(m)'
  <2>1. CASE m = n
    BY <1>2, <1>6, <1>7, <2>1 DEF ListsInv, FormatterInv
  <2>2. CASE m # n
    BY <1>6, <2>2 DEF ListsInv, FormatterInv
  <2> QED BY <2>1, <2>2
<1>11. MineFormatterInv'
  BY <1>8 DEF ListsInv, MineFormatterInv
<1> QED BY <1>6, <1>9, <1>10, <1>11 DEF ListsInv

-----------------------------------------------------------------------------
(* Logging *)

\* A thread that walks the list of logger n may find a null formatter.
NullFormatter(n) ==
  m_formatter[n] = NULL \/ (Attached(n) /\ mine.fmt = NULL /\ (mine.loose \/ mine.over))

\* A step of the thread t that logs: its event becomes e, and of the locks it
\* takes free ones and releases its own.
LEMMA EventStep ==
  ASSUME IInv, NEW t \in Walkers, NEW e \in {NULL} \cup Event \cup Walk,
         event' = [event EXCEPT ![t] = e],
         UNCHANGED <<program, m_loggers, fields, mine, adding, erasers, conf, listener>>,
         m_mutex' \in [Names -> Walkers \cup Users \cup {NULL}],
         \A n \in Names : m_mutex'[n] # m_mutex[n] => m_mutex[n] \in {NULL, t},
         e # NULL /\ e.at = "list" =>
           m_mutex'[e.of] = t /\ (~e.raced => m_appenders[e.of] = e.all),
         crashed' \in {NULL, "formatter", "iterator"},
         crashed' = "formatter" => \E n \in Names : m_mutex'[n] = t /\ NullFormatter(n)
  PROVE  IInv'
<1> USE LoggerAssumption DEF IInv, fields, erasers, conf, listener
<1>1. event'[t] = e /\ \A u \in Walkers \ {t} : event'[u] = event[u]
  BY DEF TypeOK
<1>2. ASSUME NEW u \in Users, adding[u] # NULL PROVE m_mutex'[adding[u]] = u
  <2>1. adding[u] \in Names /\ m_mutex[adding[u]] = u
    BY <1>2 DEF TypeOK
  <2>2. u # NULL /\ u # t
    OBVIOUS
  <2> QED BY <2>1, <2>2
<1>3. ASSUME NEW u \in Walkers, event'[u] # NULL, event'[u].at = "list"
      PROVE  m_mutex'[event'[u].of] = u /\ (~event'[u].raced => m_appenders[event'[u].of] = event'[u].all)
  <2>1. CASE u = t
    BY <1>1, <1>3, <2>1
  <2>2. CASE u # t
    <3>1. event[u] \in Walk
      BY <1>1, <1>3, <2>2 DEF TypeOK, Event
    <3>2. event[u].of \in Names /\ m_mutex[event[u].of] = u
      BY <1>1, <1>3, <2>2, <3>1 DEF TypeOK, Walk
    <3>3. m_mutex'[event[u].of] = u
      BY <2>2, <3>2
    <3> QED BY <1>1, <1>3, <2>2, <3>3 DEF WalkInv
  <2> QED BY <2>1, <2>2
<1>4. event' \in [Walkers -> {NULL} \cup Event \cup Walk]
  BY DEF TypeOK
<1>5. TypeOK'
  BY <1>2, <1>3, <1>4 DEF TypeOK
<1>6. ListsInv'
  BY ListsKept
<1>7. \A r \in Reloaders : ReloadInv(r)'
  BY DEF ReloadInv, Define
<1>8. WalkInv' /\ EraseInv'
  BY <1>3 DEF WalkInv, EraseInv, Attached
<1>9. NoNullFormatter'
  BY DEF NoNullFormatter, NullFormatter, Attached
<1> QED BY <1>5, <1>6, <1>7, <1>8, <1>9

\* A wrapped event, and the test of its level.
LEMMA LogEventWrapStep ==
  ASSUME IInv, NEW t \in Walkers, NEW n \in Names, NEW level \in {DEBUG, FATAL}, LogEventWrap(t, n, level)
  PROVE  IInv'
<1>1. [at |-> "wrapped", logger |-> n, level |-> level] \in Event
  BY DEF Event, Levels
<1>2. PICK e \in Event : e = [at |-> "wrapped", logger |-> n, level |-> level]
  BY <1>1
<1>3. e.at # "list"
  BY <1>2
<1>4. /\ event' = [event EXCEPT ![t] = e]
      /\ UNCHANGED <<program, m_loggers, fields, mine, adding, erasers, conf, listener, m_mutex>>
      /\ crashed' = NULL
  BY <1>2 DEF LogEventWrap, logger
<1>5. m_mutex' \in [Names -> Walkers \cup Users \cup {NULL}]
  BY <1>4 DEF IInv, TypeOK
<1> QED BY <1>3, <1>4, <1>5, LoggerAssumption, EventStep

\* The event of a thread that waits is no walk.
LEMMA Waiting ==
  ASSUME TypeOK, NEW t \in Walkers, event[t] # NULL, event[t].at # "list"
  PROVE  event[t] \in Event
BY DEF TypeOK, Walk

\* The level test of Logger::log.
LEMMA LogStep ==
  ASSUME IInv, NEW t \in Walkers, Log(t)
  PROVE  IInv'
<1>1. event[t] \in Event
  BY Waiting DEF IInv, Log
<1>2. [event[t] EXCEPT !.at = "lock"] \in Event /\ [event[t] EXCEPT !.at = "lock"].at # "list"
  BY <1>1 DEF Event
<1>3. PICK e \in {NULL} \cup Event :
        /\ e # NULL => e.at # "list"
        /\ event' = [event EXCEPT ![t] = e]
  BY <1>2 DEF Log
<1>4. /\ UNCHANGED <<program, m_loggers, fields, mine, adding, erasers, conf, listener, m_mutex>>
      /\ crashed' = NULL
  BY DEF Log, logger
<1>5. m_mutex' \in [Names -> Walkers \cup Users \cup {NULL}]
  BY <1>4 DEF IInv, TypeOK
<1> QED BY <1>3, <1>4, <1>5, LoggerAssumption, EventStep

\* The walk begins with the list that the logger has.
LEMMA IterateIsAWalk ==
  ASSUME TypeOK, NEW t \in Walkers, event[t] \in Event, NEW n \in Names
  PROVE  /\ Iterate(t, n) \in Walk
         /\ Iterate(t, n).of = n
         /\ Iterate(t, n).all = m_appenders[n]
<1>1. m_appenders[n] \in Seq(Appender \cup {Mine}) /\ event[t].logger \in Names /\ event[t].level \in Levels
  BY DEF TypeOK, Event
<1> QED BY <1>1 DEF Iterate, Walk

\* The lock of the logger, then its list or that of the root logger.
LEMMA LogLockStep ==
  ASSUME IInv, NEW t \in Walkers, LogLock(t)
  PROVE  IInv'
<1>1. event[t] \in Event /\ event[t].logger \in Names
  BY Waiting DEF IInv, LogLock, Event
<1>2. PICK n \in Names : n = event[t].logger
  BY <1>1
<1>3. /\ UNCHANGED <<program, m_loggers, fields, mine, adding, erasers, conf, listener>>
      /\ crashed' = NULL
      /\ m_mutex[n] = NULL
  BY <1>2 DEF LogLock, Free
<1>4. CASE m_mutex' = [m_mutex EXCEPT ![n] = t] /\ event' = [event EXCEPT ![t] = Iterate(t, n)]
  <2>1. m_mutex' \in [Names -> Walkers \cup Users \cup {NULL}] /\ m_mutex'[n] = t
    BY <1>4 DEF IInv, TypeOK
  <2>2. \A m \in Names : m_mutex'[m] # m_mutex[m] => m_mutex[m] = NULL
    BY <1>3, <1>4 DEF IInv, TypeOK
  <2>3. PICK e \in Walk : e = Iterate(t, n) /\ e.of = n /\ e.all = m_appenders[n]
    BY <1>1, IterateIsAWalk DEF IInv
  <2> QED BY <1>3, <1>4, <2>1, <2>2, <2>3, LoggerAssumption, EventStep
<1>5. CASE m_mutex' = [m_mutex EXCEPT ![n] = t] /\ event' = [event EXCEPT ![t].at = "root"]
  <2>1. m_mutex' \in [Names -> Walkers \cup Users \cup {NULL}]
    BY <1>5 DEF IInv, TypeOK
  <2>2. \A m \in Names : m_mutex'[m] # m_mutex[m] => m_mutex[m] = NULL
    BY <1>3, <1>5 DEF IInv, TypeOK
  <2>3. [event[t] EXCEPT !.at = "root"] \in Event /\ [event[t] EXCEPT !.at = "root"].at # "list"
    BY <1>1 DEF Event
  <2>4. PICK e \in Event : e.at # "list" /\ event' = [event EXCEPT ![t] = e]
    BY <1>5, <2>3
  <2> QED BY <1>3, <2>1, <2>2, <2>4, LoggerAssumption, EventStep
<1>6. CASE UNCHANGED m_mutex /\ event' = [event EXCEPT ![t] = NULL]
  <2>1. m_mutex' \in [Names -> Walkers \cup Users \cup {NULL}]
    BY <1>6 DEF IInv, TypeOK
  <2> QED BY <1>3, <1>6, <2>1, LoggerAssumption, EventStep
<1> QED BY <1>2, <1>4, <1>5, <1>6, Zenon DEF LogLock

\* The lock of the root logger, and its list.
LEMMA LogRootStep ==
  ASSUME IInv, NEW t \in Walkers, LogRoot(t)
  PROVE  IInv'
<1>1. event[t] \in Event
  BY Waiting DEF IInv, LogRoot
<1>2. PICK n \in Names : n = Root
  BY LoggerAssumption
<1>3. /\ UNCHANGED <<program, m_loggers, fields, mine, adding, erasers, conf, listener>>
      /\ crashed' = NULL
      /\ m_mutex[n] = NULL
      /\ m_mutex' = [m_mutex EXCEPT ![n] = t]
      /\ event' = [event EXCEPT ![t] = Iterate(t, n)]
  BY <1>2 DEF LogRoot, Free
<1>4. m_mutex' \in [Names -> Walkers \cup Users \cup {NULL}] /\ m_mutex'[n] = t
  BY <1>3 DEF IInv, TypeOK
<1>5. \A m \in Names : m_mutex'[m] # m_mutex[m] => m_mutex[m] = NULL
  BY <1>3 DEF IInv, TypeOK
<1>6. PICK e \in Walk : e = Iterate(t, n) /\ e.of = n /\ e.all = m_appenders[n]
  BY <1>1, IterateIsAWalk DEF IInv
<1> QED BY <1>3, <1>4, <1>5, <1>6, LoggerAssumption, EventStep

\* The appender at the iterator has a formatter, unless it was given a null one.
LEMMA LogAppendStep ==
  ASSUME IInv, NEW t \in Walkers, LogAppend(t)
  PROVE  IInv'
<1> USE LoggerAssumption DEF IInv
<1>1. PICK e \in Walk :
        /\ e = event[t] /\ e # NULL /\ e.at = "list" /\ e.of \in Names /\ e.i \in Nat \ {0}
        /\ e.all \in Seq(Element) /\ e.i <= Len(e.all)
  <2>1. event[t] \in Walk
    BY DEF LogAppend, TypeOK, Event
  <2> QED BY <2>1 DEF LogAppend, Walk, Element
<1>2. PICK k \in DOMAIN e.all : k = e.i
  <2>1. PICK q \in Seq(Element) : q = e.all
    BY <1>1
  <2>2. e.i \in 1..Len(q)
    BY <1>1, <2>1
  <2> QED BY <2>1, <2>2
<1>3. /\ UNCHANGED <<program, m_loggers, fields, mine, adding, erasers, conf, listener, m_mutex>>
      /\ crashed = NULL
      /\ event' = [event EXCEPT ![t].i = @ + 1]
      /\ \/ /\ ~e.raced
            /\ crashed' = IF Takes(e.all[k], e.level) /\ Fmt(e.all[k]) = NULL THEN "formatter" ELSE NULL
         \/ e.raced /\ crashed' \in {NULL, "iterator"}
  BY <1>1, <1>2 DEF LogAppend, logger
<1>4. e.of \in Names /\ m_mutex[e.of] = t /\ (~e.raced => m_appenders[e.of] = e.all)
  BY <1>1 DEF TypeOK, WalkInv
<1>5. ASSUME ~e.raced, Fmt(e.all[k]) = NULL
      PROVE  NullFormatter(e.of)
  <2>1. k \in DOMAIN m_appenders[e.of] /\ m_appenders[e.of][k] = e.all[k]
    BY <1>4, <1>5
  <2>2. CASE e.all[k] = Mine
    <3>1. mine.fmt = NULL /\ Attached(e.of)
      BY <1>5, <2>1, <2>2 DEF Fmt, Attached
    <3>2. mine.has => mine.over
      BY <3>1 DEF ListsInv, MineInv, MineFormatterInv
    <3> QED BY <1>4, <3>1, <3>2 DEF ListsInv, MineFormatterInv, NullFormatter
  <2>3. CASE e.all[k] # Mine
    BY <1>4, <1>5, <2>1, <2>3 DEF ListsInv, FormatterInv, Fmt, NullFormatter
  <2> QED BY <2>2, <2>3
<1>6. [e EXCEPT !.i = e.i + 1] \in Walk
  BY <1>1 DEF Walk
<1>7. PICK d \in Walk : d = [e EXCEPT !.i = e.i + 1]
  BY <1>6
<1>8. d.at = "list" /\ d.of = e.of /\ d.all = e.all /\ d.raced = e.raced
  BY <1>1, <1>7 DEF Walk
<1>9. event' = [event EXCEPT ![t] = d]
  BY <1>1, <1>3, <1>7
<1>10. m_mutex' \in [Names -> Walkers \cup Users \cup {NULL}]
  BY <1>3 DEF TypeOK
<1>11. /\ crashed' \in {NULL, "formatter", "iterator"}
       /\ crashed' = "formatter" => \E n \in Names : m_mutex'[n] = t /\ NullFormatter(n)
  BY <1>3, <1>4, <1>5
<1> HIDE DEF IInv
<1> QED BY <1>3, <1>4, <1>8, <1>9, <1>10, <1>11, EventStep

\* The end of the walk releases the locks of this thread.
LEMMA LogEndStep ==
  ASSUME IInv, NEW t \in Walkers, LogEnd(t)
  PROVE  IInv'
<1>1. /\ UNCHANGED <<program, m_loggers, fields, mine, adding, erasers, conf, listener>>
      /\ crashed' = NULL
      /\ m_mutex' = [n \in Names |-> IF m_mutex[n] = t THEN NULL ELSE m_mutex[n]]
      /\ event' = [event EXCEPT ![t] = NULL]
  BY DEF LogEnd
<1>2. m_mutex' \in [Names -> Walkers \cup Users \cup {NULL}]
  BY <1>1 DEF IInv, TypeOK
<1> QED BY <1>1, <1>2, LoggerAssumption, EventStep

-----------------------------------------------------------------------------
(* The users *)

\* A step that changes only lists in which no thread is, and marks the erasers.
LEMMA ListStep ==
  ASSUME IInv, TypeOK', ListsInv', \A r \in Reloaders : ReloadInv(r)', crashed' = NULL,
         \A t \in Walkers : event'[t] # NULL /\ event'[t].at = "list" => event'[t] = event[t],
         UNCHANGED erasing, lost \subseteq lost',
         \A n \in Names : m_appenders'[n] # m_appenders[n] =>
           m_mutex[n] \notin Walkers /\ {u \in Users : erasing[u] = n} \subseteq lost'
  PROVE  IInv'
<1>1. ASSUME NEW t \in Walkers, event[t] # NULL, event[t].at = "list"
      PROVE  m_appenders'[event[t].of] = m_appenders[event[t].of]
  <2>1. event[t] \in Walk
    BY <1>1 DEF IInv, TypeOK, Event
  <2>2. event[t].of \in Names /\ m_mutex[event[t].of] = t
    BY <1>1, <2>1 DEF IInv, TypeOK, Walk
  <2> QED BY <2>2
<1>2. WalkInv'
  BY <1>1 DEF IInv, WalkInv
<1>3. EraseInv'
  <2> SUFFICES ASSUME NEW u \in Users, u \notin lost', erasing'[u] # NULL PROVE Attached(erasing[u])'
    BY DEF EraseInv
  <2>1. erasing[u] \in Names /\ Attached(erasing[u])
    BY DEF IInv, TypeOK, EraseInv
  <2>2. m_appenders'[erasing[u]] = m_appenders[erasing[u]]
    BY <2>1
  <2> QED BY <2>1, <2>2 DEF Attached
<1>4. NoNullFormatter'
  BY LoggerAssumption DEF NoNullFormatter
<1> QED BY <1>2, <1>3, <1>4 DEF IInv

\* The listeners do not move.
LEMMA ReloadKept ==
  ASSUME IInv, UNCHANGED listener
  PROVE  \A r \in Reloaders : ReloadInv(r)'
BY DEF IInv, ReloadInv, listener

\* getLogger
LEMMA UserGetLoggerStep ==
  ASSUME IInv, NEW u \in Users, NEW n \in Names, UserGetLogger(u, n)
  PROVE  IInv'
<1>1. TypeOK'
  BY DEF IInv, TypeOK, UserGetLogger, GetLogger, fields, erasers, conf, listener
<1>2. ListsInv'
  BY ListsKept DEF IInv, UserGetLogger, fields
<1> QED BY <1>1, <1>2, ReloadKept, ListStep DEF UserGetLogger, Idle, fields, erasers

\* Logger::setFormatter
LEMMA UserSetFormatterStep ==
  ASSUME IInv, NEW u \in Users, NEW n \in Names, NEW f \in FormatterPtr, UserSetFormatter(u, n, f)
  PROVE  IInv'
<1>1. /\ UNCHANGED <<program, m_loggers, m_level, m_mutex, adding, erasing, conf, listener, event, crashed>>
      /\ crashed = NULL
      /\ SetFormatter(n, f)
  BY DEF UserSetFormatter, Idle
<1>2. /\ ListsInv'
      /\ m_appenders' \in [Names -> Seq(Element)]
      /\ m_formatter' \in [Names -> FormatterPtr]
      /\ mine' \in MinePtr
      /\ m_mutex[n] = NULL
      /\ lost' = lost \cup {v \in Users : erasing[v] = n}
      /\ \A m \in Names \ {n} : m_appenders'[m] = m_appenders[m]
  BY <1>1, ListSetFormatter DEF Touch
<1>3. TypeOK'
  BY <1>1, <1>2, LoggerAssumption DEF IInv, TypeOK, MinePtr, Element, conf, listener
<1>4. \A m \in Names : m_appenders'[m] # m_appenders[m] =>
        m_mutex[m] \notin Walkers /\ {v \in Users : erasing[v] = m} \subseteq lost'
  BY <1>2, LoggerAssumption
<1> QED BY <1>1, <1>2, <1>3, <1>4, ReloadKept, ListStep

\* LogAppender::setFormatter
LEMMA AppenderSetFormatterStep ==
  ASSUME IInv, NEW u \in Users, NEW f \in FormatterPtr, AppenderSetFormatter(u, f)
  PROVE  IInv'
<1>1. /\ UNCHANGED <<program, m_loggers, fields, m_mutex, adding, erasers, conf, listener, event, crashed>>
      /\ crashed = NULL
      /\ mine' = [fmt |-> f, has |-> f # NULL, own |-> f, loose |-> f = NULL, over |-> FALSE]
  BY DEF AppenderSetFormatter, Idle
<1>2. /\ mine' \in MinePtr
      /\ mine'.has <=> f # NULL
      /\ mine'.loose <=> f = NULL
      /\ mine'.fmt = f /\ mine'.own = f
  BY <1>1 DEF MinePtr
<1>3. TypeOK'
  BY <1>1, <1>2 DEF IInv, TypeOK, MinePtr, fields, erasers, conf, listener
<1>4. ListsInv'
  BY <1>1, <1>2 DEF IInv, ListsInv, MineInv, FormatterInv, MineFormatterInv, Attached, fields
<1> QED BY <1>1, <1>3, <1>4, ReloadKept, ListStep DEF fields, erasers

\* addAppender: push_back, or the lock is kept to set the formatter.
LEMMA UserAddAppenderStep ==
  ASSUME IInv, NEW u \in Users, NEW n \in Names, UserAddAppender(u, n)
  PROVE  IInv'
<1> USE LoggerAssumption
<1>1. /\ UNCHANGED <<program, m_loggers, m_level, m_formatter, erasing, conf, listener, event, crashed>>
      /\ crashed = NULL
      /\ m_mutex[n] = NULL
      /\ \A m \in Names : ~Attached(m) /\ \A v \in Users : adding[v] # m
  BY DEF UserAddAppender, Idle, Free
<1>2. \A v \in Users : adding[v] = NULL
  BY <1>1 DEF IInv, TypeOK
<1>3. CASE /\ mine.fmt # NULL
           /\ m_appenders' = [m_appenders EXCEPT ![n] = Append(@, Mine)]
           /\ mine' = [mine EXCEPT !.loose = ~mine.has]
           /\ Touch(n)
           /\ UNCHANGED <<m_mutex, adding>>
  <2>1. /\ mine' \in MinePtr
        /\ mine'.has = mine.has /\ mine'.fmt = mine.fmt /\ mine'.own = mine.own
        /\ mine'.over = mine.over /\ mine'.loose = ~mine.has
    BY <1>3 DEF IInv, TypeOK, MinePtr
  <2>2. ListsInv' /\ m_appenders' \in [Names -> Seq(Element)]
    <3>1. /\ mine'.has => mine'.own # NULL
          /\ ~(~mine'.has /\ ~mine'.loose)
          /\ mine'.has /\ ~mine'.over => mine'.fmt = mine'.own
      BY <1>3, <2>1 DEF IInv, ListsInv, MineInv, MineFormatterInv
    <3> QED BY <1>1, <1>2, <1>3, <3>1, ListAttach
  <2>3. TypeOK'
    BY <1>1, <1>3, <2>1, <2>2 DEF IInv, TypeOK, MinePtr, Touch, Element, conf, listener
  <2>4. \A m \in Names : m_appenders'[m] # m_appenders[m] =>
          m_mutex[m] \notin Walkers /\ {v \in Users : erasing[v] = m} \subseteq lost'
    BY <1>1, <1>3 DEF IInv, TypeOK, Touch
  <2>5. lost \subseteq lost'
    BY <1>3 DEF Touch
  <2> QED BY <1>1, <2>2, <2>3, <2>4, <2>5, ReloadKept, ListStep
<1>4. CASE /\ m_mutex' = [m_mutex EXCEPT ![n] = u]
           /\ adding' = [adding EXCEPT ![u] = n]
           /\ UNCHANGED <<m_appenders, mine, lost>>
  <2>1. /\ adding'[u] = n /\ \A v \in Users \ {u} : adding'[v] = NULL
        /\ m_mutex'[n] = u /\ \A m \in Names \ {n} : m_mutex'[m] = m_mutex[m]
        /\ adding' \in [Users -> Names \cup {NULL}]
        /\ m_mutex' \in [Names -> Walkers \cup Users \cup {NULL}]
    BY <1>2, <1>4 DEF IInv, TypeOK
  <2>2. ASSUME NEW t \in Walkers, event[t] # NULL, event[t].at = "list" PROVE m_mutex'[event[t].of] = t
    <3>1. event[t] \in Walk
      BY <2>2 DEF IInv, TypeOK, Event
    <3>2. event[t].of \in Names /\ m_mutex[event[t].of] = t
      BY <2>2, <3>1 DEF IInv, TypeOK, Walk
    <3> QED BY <1>1, <2>1, <3>2
  <2>3. TypeOK'
    BY <1>1, <1>4, <2>1, <2>2 DEF IInv, TypeOK, conf, listener
  <2>4. ListsInv'
    BY <1>1, <1>4, <2>1 DEF IInv, ListsInv, MineInv, FormatterInv, MineFormatterInv, Attached
  <2> QED BY <1>1, <1>4, <2>3, <2>4, ReloadKept, ListStep
<1> QED BY <1>3, <1>4 DEF UserAddAppender

\* The second section of addAppender sets the formatter and ends.
LEMMA InheritFormatterStep ==
  ASSUME IInv, NEW u \in Users, InheritFormatter(u)
  PROVE  IInv'
<1> USE LoggerAssumption
<1>1. PICK n \in Names : n = adding[u]
  BY DEF InheritFormatter, IInv, TypeOK
<1>2. /\ UNCHANGED <<program, m_loggers, m_level, m_formatter, erasing, conf, listener, event, crashed>>
      /\ crashed = NULL
      /\ mine' = [mine EXCEPT !.fmt = m_formatter[n], !.over = mine.has, !.loose = FALSE]
      /\ m_appenders' = [m_appenders EXCEPT ![n] = Append(@, Mine)]
      /\ m_mutex' = [m_mutex EXCEPT ![n] = NULL]
      /\ adding' = [adding EXCEPT ![u] = NULL]
      /\ Touch(n)
  BY <1>1 DEF InheritFormatter
<1>3. n # NULL /\ m_mutex[n] = u
  BY <1>1 DEF IInv, TypeOK
<1>4. /\ \A m \in Names : ~Attached(m)
      /\ \A v \in Users : v # u => adding[v] = NULL
  BY <1>1, <1>3 DEF IInv, ListsInv, MineInv
<1>5. \A v \in Users : adding'[v] = NULL
  BY <1>2, <1>4 DEF IInv, TypeOK
<1>6. m_formatter[n] \in FormatterPtr
  BY DEF IInv, TypeOK
<1>7. /\ mine' \in MinePtr
      /\ mine'.has = mine.has /\ mine'.fmt = m_formatter[n] /\ mine'.over = mine.has
      /\ mine'.own = mine.own
  BY <1>2, <1>6 DEF IInv, TypeOK, MinePtr
<1>8. ListsInv' /\ m_appenders' \in [Names -> Seq(Element)]
  <2>1. mine'.has => mine'.own # NULL
    BY <1>7 DEF IInv, ListsInv, MineInv
  <2> QED BY <1>2, <1>4, <1>5, <1>7, <2>1, ListAttach
<1>9. ASSUME NEW t \in Walkers, event[t] # NULL, event[t].at = "list" PROVE m_mutex'[event[t].of] = t
  <2>1. event[t] \in Walk
    BY <1>9 DEF IInv, TypeOK, Event
  <2>2. event[t].of \in Names /\ m_mutex[event[t].of] = t
    BY <1>9, <2>1 DEF IInv, TypeOK, Walk
  <2>3. event[t].of # n
    BY <1>3, <2>2
  <2> QED BY <1>2, <2>2, <2>3 DEF IInv, TypeOK
<1>10. TypeOK'
  BY <1>2, <1>5, <1>7, <1>8, <1>9 DEF IInv, TypeOK, MinePtr, Touch, Element, conf, listener
<1>11. \A m \in Names : m_appenders'[m] # m_appenders[m] =>
         m_mutex[m] \notin Walkers /\ {v \in Users : erasing[v] = m} \subseteq lost'
  BY <1>2, <1>3 DEF IInv, TypeOK, Touch
<1>12. lost \subseteq lost'
  BY <1>2 DEF Touch
<1> QED BY <1>2, <1>8, <1>10, <1>11, <1>12, ReloadKept, ListStep

\* delAppender finds the appender.
LEMMA FindAppenderStep ==
  ASSUME IInv, NEW u \in Users, NEW n \in Names, FindAppender(u, n)
  PROVE  IInv'
<1> USE LoggerAssumption DEF IInv
<1>1. /\ UNCHANGED <<program, m_loggers, fields, m_mutex, mine, adding, lost, conf, listener, event, crashed>>
      /\ crashed = NULL /\ Attached(n) /\ erasing[u] = NULL
      /\ erasing' = [erasing EXCEPT ![u] = n]
  BY DEF FindAppender, Idle
<1>2. /\ erasing' \in [Users -> Names \cup {NULL}]
      /\ erasing'[u] = n /\ \A v \in Users \ {u} : erasing'[v] = erasing[v]
  BY <1>1 DEF TypeOK
<1>3. TypeOK'
  BY <1>1, <1>2 DEF TypeOK, fields, conf, listener
<1>4. ListsInv'
  BY <1>1, ListsKept DEF fields
<1>5. WalkInv' /\ NoNullFormatter'
  BY <1>1 DEF WalkInv, NoNullFormatter, Attached, fields
<1>6. EraseInv'
  BY <1>1, <1>2 DEF EraseInv, Attached, fields
<1> QED BY <1>1, <1>3, <1>4, <1>5, <1>6, ReloadKept

\* The list after an erase, whether the appender was still there or not
LEMMA ListErase ==
  ASSUME IInv, NEW n \in Names, m_appenders' \in {m_appenders, Unlinked(n)},
         UNCHANGED <<m_formatter, mine, adding>>
  PROVE  ListsInv' /\ m_appenders' \in [Names -> Seq(Element)]
<1>1. CASE m_appenders' = m_appenders
  BY <1>1, ListsKept DEF IInv, TypeOK, Element
<1>2. CASE m_appenders' = Unlinked(n)
  <2>1. CASE Attached(n)
    BY <1>2, <2>1, ListDetach DEF Unlinked
  <2>2. CASE ~Attached(n)
    BY <1>1, <1>2, <2>2, UnlinkedDetached
  <2> QED BY <2>1, <2>2
<1> QED BY <1>1, <1>2

\* delAppender marks the walks and the erasers that it disturbs.
LEMMA EraseAppenderStep ==
  ASSUME IInv, NEW u \in Users, EraseAppender(u)
  PROVE  IInv'
<1> USE LoggerAssumption DEF IInv
<1>0. PICK n \in Names : n = erasing[u]
  BY DEF EraseAppender, TypeOK
<1>1. /\ UNCHANGED <<program, m_loggers, m_level, m_formatter, m_mutex, mine, adding, conf, listener>>
      /\ crashed' \in {NULL, "iterator"}
      /\ m_appenders' \in {m_appenders, Unlinked(n)}
      /\ erasing' = [erasing EXCEPT ![u] = NULL]
      /\ lost' = (lost \cup {v \in Users : erasing[v] = n}) \ {u}
      /\ event' = [t \in Walkers |-> IF event[t] # NULL /\ event[t].at = "list" /\ event[t].of = n
                                     THEN [event[t] EXCEPT !.raced = TRUE] ELSE event[t]]
  BY <1>0 DEF EraseAppender
<1>2. ListsInv' /\ m_appenders' \in [Names -> Seq(Element)]
  BY <1>1, ListErase
<1>3. \A m \in Names \ {n} : m_appenders'[m] = m_appenders[m]
  BY <1>1 DEF TypeOK, Unlinked
<1>4. ASSUME NEW t \in Walkers
      PROVE  /\ event'[t] \in {NULL} \cup Event \cup Walk
             /\ event'[t] # NULL /\ event'[t].at = "list" =>
                  /\ m_mutex[event'[t].of] = t
                  /\ ~event'[t].raced => m_appenders'[event'[t].of] = event'[t].all
  <2>1. CASE event[t] # NULL /\ event[t].at = "list" /\ event[t].of = n
    <3>1. event[t] \in Walk
      BY <2>1 DEF TypeOK, Event
    <3>2. event'[t] = [event[t] EXCEPT !.raced = TRUE]
      BY <1>1, <2>1
    <3>3. [event[t] EXCEPT !.raced = TRUE] \in Walk
      BY <3>1 DEF Walk
    <3>4. event'[t].of = event[t].of /\ event'[t].raced
      BY <3>1, <3>2 DEF Walk
    <3> QED BY <2>1, <3>2, <3>3, <3>4 DEF TypeOK
  <2>2. CASE ~(event[t] # NULL /\ event[t].at = "list" /\ event[t].of = n)
    <3>1. event'[t] = event[t]
      BY <1>1, <2>2
    <3>2. ASSUME event[t] # NULL, event[t].at = "list" PROVE m_appenders'[event[t].of] = m_appenders[event[t].of]
      <4>1. event[t] \in Walk
        BY <3>2 DEF TypeOK, Event
      <4>2. event[t].of \in Names \ {n}
        BY <2>2, <3>2, <4>1 DEF Walk
      <4> QED BY <1>3, <4>2
    <3> QED BY <3>1, <3>2 DEF TypeOK, WalkInv
  <2> QED BY <2>1, <2>2
<1>5. event' \in [Walkers -> {NULL} \cup Event \cup Walk]
  BY <1>1, <1>4
<1>6. /\ erasing' \in [Users -> Names \cup {NULL}]
      /\ \A v \in Users \ {u} : erasing'[v] = erasing[v]
      /\ erasing'[u] = NULL
      /\ lost' \subseteq {v \in Users : erasing'[v] # NULL}
  BY <1>1 DEF TypeOK
<1>7. TypeOK'
  BY <1>1, <1>2, <1>4, <1>5, <1>6 DEF TypeOK, Element, conf, listener
<1>8. WalkInv' /\ NoNullFormatter'
  BY <1>1, <1>4 DEF WalkInv, NoNullFormatter
<1>9. EraseInv'
  <2> SUFFICES ASSUME NEW v \in Users, v \notin lost', erasing'[v] # NULL PROVE Attached(erasing[v])'
    BY DEF EraseInv
  <2>1. v # u /\ v \notin lost /\ erasing'[v] = erasing[v] /\ erasing[v] \in Names \ {n}
    BY <1>1, <1>6 DEF TypeOK
  <2>2. Attached(erasing[v])
    BY <1>6, <2>1 DEF EraseInv
  <2> QED BY <1>3, <2>1, <2>2 DEF Attached
<1> QED BY <1>1, <1>2, <1>7, <1>8, <1>9, ReloadKept

-----------------------------------------------------------------------------
(* The listener *)

\* The definition that a listener is at is one of a configuration.
LEMMA DefineIsADefine ==
  ASSUME IInv, NEW r \in Reloaders, pc[r] \in {"level", "formatter", "clear", "add"}
  PROVE  cur[r] \in Names /\ new[r] \in Configs /\ Define(r) \in LoggerDefine
<1>1. cur[r] \in DOMAIN new[r] /\ new[r] \in Configs \cup {NoConfig}
  BY DEF IInv, ReloadInv, TypeOK
<1>2. DOMAIN NoConfig = {}
  BY DEF NoConfig
<1> QED BY <1>1, <1>2, LoggerAssumption DEF Define

\* A step of a listener that leaves the lists.
LEMMA ListenerStep ==
  ASSUME IInv, NEW r \in Reloaders, NEW label \in PC,
         UNCHANGED <<program, m_loggers, m_formatter, m_appenders, m_mutex, mine, adding, erasing, lost, event>>,
         crashed' = NULL, m_level' \in [Names -> Levels],
         pc' = [pc EXCEPT ![r] = label], mixed' \in BOOLEAN,
         g_log_defines' \in Configs \cup {NoConfig}, removed' \subseteq Names,
         old' \in [Reloaders -> Configs \cup {NoConfig}], new' \in [Reloaders -> Configs \cup {NoConfig}],
         todo' \in [Reloaders -> SUBSET Names], cur' \in [Reloaders -> Names \cup {NULL}],
         made' \in [Reloaders -> Nat],
         \A q \in Reloaders \ {r} : new'[q] = new[q] /\ todo'[q] = todo[q] /\ cur'[q] = cur[q] /\ made'[q] = made[q],
         ReloadInv(r)'
  PROVE  IInv'
<1>1. TypeOK'
  BY DEF IInv, TypeOK
<1>2. ListsInv'
  BY ListsKept DEF IInv
<1>3. \A q \in Reloaders : ReloadInv(q)'
  BY DEF IInv, TypeOK, ReloadInv
<1> QED BY <1>1, <1>2, <1>3, ListStep

\* setValue calls the listener.
LEMMA ReloadStep ==
  ASSUME IInv, NEW r \in Reloaders, NEW config \in Configs, Reload(r, config)
  PROVE  IInv'
<1> USE LoggerAssumption
<1>1. /\ UNCHANGED <<program, m_loggers, m_level, m_formatter, m_appenders, m_mutex, mine, adding, erasing, lost,
                     g_log_defines, removed, cur, made>>
      /\ crashed' = NULL
      /\ pc' = [pc EXCEPT ![r] = "next"]
      /\ old' = [old EXCEPT ![r] = g_log_defines]
      /\ new' = [new EXCEPT ![r] = config]
      /\ todo' = [todo EXCEPT ![r] = DOMAIN config]
      /\ mixed' \in BOOLEAN
  BY DEF Reload, Running, Goto, logger, fields, erasers, conf
<1>2. /\ ReloadInv(r)'
      /\ m_level' \in [Names -> Levels]
      /\ g_log_defines' \in Configs \cup {NoConfig} /\ removed' \subseteq Names
      /\ old' \in [Reloaders -> Configs \cup {NoConfig}] /\ new' \in [Reloaders -> Configs \cup {NoConfig}]
      /\ todo' \in [Reloaders -> SUBSET Names] /\ cur' \in [Reloaders -> Names \cup {NULL}]
      /\ made' \in [Reloaders -> Nat]
      /\ \A q \in Reloaders \ {r} : new'[q] = new[q] /\ todo'[q] = todo[q] /\ cur'[q] = cur[q] /\ made'[q] = made[q]
  BY <1>1 DEF IInv, TypeOK, ReloadInv
<1>3. PICK e \in Event : e.at = "wrapped" /\ (event' = event \/ event' = [event EXCEPT ![r] = e])
  <2>1. [at |-> "wrapped", logger |-> Root, level |-> INFO] \in Event
    BY DEF Event, Levels
  <2> QED BY <2>1 DEF Reload
<1>4. /\ event' \in [Walkers -> {NULL} \cup Event \cup Walk]
      /\ \A t \in Walkers : event'[t] # NULL /\ event'[t].at = "list" => event'[t] = event[t]
  BY <1>3 DEF IInv, TypeOK
<1>5. TypeOK'
  <2>1. pc' \in [Reloaders -> PC]
    BY <1>1 DEF IInv, TypeOK, PC
  <2>2. \A t \in Walkers : event'[t] # NULL /\ event'[t].at = "list" => m_mutex'[event'[t].of] = t
    BY <1>1, <1>4 DEF IInv, TypeOK
  <2> QED BY <1>1, <1>2, <1>4, <2>1, <2>2 DEF IInv, TypeOK
<1>6. ListsInv'
  BY <1>1, ListsKept DEF IInv
<1>7. \A q \in Reloaders : ReloadInv(q)'
  BY <1>1, <1>2 DEF IInv, TypeOK, ReloadInv
<1> QED BY <1>1, <1>4, <1>5, <1>6, <1>7, ListStep

\* The next definition of the new value: its logger, or a null pointer.
LEMMA NextDefineStep ==
  ASSUME IInv, NEW r \in Reloaders, NEW n \in Names, NextDefine(r, n)
  PROVE  IInv'
<1> USE LoggerAssumption DEF IInv
<1>1. /\ UNCHANGED <<program, m_level, m_formatter, m_appenders, m_mutex, mine, adding, erasing, lost, event,
                     g_log_defines, removed, old, new, mixed>>
      /\ pc[r] = "next" /\ n \in todo[r]
      /\ pc' = [pc EXCEPT ![r] = "level"]
      /\ todo' = [todo EXCEPT ![r] = @ \ {n}]
      /\ cur' = [cur EXCEPT ![r] = n]
      /\ made' = [made EXCEPT ![r] = 0]
      /\ m_loggers' \in {m_loggers, m_loggers \cup {n}}
      /\ crashed = NULL
      /\ crashed' = IF Chosen(r, n) = NULL THEN "logger" ELSE NULL
  BY DEF NextDefine, Running, Goto, GetLogger, fields, erasers, conf
<1>2. TypeOK'
  BY <1>1 DEF TypeOK, PC
<1>3. ListsInv'
  BY <1>1, ListsKept
<1>4. \A q \in Reloaders : ReloadInv(q)'
  BY <1>1 DEF TypeOK, ReloadInv
<1>5. WalkInv' /\ EraseInv' /\ NoNullFormatter'
  BY <1>1 DEF WalkInv, EraseInv, Attached, NoNullFormatter
<1> QED BY <1>2, <1>3, <1>4, <1>5

\* The level of the definition.
LEMMA ApplyLevelStep ==
  ASSUME IInv, NEW r \in Reloaders, ApplyLevel(r)
  PROVE  IInv'
<1>1. PICK n \in Names : n = cur[r] /\ Define(r) \in LoggerDefine
  BY DefineIsADefine DEF ApplyLevel, Running
<1>2. /\ UNCHANGED <<program, m_loggers, m_formatter, m_appenders, m_mutex, mine, adding, erasing, lost, event,
                     g_log_defines, removed, old, new, todo, cur, made, mixed>>
      /\ crashed' = NULL
      /\ pc[r] = "level"
      /\ pc' = [pc EXCEPT ![r] = "formatter"]
      /\ m_level' = [m_level EXCEPT ![n] = Define(r).level]
  BY <1>1 DEF ApplyLevel, Running, Goto, erasers, conf
<1>3. m_level' \in [Names -> Levels]
  BY <1>1, <1>2 DEF IInv, TypeOK, LoggerDefine
<1>4. ReloadInv(r)'
  BY <1>2 DEF IInv, TypeOK, ReloadInv
<1>5. "formatter" \in PC
  BY DEF PC
<1> QED BY <1>2, <1>3, <1>4, <1>5, ListenerStep DEF IInv, TypeOK

\* The formatter of the definition, if it is a valid one.
LEMMA ApplyFormatterStep ==
  ASSUME IInv, NEW r \in Reloaders, ApplyFormatter(r)
  PROVE  IInv'
<1>1. PICK n \in Names : n = cur[r]
  BY DefineIsADefine DEF ApplyFormatter, Running
<1>2. /\ UNCHANGED <<program, m_loggers, m_level, m_mutex, adding, erasing, event,
                     g_log_defines, removed, old, new, todo, cur, made, mixed>>
      /\ crashed' = NULL
      /\ pc[r] = "formatter"
      /\ pc' = [pc EXCEPT ![r] = "clear"]
  BY DEF ApplyFormatter, Running, Goto, conf
<1>3. ReloadInv(r)' /\ "clear" \in PC
  BY <1>2 DEF IInv, TypeOK, ReloadInv, PC
<1>4. CASE Define(r).formatter \in Formatters
  <2>1. SetFormatter(n, Define(r).formatter)
    BY <1>1, <1>4 DEF ApplyFormatter
  <2>2. /\ ListsInv'
        /\ m_appenders' \in [Names -> Seq(Element)]
        /\ m_formatter' \in [Names -> FormatterPtr]
        /\ mine' \in MinePtr
        /\ m_mutex[n] = NULL
        /\ lost' = lost \cup {v \in Users : erasing[v] = n}
        /\ \A m \in Names \ {n} : m_appenders'[m] = m_appenders[m]
    BY <1>2, <1>4, <2>1, ListSetFormatter DEF FormatterPtr, Touch
  <2>3. TypeOK'
    BY <1>2, <1>3, <2>2, LoggerAssumption DEF IInv, TypeOK, MinePtr, Element
  <2>4. \A q \in Reloaders : ReloadInv(q)'
    BY <1>2, <1>3 DEF IInv, TypeOK, ReloadInv
  <2>5. \A m \in Names : m_appenders'[m] # m_appenders[m] =>
          m_mutex[m] \notin Walkers /\ {v \in Users : erasing[v] = m} \subseteq lost'
    BY <2>2, LoggerAssumption
  <2> QED BY <1>2, <2>2, <2>3, <2>4, <2>5, ListStep
<1>5. CASE Define(r).formatter \notin Formatters
  <2>1. UNCHANGED <<m_formatter, m_appenders, mine, lost>>
    BY <1>5 DEF ApplyFormatter
  <2> QED BY <1>2, <1>3, <2>1, ListenerStep DEF IInv, TypeOK
<1> QED BY <1>4, <1>5

\* clearAppenders, under the logger's lock.
LEMMA ClearAppendersStep ==
  ASSUME IInv, NEW r \in Reloaders, ClearAppenders(r)
  PROVE  IInv'
<1>1. PICK n \in Names : n = cur[r]
  BY DefineIsADefine DEF ClearAppenders, Running
<1>2. /\ UNCHANGED <<program, m_loggers, m_level, m_formatter, m_mutex, mine, adding, erasing, event,
                     g_log_defines, removed, old, new, todo, cur, made, mixed>>
      /\ crashed' = NULL
      /\ pc[r] = "clear"
      /\ pc' = [pc EXCEPT ![r] = "add"]
      /\ m_mutex[n] = NULL
      /\ lost' = lost \cup {v \in Users : erasing[v] = n}
      /\ m_appenders' = [m_appenders EXCEPT ![n] = <<>>]
  BY <1>1 DEF ClearAppenders, Running, Goto, Free, Touch, conf
<1>3. ListsInv' /\ m_appenders' \in [Names -> Seq(Element)]
  BY <1>2, ListClear
<1>4. TypeOK'
  BY <1>2, <1>3, LoggerAssumption DEF IInv, TypeOK, Element, PC
<1>5. \A q \in Reloaders : ReloadInv(q)'
  BY <1>2 DEF IInv, TypeOK, ReloadInv
<1>6. \A m \in Names : m_appenders'[m] # m_appenders[m] =>
        m_mutex[m] \notin Walkers /\ {v \in Users : erasing[v] = m} \subseteq lost'
  BY <1>2, LoggerAssumption DEF IInv, TypeOK
<1> QED BY <1>2, <1>3, <1>4, <1>5, <1>6, ListStep

\* What addAppender appends of a definition.
Inherited(n, a) == IF a.fmt = NULL THEN [a EXCEPT !.fmt = m_formatter[n]] ELSE a

\* It is the appender of the definition, with its formatter or the logger's.
LEMMA NewAppenderIsAnAppender ==
  ASSUME IInv, NEW n \in Names, NEW d \in AppenderDefine
  PROVE  /\ Inherited(n, NewAppender(d)) \in Appender
         /\ IsOf(Inherited(n, NewAppender(d)), d)
         /\ Inherited(n, NewAppender(d)).has => Inherited(n, NewAppender(d)).fmt # NULL
         /\ ~Inherited(n, NewAppender(d)).has => Inherited(n, NewAppender(d)).fmt = m_formatter[n]
<1>1. m_formatter[n] \in FormatterPtr
  BY DEF IInv, TypeOK
<1>2. d.type \in {1, 2} /\ d.level \in Levels
  BY DEF AppenderDefine
<1>3. CASE d.formatter \in Formatters
  <2>1. NewAppender(d) = [type |-> d.type, level |-> d.level, fmt |-> d.formatter, has |-> TRUE]
    BY <1>3 DEF NewAppender
  <2>2. Inherited(n, NewAppender(d)) = [type |-> d.type, level |-> d.level, fmt |-> d.formatter, has |-> TRUE]
    BY <1>3, <2>1, LoggerAssumption DEF Inherited
  <2> QED BY <1>2, <1>3, <2>2, LoggerAssumption DEF Appender, FormatterPtr, IsOf
<1>4. CASE d.formatter \notin Formatters
  <2>1. NewAppender(d) = [type |-> d.type, level |-> d.level, fmt |-> NULL, has |-> FALSE]
    BY <1>4 DEF NewAppender
  <2>2. PICK b \in Appender : /\ b = NewAppender(d) /\ b.fmt = NULL
                             /\ b.type = d.type /\ b.level = d.level /\ b.has = FALSE
    <3>1. NewAppender(d) \in Appender
      BY <1>2, <2>1 DEF Appender, FormatterPtr
    <3>2. /\ NewAppender(d).fmt = NULL /\ NewAppender(d).type = d.type
          /\ NewAppender(d).level = d.level /\ NewAppender(d).has = FALSE
      BY <2>1
    <3> QED BY <3>1, <3>2
  <2>3. Inherited(n, NewAppender(d)) = [b EXCEPT !.fmt = m_formatter[n]]
    BY <2>2 DEF Inherited
  <2> QED BY <1>1, <1>4, <2>2, <2>3 DEF Appender, IsOf
<1> QED BY <1>3, <1>4

\* The list and the appender of one AddNext.
LEMMA AddNextEffect ==
  ASSUME IInv, NEW r \in Reloaders, AddNext(r)
  PROVE  \E n \in Names, a \in Appender :
           /\ n = cur[r]
           /\ m_mutex[n] = NULL
           /\ Touch(n)
           /\ m_appenders' = [m_appenders EXCEPT ![n] = Append(@, a)]
           /\ IsOf(a, Define(r).appenders[made[r] + 1])
           /\ a.has => a.fmt # NULL
           /\ ~a.has => a.fmt = m_formatter[n]
<1>1. PICK n \in Names : n = cur[r] /\ Define(r) \in LoggerDefine
  BY DefineIsADefine DEF AddNext, Running
<1>2. PICK s \in Seq(AppenderDefine) : s = Define(r).appenders
  BY <1>1 DEF LoggerDefine
<1>3. made[r] \in Nat /\ made[r] < Len(s)
  BY <1>2 DEF AddNext, IInv, TypeOK
<1>4. PICK d \in AppenderDefine : d = Define(r).appenders[made[r] + 1]
  BY <1>2, <1>3
<1>5. Touch(n) /\ m_appenders' = [m_appenders EXCEPT ![n] = Append(@, Inherited(n, NewAppender(d)))]
  BY <1>1, <1>4 DEF AddNext, AddAppender, Inherited
<1>6. m_mutex[n] = NULL
  BY <1>1 DEF AddNext, Free
<1> QED BY <1>1, <1>4, <1>5, <1>6, NewAppenderIsAnAppender

\* The next appender of the definition, under the logger's lock.
LEMMA AddNextStep ==
  ASSUME IInv, NEW r \in Reloaders, AddNext(r)
  PROVE  IInv'
<1>1. PICK n \in Names, a \in Appender :
        /\ n = cur[r]
        /\ m_mutex[n] = NULL
        /\ lost' = lost \cup {v \in Users : erasing[v] = n}
        /\ m_appenders' = [m_appenders EXCEPT ![n] = Append(@, a)]
        /\ a.has => a.fmt # NULL
        /\ ~a.has => a.fmt = m_formatter[n]
  BY AddNextEffect DEF Touch
<1>2. /\ UNCHANGED <<program, m_loggers, m_level, m_formatter, m_mutex, mine, adding, erasing, event,
                     g_log_defines, removed, pc, old, new, todo, cur, mixed>>
      /\ crashed' = NULL
      /\ pc[r] = "add"
      /\ made' = [made EXCEPT ![r] = @ + 1]
  BY DEF AddNext, Running, conf
<1>3. ListsInv' /\ m_appenders' \in [Names -> Seq(Element)]
  BY <1>1, <1>2, ListAppend
<1>4. TypeOK'
  BY <1>1, <1>2, <1>3, LoggerAssumption DEF IInv, TypeOK, Element
<1>5. \A q \in Reloaders : ReloadInv(q)'
  BY <1>2 DEF IInv, TypeOK, ReloadInv
<1>6. \A m \in Names : m_appenders'[m] # m_appenders[m] =>
        m_mutex[m] \notin Walkers /\ {v \in Users : erasing[v] = m} \subseteq lost'
  BY <1>1, LoggerAssumption DEF IInv, TypeOK
<1>7. lost \subseteq lost'
  BY <1>1
<1> QED BY <1>2, <1>3, <1>4, <1>5, <1>6, <1>7, ListStep

\* The definition is applied, and the first loop goes on.
LEMMA EndDefineStep ==
  ASSUME IInv, NEW r \in Reloaders, EndDefine(r)
  PROVE  IInv'
<1>1. /\ UNCHANGED <<program, m_loggers, m_level, m_formatter, m_appenders, m_mutex, mine, adding, erasing, lost, event,
                     g_log_defines, removed, old, new, todo, cur, made, mixed>>
      /\ crashed' = NULL
      /\ pc[r] = "add"
      /\ pc' = [pc EXCEPT ![r] = "next"]
  BY DEF EndDefine, Running, Goto, logger, fields, erasers, conf
<1>2. ReloadInv(r)' /\ "next" \in PC
  BY <1>1 DEF IInv, TypeOK, ReloadInv, PC
<1> QED BY <1>1, <1>2, ListenerStep DEF IInv, TypeOK

\* The second loop goes over the old value.
LEMMA EndNewStep ==
  ASSUME IInv, NEW r \in Reloaders, EndNew(r)
  PROVE  IInv'
<1>1. /\ UNCHANGED <<program, m_loggers, m_level, m_formatter, m_appenders, m_mutex, mine, adding, erasing, lost, event,
                     g_log_defines, removed, old, new, cur, made, mixed>>
      /\ crashed' = NULL
      /\ pc' = [pc EXCEPT ![r] = "removed"]
      /\ todo' = [todo EXCEPT ![r] = DOMAIN old[r]]
  BY DEF EndNew, Running, Goto, logger, fields, erasers, conf
<1>2. DOMAIN old[r] \subseteq Names
  <2>1. old[r] \in Configs \cup {NoConfig} /\ DOMAIN NoConfig = {}
    BY DEF IInv, TypeOK, NoConfig
  <2> QED BY <2>1, LoggerAssumption
<1>3. /\ ReloadInv(r)' /\ "removed" \in PC
      /\ todo' \in [Reloaders -> SUBSET Names]
      /\ \A q \in Reloaders \ {r} : todo'[q] = todo[q]
  BY <1>1, <1>2 DEF IInv, TypeOK, ReloadInv, PC
<1> QED BY <1>1, <1>3, ListenerStep DEF IInv, TypeOK

\* An iterator into the new value is never the end of the old one.
LEMMA RemovedTestFails ==
  ASSUME NEW r, NEW n
  PROVE  ~RemovedTest(r, n)
BY DEF RemovedTest, FindInNew

\* The second loop does nothing.
LEMMA RemoveDefineStep ==
  ASSUME IInv, NEW r \in Reloaders, NEW n \in Names, RemoveDefine(r, n)
  PROVE  IInv'
<1>1. /\ UNCHANGED <<program, m_loggers, m_level, m_formatter, m_appenders, m_mutex, mine, adding, erasing, lost, event,
                     g_log_defines, removed, pc, old, new, cur, made, mixed>>
      /\ crashed' = NULL
      /\ pc[r] = "removed"
      /\ todo' = [todo EXCEPT ![r] = @ \ {n}]
  BY RemovedTestFails DEF RemoveDefine, Running, conf
<1>2. /\ ReloadInv(r)' /\ "removed" \in PC
      /\ todo' \in [Reloaders -> SUBSET Names]
      /\ \A q \in Reloaders \ {r} : todo'[q] = todo[q]
      /\ pc' = [pc EXCEPT ![r] = "removed"]
  BY <1>1 DEF IInv, TypeOK, ReloadInv, PC
<1> QED BY <1>1, <1>2, ListenerStep DEF IInv, TypeOK

\* The listener returns.
LEMMA EndListenerStep ==
  ASSUME IInv, NEW r \in Reloaders, EndListener(r)
  PROVE  IInv'
<1>1. /\ UNCHANGED <<program, m_loggers, m_level, m_formatter, m_appenders, m_mutex, mine, adding, erasing, lost, event,
                     g_log_defines, removed, old, new, todo, cur, made, mixed>>
      /\ crashed' = NULL
      /\ pc' = [pc EXCEPT ![r] = "store"]
  BY DEF EndListener, Running, Goto, logger, fields, erasers, conf
<1>2. ReloadInv(r)' /\ "store" \in PC
  BY <1>1 DEF IInv, TypeOK, ReloadInv, PC
<1> QED BY <1>1, <1>2, ListenerStep DEF IInv, TypeOK

\* setValue stores the new value.
LEMMA EndReloadStep ==
  ASSUME IInv, NEW r \in Reloaders, EndReload(r)
  PROVE  IInv'
<1>1. /\ UNCHANGED <<program, m_loggers, m_level, m_formatter, m_appenders, m_mutex, mine, adding, erasing, lost, event, todo, mixed>>
      /\ crashed' = NULL
      /\ pc' = [pc EXCEPT ![r] = "idle"]
      /\ g_log_defines' = new[r]
      /\ removed' = DOMAIN g_log_defines \ DOMAIN new[r]
      /\ old' = [old EXCEPT ![r] = NoConfig]
      /\ new' = [new EXCEPT ![r] = NoConfig]
      /\ cur' = [cur EXCEPT ![r] = NULL]
      /\ made' = [made EXCEPT ![r] = 0]
  BY DEF EndReload, Running, Goto, logger, fields, erasers
<1>2. /\ ReloadInv(r)' /\ "idle" \in PC
      /\ g_log_defines' \in Configs \cup {NoConfig} /\ removed' \subseteq Names
      /\ old' \in [Reloaders -> Configs \cup {NoConfig}] /\ new' \in [Reloaders -> Configs \cup {NoConfig}]
      /\ cur' \in [Reloaders -> Names \cup {NULL}] /\ made' \in [Reloaders -> Nat]
      /\ \A q \in Reloaders \ {r} : new'[q] = new[q] /\ cur'[q] = cur[q] /\ made'[q] = made[q]
  <2>1. DOMAIN g_log_defines \subseteq Names
    BY LoggerAssumption DEF IInv, TypeOK, NoConfig
  <2> QED BY <1>1, <2>1 DEF IInv, TypeOK, ReloadInv, PC
<1> QED BY <1>1, <1>2, ListenerStep DEF IInv, TypeOK

\* Every step preserves the invariant.
LEMMA NextInv ==
  ASSUME IInv, [Next]_vars
  PROVE  IInv'
<1>1. CASE UNCHANGED vars
  <2> USE <1>1 DEF vars, logger, fields, erasers, conf, listener
  <2>1. TypeOK' /\ WalkInv' /\ EraseInv'
    BY DEF IInv, TypeOK, WalkInv, EraseInv, Attached
  <2>2. NoNullFormatter'
    BY DEF IInv, NoNullFormatter, Attached
  <2>3. ListsInv'
    BY ListsKept DEF IInv
  <2> QED BY <2>1, <2>2, <2>3, ReloadKept DEF IInv
<1>0. ASSUME NEW t \in Threads, NEW n \in Names, NEW level \in {DEBUG, FATAL}, LogEventWrap(t, n, level)
      PROVE  IInv'
  BY <1>0, LogEventWrapStep DEF Walkers
<1>2. ASSUME NEW t \in Walkers,
             \/ Log(t) \/ LogLock(t) \/ LogRoot(t) \/ LogAppend(t) \/ LogEnd(t)
      PROVE  IInv'
  BY <1>2, LogStep, LogLockStep, LogRootStep, LogAppendStep, LogEndStep
<1>3. ASSUME NEW u \in Users, NEW n \in Names,
             \/ UserGetLogger(u, n) \/ UserAddAppender(u, n) \/ FindAppender(u, n)
             \/ \E f \in FormatterPtr : UserSetFormatter(u, n, f)
      PROVE  IInv'
  BY <1>3, UserGetLoggerStep, UserAddAppenderStep, FindAppenderStep, UserSetFormatterStep
<1>4. ASSUME NEW u \in Users,
             InheritFormatter(u) \/ EraseAppender(u) \/ \E f \in FormatterPtr : AppenderSetFormatter(u, f)
      PROVE  IInv'
  BY <1>4, InheritFormatterStep, EraseAppenderStep, AppenderSetFormatterStep
<1>5. ASSUME NEW r \in Reloaders,
             \/ \E config \in Configs : Reload(r, config)
             \/ \E n \in Names : NextDefine(r, n) \/ RemoveDefine(r, n)
             \/ ApplyLevel(r) \/ ApplyFormatter(r) \/ ClearAppenders(r)
      PROVE  IInv'
  BY <1>5, ReloadStep, NextDefineStep, RemoveDefineStep, ApplyLevelStep, ApplyFormatterStep, ClearAppendersStep
<1>6. ASSUME NEW r \in Reloaders,
             AddNext(r) \/ EndDefine(r) \/ EndNew(r) \/ EndListener(r) \/ EndReload(r)
      PROVE  IInv'
  BY <1>6, AddNextStep, EndDefineStep, EndNewStep, EndListenerStep, EndReloadStep
<1> QED BY <1>0, <1>1, <1>2, <1>3, <1>4, <1>5, <1>6, Zenon DEF Next

-----------------------------------------------------------------------------
(* The theorems *)

\* The invariant holds of every execution.
THEOREM Invariant == Spec => []IInv
<1>1. Init => IInv
  BY InitInv DEF CInv
<1>2. IInv /\ [Next]_vars => IInv'
  BY NextInv
<1> QED BY <1>1, <1>2, PTL DEF Spec

\* Type correctness; a thread that walks a list has the lock of its logger, and
\* one inside of addAppender too.
THEOREM TypeCorrect == Spec => []TypeOK
<1>1. IInv => TypeOK
  BY DEF IInv
<1> QED BY <1>1, Invariant, PTL

\* Only delAppender, which takes no lock, changes a list under an iterator, and its
\* own iterator is good unless the list was used between its search and its erase.
THEOREM WalksAreUndisturbed == Spec => []IterationUndisturbed
<1>1. IInv => IterationUndisturbed
  BY DEF IInv, WalkInv, EraseInv, IterationUndisturbed
<1> QED BY <1>1, Invariant, PTL

\* A thread that logs uses a null formatter only after a setFormatter(nullptr), on
\* the logger or on the appender.
THEOREM NullPointers == Spec => []NoNullFormatter
<1>1. IInv => NoNullFormatter
  BY DEF IInv
<1> QED BY <1>1, Invariant, PTL

\* Appenders without a formatter of their own format like their logger, through
\* every interleaving of setFormatter, addAppender and reloads.
THEOREM FormattersAreInherited == Spec => []InheritedFormatter
<1>1. ASSUME IInv PROVE InheritedFormatter
  <2>1. ASSUME NEW n \in Names, NEW a \in Range(m_appenders[n]) \ {Mine}, ~a.has
        PROVE  a.fmt = m_formatter[n]
    <3>1. PICK i \in DOMAIN m_appenders[n] : a = m_appenders[n][i]
      BY <2>1 DEF Range
    <3> QED BY <1>1, <2>1, <3>1 DEF IInv, ListsInv, FormatterInv
  <2> QED BY <1>1, <2>1 DEF IInv, ListsInv, MineFormatterInv, InheritedFormatter
<1> QED BY <1>1, Invariant, PTL

-----------------------------------------------------------------------------
(* A reload by itself applies its configuration *)

\* Two appenders are the same, up to an inherited formatter.
Same(b, a) ==
  /\ b.type = a.type /\ b.level = a.level /\ b.has = a.has
  /\ a.has => b.fmt = a.fmt

\* Then they are of the same definition.
LEMMA SameIsOf ==
  ASSUME NEW a, NEW b, NEW d, Same(b, a), IsOf(a, d)
  PROVE  IsOf(b, d)
BY DEF Same, IsOf

\* The configured appenders of logger n are the same, in the same order, up to
\* inherited formatters.
SameConfigured(n) ==
  /\ Len(Configured(n))' = Len(Configured(n))
  /\ \A i \in 1..Len(Configured(n)) : Same(Configured(n)'[i], Configured(n)[i])

\* A list that is not touched.
LEMMA SameList ==
  ASSUME NEW n, m_appenders'[n] = m_appenders[n]
  PROVE  SameConfigured(n)
BY DEF SameConfigured, Same, Configured

\* setFormatter keeps all but inherited formatters.
LEMMA SetFormatterTypes ==
  ASSUME IInv, NEW n \in Names, NEW f \in FormatterPtr, SetFormatter(n, f)
  PROVE  \A m \in Names : SameConfigured(m)
<1>1. PICK s \in Seq(Element) : s = m_appenders[n]
  BY DEF IInv, TypeOK, Element
<1>2. PICK w \in Seq(Element) :
        /\ w = WithFormatter(s, f)
        /\ Len(w) = Len(s)
        /\ \A i \in 1..Len(s) :
             /\ s[i] = Mine => w[i] = Mine
             /\ s[i] # Mine => w[i] # Mine /\ Same(w[i], s[i])
  BY WithFormatterEffect DEF Same
<1>3. m_appenders'[n] = w /\ \A m \in Names \ {n} : m_appenders'[m] = m_appenders[m]
  BY <1>1, <1>2 DEF SetFormatter, IInv, TypeOK
<1>4. Len(s) \in Nat /\ DOMAIN s = 1..Len(s)
  OBVIOUS
<1>5. CASE \A i \in 1..Len(s) : s[i] # Mine
  <2>1. RemoveFirst(s, Mine) = s /\ RemoveFirst(w, Mine) = w
    BY <1>2, <1>5, ConfiguredWithoutMine
  <2>2. SameConfigured(n)
    BY <1>1, <1>2, <1>3, <1>5, <2>1 DEF SameConfigured, Configured
  <2> QED BY <1>3, <2>2, SameList
<1>6. CASE \E i \in 1..Len(s) : s[i] = Mine
  <2>1. PICK p \in 1..Len(s) : s[p] = Mine /\ \A i \in 1..Len(s) : s[i] = Mine => i = p
    BY <1>1, <1>4, <1>6 DEF IInv, ListsInv, MineInv
  <2>2. p \in 1..Len(w) /\ w[p] = Mine /\ \A i \in 1..Len(w) : w[i] = Mine => i = p
    BY <1>2, <2>1
  <2>3. /\ Len(RemoveFirst(s, Mine)) = Len(s) - 1
        /\ \A i \in 1..(Len(s) - 1) : RemoveFirst(s, Mine)[i] = IF i < p THEN s[i] ELSE s[i + 1]
    BY <2>1, RemoveFirstEffect
  <2>4. /\ Len(RemoveFirst(w, Mine)) = Len(w) - 1
        /\ \A i \in 1..(Len(w) - 1) : RemoveFirst(w, Mine)[i] = IF i < p THEN w[i] ELSE w[i + 1]
    BY <2>2, RemoveFirstEffect
  <2>5. ASSUME NEW i \in 1..(Len(s) - 1)
        PROVE  Same(RemoveFirst(w, Mine)[i], RemoveFirst(s, Mine)[i])
    <3>1. CASE i < p
      <4>1. i \in 1..Len(s) /\ s[i] # Mine
        BY <1>4, <2>1, <3>1
      <4> QED BY <1>2, <2>3, <2>4, <3>1, <4>1
    <3>2. CASE ~(i < p)
      <4>1. i + 1 \in 1..Len(s) /\ i + 1 # p
        BY <1>4, <3>2
      <4>2. s[i + 1] # Mine
        BY <2>1, <4>1
      <4> QED BY <1>2, <2>3, <2>4, <3>2, <4>1, <4>2
    <3> QED BY <3>1, <3>2
  <2>6. SameConfigured(n)
    BY <1>1, <1>2, <1>3, <2>3, <2>4, <2>5 DEF SameConfigured, Configured
  <2> QED BY <1>3, <2>6, SameList
<1> QED BY <1>5, <1>6

\* The users' appender is no part of the configured ones, when it is added
LEMMA AttachTypes ==
  ASSUME IInv, NEW n \in Names, ~Attached(n), m_appenders' = [m_appenders EXCEPT ![n] = Append(@, Mine)]
  PROVE  \A m \in Names : SameConfigured(m)
<1>1. PICK s \in Seq(Element) : s = m_appenders[n]
  BY DEF IInv, TypeOK, Element
<1>2. Len(s) \in Nat /\ DOMAIN s = 1..Len(s) /\ \A i \in 1..Len(s) : s[i] # Mine
  BY <1>1 DEF Attached
<1>3. PICK w \in Seq(Element) : w = Append(s, Mine)
  <2>1. Mine \in Element
    BY DEF Element
  <2>2. Append(s, Mine) \in Seq(Element)
    BY <2>1
  <2> QED BY <2>2
<1>4. /\ Len(w) = Len(s) + 1
      /\ w[Len(s) + 1] = Mine
      /\ \A i \in 1..Len(s) : w[i] = s[i]
  BY <1>2, <1>3
<1>5. m_appenders'[n] = w /\ \A m \in Names \ {n} : m_appenders'[m] = m_appenders[m]
  BY <1>1, <1>3 DEF IInv, TypeOK
<1>6. PICK p \in 1..Len(w) : p = Len(s) + 1
  BY <1>2, <1>4
<1>7. w[p] = Mine /\ \A i \in 1..Len(w) : w[i] = Mine => i = p
  BY <1>2, <1>4, <1>6
<1>8. /\ Len(RemoveFirst(w, Mine)) = Len(w) - 1
      /\ \A i \in 1..(Len(w) - 1) : RemoveFirst(w, Mine)[i] = IF i < p THEN w[i] ELSE w[i + 1]
  BY <1>7, RemoveFirstEffect
<1>9. Len(w) - 1 = Len(s) /\ \A i \in 1..Len(s) : i < p
  BY <1>2, <1>4, <1>6
<1>10. Len(RemoveFirst(w, Mine)) = Len(s) /\ \A i \in 1..Len(s) : RemoveFirst(w, Mine)[i] = s[i]
  BY <1>4, <1>8, <1>9
<1>11. RemoveFirst(s, Mine) = s
  BY <1>2, ConfiguredWithoutMine
<1>12. SameConfigured(n)
  BY <1>1, <1>5, <1>10, <1>11 DEF SameConfigured, Same, Configured
<1> QED BY <1>5, <1>12, SameList

\* and when it is removed.
LEMMA DetachTypes ==
  ASSUME IInv, NEW n \in Names, Attached(n), m_appenders' = [m_appenders EXCEPT ![n] = RemoveFirst(@, Mine)]
  PROVE  \A m \in Names : SameConfigured(m)
<1>1. PICK s \in Seq(Element) : s = m_appenders[n]
  BY DEF IInv, TypeOK, Element
<1>2. Len(s) \in Nat /\ DOMAIN s = 1..Len(s)
  OBVIOUS
<1>3. PICK p \in 1..Len(s) : s[p] = Mine /\ \A i \in 1..Len(s) : s[i] = Mine => i = p
  BY <1>1, <1>2 DEF Attached, IInv, ListsInv, MineInv
<1>4. PICK w \in Seq(Element) :
        /\ w = RemoveFirst(s, Mine)
        /\ Len(w) = Len(s) - 1
        /\ \A i \in 1..(Len(s) - 1) : w[i] = IF i < p THEN s[i] ELSE s[i + 1]
  BY <1>3, RemoveFirstEffect
<1>5. ASSUME NEW i \in 1..Len(w) PROVE w[i] # Mine
  <2>1. i \in 1..(Len(s) - 1)
    BY <1>4
  <2>2. CASE i < p
    <3>1. i \in 1..Len(s) /\ i # p
      BY <1>2, <2>1, <2>2
    <3> QED BY <1>3, <1>4, <2>1, <2>2, <3>1
  <2>3. CASE ~(i < p)
    <3>1. i + 1 \in 1..Len(s) /\ i + 1 # p
      BY <1>2, <2>1, <2>3
    <3> QED BY <1>3, <1>4, <2>1, <2>3, <3>1
  <2> QED BY <2>2, <2>3
<1>6. RemoveFirst(w, Mine) = w
  BY <1>5, ConfiguredWithoutMine
<1>7. m_appenders'[n] = w /\ \A m \in Names \ {n} : m_appenders'[m] = m_appenders[m]
  BY <1>1, <1>4 DEF IInv, TypeOK
<1>8. SameConfigured(n)
  BY <1>1, <1>4, <1>6, <1>7 DEF SameConfigured, Same, Configured
<1> QED BY <1>7, <1>8, SameList

\* addAppender of a configured appender makes the configured part one longer.
LEMMA AppendTypes ==
  ASSUME IInv, NEW n \in Names, NEW a \in Appender, m_appenders' = [m_appenders EXCEPT ![n] = Append(@, a)]
  PROVE  /\ Len(Configured(n)) \in Nat
         /\ Len(Configured(n))' = Len(Configured(n)) + 1
         /\ \A i \in 1..Len(Configured(n)) : Configured(n)'[i] = Configured(n)[i]
         /\ Configured(n)'[Len(Configured(n)) + 1] = a
<1>1. PICK s \in Seq(Element) : s = m_appenders[n]
  BY DEF IInv, TypeOK, Element
<1>2. Len(s) \in Nat /\ DOMAIN s = 1..Len(s) /\ a # Mine
  BY MineIsNoAppender
<1>3. PICK w \in Seq(Element) : w = Append(s, a)
  <2>1. a \in Element
    BY DEF Element
  <2>2. Append(s, a) \in Seq(Element)
    BY <2>1
  <2> QED BY <2>2
<1>4. /\ Len(w) = Len(s) + 1
      /\ w[Len(s) + 1] = a
      /\ \A i \in 1..Len(s) : w[i] = s[i]
  BY <1>2, <1>3
<1>5. m_appenders'[n] = w
  BY <1>1, <1>3 DEF IInv, TypeOK
<1>6. CASE \A i \in 1..Len(s) : s[i] # Mine
  <2>1. \A i \in 1..Len(w) : w[i] # Mine
    BY <1>2, <1>4, <1>6
  <2>2. RemoveFirst(s, Mine) = s /\ RemoveFirst(w, Mine) = w
    BY <1>6, <2>1, ConfiguredWithoutMine
  <2> QED BY <1>1, <1>2, <1>4, <1>5, <2>2 DEF Configured
<1>7. CASE \E i \in 1..Len(s) : s[i] = Mine
  <2>1. PICK p \in 1..Len(s) : s[p] = Mine /\ \A i \in 1..Len(s) : s[i] = Mine => i = p
    BY <1>1, <1>2, <1>7 DEF IInv, ListsInv, MineInv
  <2>2. p \in 1..Len(w) /\ w[p] = Mine /\ \A i \in 1..Len(w) : w[i] = Mine => i = p
    BY <1>2, <1>4, <2>1
  <2>3. /\ Len(RemoveFirst(s, Mine)) = Len(s) - 1
        /\ \A i \in 1..(Len(s) - 1) : RemoveFirst(s, Mine)[i] = IF i < p THEN s[i] ELSE s[i + 1]
    BY <2>1, RemoveFirstEffect
  <2>4. /\ Len(RemoveFirst(w, Mine)) = Len(w) - 1
        /\ \A i \in 1..(Len(w) - 1) : RemoveFirst(w, Mine)[i] = IF i < p THEN w[i] ELSE w[i + 1]
    BY <2>2, RemoveFirstEffect
  <2>5. /\ Len(s) - 1 \in Nat /\ Len(w) - 1 = (Len(s) - 1) + 1
        /\ (Len(s) - 1) + 1 \in 1..(Len(w) - 1) /\ (Len(s) - 1) + 1 = Len(s) /\ ~(Len(s) < p)
    BY <1>2, <1>4, <2>1
  <2>6. ASSUME NEW i \in 1..(Len(s) - 1)
        PROVE  RemoveFirst(w, Mine)[i] = RemoveFirst(s, Mine)[i]
    <3>1. i \in 1..Len(s) /\ i + 1 \in 1..Len(s) /\ i \in 1..(Len(w) - 1)
      BY <1>2, <1>4
    <3> QED BY <1>4, <2>3, <2>4, <3>1
  <2>7. RemoveFirst(w, Mine)[Len(s)] = a
    BY <1>4, <2>4, <2>5
  <2> QED BY <1>1, <1>5, <2>3, <2>4, <2>5, <2>6, <2>7 DEF Configured
<1> QED BY <1>6, <1>7

\* What is applied stays applied while appenders, level and logger stay.
LEMMA AppliedKept ==
  ASSUME NEW n, NEW d, NEW k, Applied(n, d, k), SameConfigured(n), n \in m_loggers', m_level'[n] = m_level[n]
  PROVE  Applied(n, d, k)'
BY SameIsOf DEF Applied, SameConfigured

\* The steps of threads and users leave a reload where it is.
LEMMA OthersApplied ==
  ASSUME CInv, UNCHANGED <<listener, conf, m_level>>, m_loggers \subseteq m_loggers',
         crashed # "logger", \A n \in Names : SameConfigured(n)
  PROVE  SoleInv' /\ AppliedInv'
<1> USE DEF listener, conf
<1>1. SoleInv'
  BY DEF CInv, SoleInv
<1>2. ASSUME NEW n \in Names, NEW d, NEW k, Applied(n, d, k) PROVE Applied(n, d, k)'
  <2>1. n \in m_loggers
    BY <1>2 DEF Applied
  <2> QED BY <1>2, <2>1, AppliedKept
<1>3. ASSUME NEW c \in Configs \cup {NoConfig}, NEW n \in DOMAIN c PROVE n \in Names
  BY LoggerAssumption DEF NoConfig
<1>4. ASSUME ~mixed, Quiet, NEW n \in DOMAIN g_log_defines PROVE AppliedAll(n, g_log_defines[n])'
  <2>1. n \in Names /\ AppliedAll(n, g_log_defines[n])
    BY <1>3, <1>4 DEF CInv, IInv, TypeOK, AppliedInv
  <2>2. PICK d : d = g_log_defines[n]
    OBVIOUS
  <2>3. Applied(n, d, Len(d.appenders))'
    BY <1>2, <2>1, <2>2 DEF AppliedAll
  <2> QED BY <2>2, <2>3 DEF AppliedAll
<1>5. ASSUME ~mixed, NEW r \in Reloaders PROVE Progress(r)'
  <2>1. Progress(r)
    BY <1>5 DEF CInv, AppliedInv
  <2>2. new[r] \in Configs \cup {NoConfig}
    BY DEF CInv, IInv, TypeOK
  <2>3. ASSUME NEW n \in DOMAIN new[r], AppliedAll(n, new[r][n]) PROVE AppliedAll(n, new[r][n])'
    <3>1. n \in Names
      BY <1>3, <2>2
    <3>2. PICK d : d = new[r][n]
      OBVIOUS
    <3>3. Applied(n, d, Len(d.appenders))'
      BY <1>2, <2>3, <3>1, <3>2 DEF AppliedAll
    <3> QED BY <3>2, <3>3 DEF AppliedAll
  <2>4. ASSUME pc[r] = "add" PROVE Applied(cur[r], Define(r), made[r])'
    <3>1. cur[r] \in Names
      BY <2>4, DefineIsADefine DEF CInv
    <3>2. PICK n, d, k : n = cur[r] /\ d = Define(r) /\ k = made[r]
      OBVIOUS
    <3>3. Applied(n, d, k)'
      BY <1>2, <2>1, <2>4, <3>1, <3>2 DEF Progress
    <3>4. cur'[r] = n /\ Define(r)' = d /\ made'[r] = k
      BY <3>2 DEF Define
    <3> QED BY <3>3, <3>4
  <2> QED BY <2>1, <2>3, <2>4 DEF Progress, Define
<1> QED BY <1>1, <1>4, <1>5 DEF AppliedInv, Quiet

\* A thread that logs changes no list.
LEMMA ThreadsApplied ==
  ASSUME CInv, NEW t \in Walkers,
         \/ \E n \in Names, level \in {DEBUG, FATAL} : LogEventWrap(t, n, level)
         \/ Log(t) \/ LogLock(t) \/ LogRoot(t) \/ LogAppend(t) \/ LogEnd(t)
  PROVE  SoleInv' /\ AppliedInv'
<1>1. UNCHANGED <<listener, conf, m_level, m_appenders, m_loggers>> /\ crashed = NULL
  BY DEF LogEventWrap, Log, LogLock, LogRoot, LogAppend, LogEnd, logger, fields
<1>2. \A n \in Names : SameConfigured(n)
  BY <1>1, SameList
<1> QED BY <1>1, <1>2, LoggerAssumption, OthersApplied

\* A user changes formatters and its own appender.
LEMMA UsersApplied ==
  ASSUME CInv, NEW u \in Users,
         \/ \E n \in Names :
              \/ UserGetLogger(u, n) \/ UserAddAppender(u, n) \/ FindAppender(u, n)
              \/ \E f \in FormatterPtr : UserSetFormatter(u, n, f)
         \/ \E f \in FormatterPtr : AppenderSetFormatter(u, f)
         \/ InheritFormatter(u) \/ EraseAppender(u)
  PROVE  SoleInv' /\ AppliedInv'
<1> USE DEF CInv
<1>1. UNCHANGED <<listener, conf, m_level>> /\ m_loggers \subseteq m_loggers' /\ crashed = NULL
  BY DEF UserGetLogger, GetLogger, UserAddAppender, FindAppender, EraseAppender, UserSetFormatter, AppenderSetFormatter,
         InheritFormatter, Idle, fields
<1>2. ASSUME NEW n \in Names, UserGetLogger(u, n) PROVE \A m \in Names : SameConfigured(m)
  BY <1>2, SameList DEF UserGetLogger, fields
<1>3. ASSUME NEW n \in Names, UserAddAppender(u, n) PROVE \A m \in Names : SameConfigured(m)
  <2>1. ~Attached(n) /\ (UNCHANGED m_appenders \/ m_appenders' = [m_appenders EXCEPT ![n] = Append(@, Mine)])
    BY <1>3 DEF UserAddAppender
  <2> QED BY <2>1, AttachTypes, SameList
<1>4. ASSUME NEW n \in Names, FindAppender(u, n) PROVE \A m \in Names : SameConfigured(m)
  BY <1>4, SameList DEF FindAppender, fields
<1>5. ASSUME NEW n \in Names, NEW f \in FormatterPtr, UserSetFormatter(u, n, f)
      PROVE  \A m \in Names : SameConfigured(m)
  BY <1>5, SetFormatterTypes DEF UserSetFormatter
<1>6. ASSUME NEW f \in FormatterPtr, AppenderSetFormatter(u, f) PROVE \A m \in Names : SameConfigured(m)
  BY <1>6, SameList DEF AppenderSetFormatter, fields
<1>7. ASSUME InheritFormatter(u) PROVE \A m \in Names : SameConfigured(m)
  <2>1. PICK n \in Names : n = adding[u]
    BY <1>7 DEF InheritFormatter, IInv, TypeOK
  <2>2. ~Attached(n)
    BY <1>7, <2>1 DEF InheritFormatter, IInv, ListsInv, MineInv
  <2>3. m_appenders' = [m_appenders EXCEPT ![n] = Append(@, Mine)]
    BY <1>7, <2>1 DEF InheritFormatter
  <2> QED BY <2>2, <2>3, AttachTypes
<1>8. ASSUME EraseAppender(u) PROVE \A m \in Names : SameConfigured(m)
  <2>1. PICK n \in Names : n = erasing[u] /\ m_appenders' \in {m_appenders, Unlinked(n)}
    BY <1>8 DEF EraseAppender, IInv, TypeOK
  <2>2. CASE m_appenders' = m_appenders
    BY <2>2, SameList
  <2>3. CASE m_appenders' = Unlinked(n) /\ Attached(n)
    BY <2>3, DetachTypes DEF Unlinked
  <2>4. CASE m_appenders' = Unlinked(n) /\ ~Attached(n)
    BY <2>2, <2>4, UnlinkedDetached
  <2> QED BY <2>1, <2>2, <2>3, <2>4
<1>9. \A m \in Names : SameConfigured(m)
  BY <1>2, <1>3, <1>4, <1>5, <1>6, <1>7, <1>8
<1> HIDE DEF CInv
<1> QED BY <1>1, <1>9, LoggerAssumption, OthersApplied

\* A step of the one listener that is under way.
LEMMA ListenerApplied ==
  ASSUME CInv, NEW r \in Reloaders, pc[r] # "idle", NEW label \in PC \ {"idle"},
         pc' = [pc EXCEPT ![r] = label], UNCHANGED mixed,
         ~mixed /\ crashed' # "logger" => Progress(r)'
  PROVE  SoleInv' /\ AppliedInv'
<1>1. pc'[r] = label /\ \A q \in Reloaders \ {r} : pc'[q] = pc[q]
  BY DEF CInv, IInv, TypeOK
<1>2. SoleInv'
  BY <1>1 DEF CInv, SoleInv
<1>3. ~Quiet'
  BY <1>1 DEF Quiet
<1>4. ASSUME ~mixed, NEW q \in Reloaders \ {r} PROVE Progress(q)'
  <2>1. pc'[q] = "idle"
    BY <1>1, <1>4 DEF CInv, SoleInv
  <2> QED BY <2>1 DEF Progress
<1> QED BY <1>2, <1>3, <1>4 DEF AppliedInv

\* Its progress so far.
LEMMA ProgressNow ==
  ASSUME CInv, NEW r \in Reloaders, ~mixed, crashed = NULL
  PROVE  Progress(r)
BY LoggerAssumption DEF CInv, AppliedInv

\* A definition that was applied is not touched by a step at another logger.
LEMMA AppliedAllKept ==
  ASSUME NEW n, NEW d, AppliedAll(n, d), m_appenders'[n] = m_appenders[n], m_loggers \subseteq m_loggers',
         m_level'[n] = m_level[n]
  PROVE  AppliedAll(n, d)'
<1>1. n \in m_loggers
  BY DEF AppliedAll, Applied
<1>2. Applied(n, d, Len(d.appenders))'
  BY <1>1, SameList, AppliedKept DEF AppliedAll
<1> QED BY <1>2 DEF AppliedAll

\* A reload begins with everything to do; it is alone when no other is under way.
LEMMA ReloadApplied ==
  ASSUME CInv, NEW r \in Reloaders, NEW config \in Configs, Reload(r, config)
  PROVE  SoleInv' /\ AppliedInv'
<1>1. /\ pc'[r] = "next" /\ \A q \in Reloaders \ {r} : pc'[q] = pc[q]
      /\ new'[r] = config /\ todo'[r] = DOMAIN config
      /\ mixed' = \E q \in Reloaders : pc[q] # "idle"
  BY DEF CInv, IInv, TypeOK, Reload, Goto
<1>2. SoleInv'
  BY <1>1 DEF SoleInv
<1>3. ~Quiet'
  BY <1>1 DEF Quiet
<1>4. Progress(r)'
  BY <1>1 DEF Progress
<1>5. ASSUME ~mixed', NEW q \in Reloaders \ {r} PROVE Progress(q)'
  BY <1>1, <1>5 DEF Progress
<1> QED BY <1>2, <1>3, <1>4, <1>5 DEF AppliedInv

\* The listener has the logger of a definition, unless the pointer stayed null.
LEMMA NextDefineApplied ==
  ASSUME CInv, NEW r \in Reloaders, NEW n \in Names, NextDefine(r, n)
  PROVE  SoleInv' /\ AppliedInv'
<1> USE LoggerAssumption
<1>1. /\ UNCHANGED <<m_level, m_appenders, new, mixed>>
      /\ pc[r] = "next" /\ n \in todo[r] /\ crashed = NULL
      /\ pc' = [pc EXCEPT ![r] = "level"]
      /\ todo' = [todo EXCEPT ![r] = @ \ {n}]
      /\ cur' = [cur EXCEPT ![r] = n]
      /\ m_loggers' = IF Chosen(r, n) # NULL THEN m_loggers \cup {n} ELSE m_loggers
      /\ crashed' = IF Chosen(r, n) = NULL THEN "logger" ELSE NULL
  BY DEF NextDefine, Running, Goto, GetLogger, fields
<1>2. pc'[r] = "level" /\ todo'[r] = todo[r] \ {n} /\ cur'[r] = n
  BY <1>1 DEF CInv, IInv, TypeOK
<1>3. ASSUME ~mixed, crashed' # "logger" PROVE Progress(r)'
  <2>1. Progress(r)
    BY <1>1, <1>3, ProgressNow
  <2>2. n \in m_loggers' /\ m_loggers \subseteq m_loggers'
    BY <1>1, <1>3
  <2>3. ASSUME NEW m \in DOMAIN new[r] \ (todo'[r] \cup {n}) PROVE AppliedAll(m, new[r][m])'
    <3>1. PICK d : d = new[r][m] /\ AppliedAll(m, d)
      BY <1>1, <1>2, <2>1 DEF Progress
    <3>2. AppliedAll(m, d)'
      BY <1>1, <2>2, <3>1, AppliedAllKept
    <3> QED BY <1>1, <3>1, <3>2
  <2> QED BY <1>1, <1>2, <2>2, <2>3 DEF Progress
<1> QED BY <1>1, <1>3, ListenerApplied DEF PC

\* The level of the definition is applied.
LEMMA ApplyLevelApplied ==
  ASSUME CInv, NEW r \in Reloaders, ApplyLevel(r)
  PROVE  SoleInv' /\ AppliedInv'
<1>1. pc[r] = "level" /\ crashed = NULL
  BY DEF ApplyLevel, Running
<1>2. PICK n \in Names :
        /\ n = cur[r]
        /\ UNCHANGED <<m_loggers, m_appenders, new, todo, cur, mixed>>
        /\ pc' = [pc EXCEPT ![r] = "formatter"]
        /\ m_level' = [m_level EXCEPT ![n] = Define(r).level]
  BY <1>1, DefineIsADefine DEF CInv, ApplyLevel, Goto
<1>3. pc'[r] = "formatter" /\ Define(r)' = Define(r)
  BY <1>2 DEF CInv, IInv, TypeOK, Define
<1>4. ASSUME ~mixed PROVE Progress(r)'
  <2>1. Progress(r)
    BY <1>1, <1>4, ProgressNow
  <2>2. ASSUME NEW m \in DOMAIN new[r] \ (todo[r] \cup {n}) PROVE AppliedAll(m, new[r][m])'
    <3>1. PICK d : d = new[r][m] /\ AppliedAll(m, d)
      BY <1>1, <1>2, <2>1 DEF Progress
    <3>2. m \in Names
      BY <1>1, LoggerAssumption, DefineIsADefine DEF CInv
    <3>3. m_level'[m] = m_level[m] /\ m_appenders'[m] = m_appenders[m]
      BY <1>2, <3>2 DEF CInv, IInv, TypeOK
    <3>4. AppliedAll(m, d)'
      BY <1>2, <3>1, <3>3, AppliedAllKept
    <3> QED BY <1>2, <3>1, <3>4
  <2>3. m_level'[n] = Define(r).level
    BY <1>2 DEF CInv, IInv, TypeOK
  <2> QED BY <1>1, <1>2, <1>3, <2>1, <2>2, <2>3 DEF Progress
<1> QED BY <1>1, <1>2, <1>4, ListenerApplied DEF PC

\* setFormatter keeps levels and appenders.
LEMMA ApplyFormatterApplied ==
  ASSUME CInv, NEW r \in Reloaders, ApplyFormatter(r)
  PROVE  SoleInv' /\ AppliedInv'
<1>1. pc[r] = "formatter" /\ crashed = NULL
  BY DEF ApplyFormatter, Running
<1>2. PICK n \in Names :
        /\ n = cur[r]
        /\ UNCHANGED <<m_loggers, m_level, new, todo, cur, mixed>>
        /\ pc' = [pc EXCEPT ![r] = "clear"]
  BY <1>1, DefineIsADefine DEF CInv, ApplyFormatter, Goto
<1>3. pc'[r] = "clear" /\ Define(r)' = Define(r)
  BY <1>2 DEF CInv, IInv, TypeOK, Define
<1>4. \A m \in Names : SameConfigured(m)
  <2>1. CASE Define(r).formatter \in Formatters
    <3>1. SetFormatter(n, Define(r).formatter)
      BY <1>2, <2>1 DEF ApplyFormatter
    <3> QED BY <2>1, <3>1, SetFormatterTypes DEF CInv, FormatterPtr
  <2>2. CASE Define(r).formatter \notin Formatters
    BY <2>2, SameList DEF ApplyFormatter
  <2> QED BY <2>1, <2>2
<1>5. ASSUME ~mixed PROVE Progress(r)'
  <2>1. Progress(r)
    BY <1>1, <1>5, ProgressNow
  <2>2. ASSUME NEW m \in DOMAIN new[r] \ (todo[r] \cup {n}) PROVE AppliedAll(m, new[r][m])'
    <3>1. PICK d : d = new[r][m] /\ AppliedAll(m, d)
      BY <1>1, <1>2, <2>1 DEF Progress
    <3>2. m \in Names
      BY <1>1, LoggerAssumption, DefineIsADefine DEF CInv
    <3>3. m \in m_loggers' /\ m_level'[m] = m_level[m]
      BY <1>2, <3>1 DEF AppliedAll, Applied
    <3>4. Applied(m, d, Len(d.appenders))'
      BY <1>4, <3>1, <3>2, <3>3, AppliedKept DEF AppliedAll
    <3> QED BY <1>2, <3>1, <3>4 DEF AppliedAll
  <2> QED BY <1>1, <1>2, <1>3, <2>1, <2>2 DEF Progress
<1> QED BY <1>1, <1>2, <1>5, ListenerApplied DEF PC

\* After clearAppenders none of the definition's appenders is there.
LEMMA ClearApplied ==
  ASSUME CInv, NEW r \in Reloaders, ClearAppenders(r)
  PROVE  SoleInv' /\ AppliedInv'
<1>1. pc[r] = "clear" /\ crashed = NULL
  BY DEF ClearAppenders, Running
<1>2. PICK n \in Names :
        /\ n = cur[r]
        /\ UNCHANGED <<m_loggers, m_level, new, todo, cur, made, mixed>>
        /\ pc' = [pc EXCEPT ![r] = "add"]
        /\ m_appenders' = [m_appenders EXCEPT ![n] = <<>>]
        /\ made[r] = 0
  BY <1>1, DefineIsADefine DEF CInv, ClearAppenders, Goto, IInv, ReloadInv
<1>3. pc'[r] = "add" /\ Define(r)' = Define(r)
  BY <1>2 DEF CInv, IInv, TypeOK, Define
<1>4. ASSUME ~mixed PROVE Progress(r)'
  <2>1. Progress(r)
    BY <1>1, <1>4, ProgressNow
  <2>2. ASSUME NEW m \in DOMAIN new[r] \ (todo[r] \cup {n}) PROVE AppliedAll(m, new[r][m])'
    <3>1. PICK d : d = new[r][m] /\ AppliedAll(m, d)
      BY <1>1, <1>2, <2>1 DEF Progress
    <3>2. m \in Names
      BY <1>1, LoggerAssumption, DefineIsADefine DEF CInv
    <3>3. m_level'[m] = m_level[m] /\ m_appenders'[m] = m_appenders[m]
      BY <1>2, <3>2 DEF CInv, IInv, TypeOK
    <3>4. AppliedAll(m, d)'
      BY <1>2, <3>1, <3>3, AppliedAllKept
    <3> QED BY <1>2, <3>1, <3>4
  <2>3. m_appenders'[n] = <<>>
    BY <1>2 DEF CInv, IInv, TypeOK
  <2>4. Configured(n)' = <<>>
    BY <2>3 DEF Configured, RemoveFirst
  <2>5. Applied(n, Define(r), 0)'
    BY <1>1, <1>2, <1>3, <2>1, <2>4 DEF Applied, Progress
  <2> QED BY <1>1, <1>2, <1>3, <2>1, <2>2, <2>5 DEF Progress
<1> QED BY <1>1, <1>2, <1>4, ListenerApplied DEF PC

\* One appender of the definition more.
LEMMA AddNextApplied ==
  ASSUME CInv, NEW r \in Reloaders, AddNext(r)
  PROVE  SoleInv' /\ AppliedInv'
<1>1. pc[r] = "add" /\ crashed = NULL
  BY DEF AddNext, Running
<1>2. IInv
  BY DEF CInv
<1>3. PICK n \in Names, a \in Appender :
        /\ n = cur[r]
        /\ m_appenders' = [m_appenders EXCEPT ![n] = Append(@, a)]
        /\ IsOf(a, Define(r).appenders[made[r] + 1])
  BY <1>2, AddNextEffect
<1>4. /\ UNCHANGED <<m_loggers, m_level, new, todo, cur, pc, mixed>>
      /\ made' = [made EXCEPT ![r] = @ + 1]
  BY DEF AddNext
<1>5. /\ n = cur[r]
      /\ m_appenders' = [m_appenders EXCEPT ![n] = Append(@, a)]
      /\ IsOf(a, Define(r).appenders[made[r] + 1])
      /\ UNCHANGED <<m_loggers, m_level, new, todo, cur, pc, mixed>>
      /\ made' = [made EXCEPT ![r] = @ + 1]
  BY <1>3, <1>4
<1>6. /\ made[r] \in Nat /\ made'[r] = made[r] + 1
      /\ Define(r)' = Define(r)
      /\ pc' = [pc EXCEPT ![r] = "add"]
  BY <1>1, <1>5 DEF CInv, IInv, TypeOK, Define
<1>7. ASSUME ~mixed PROVE Progress(r)'
  <2>1. Progress(r)
    BY <1>1, <1>7, ProgressNow
  <2>2. ASSUME NEW m \in DOMAIN new[r] \ (todo[r] \cup {n}) PROVE AppliedAll(m, new[r][m])'
    <3>1. PICK d : d = new[r][m] /\ AppliedAll(m, d)
      BY <1>1, <1>5, <2>1 DEF Progress
    <3>2. m \in Names
      BY <1>1, LoggerAssumption, DefineIsADefine DEF CInv
    <3>3. m_level'[m] = m_level[m] /\ m_appenders'[m] = m_appenders[m]
      BY <1>5, <3>2 DEF CInv, IInv, TypeOK
    <3>4. AppliedAll(m, d)'
      BY <1>5, <3>1, <3>3, AppliedAllKept
    <3> QED BY <1>5, <3>1, <3>4
  <2>3. Applied(n, Define(r), made[r])
    BY <1>1, <1>5, <2>1 DEF Progress
  <2>4. /\ Len(Configured(n))' = made[r] + 1
        /\ \A i \in 1..made[r] : Configured(n)'[i] = Configured(n)[i]
        /\ Configured(n)'[made[r] + 1] = a
    <3>1. /\ Len(Configured(n))' = Len(Configured(n)) + 1
          /\ \A i \in 1..Len(Configured(n)) : Configured(n)'[i] = Configured(n)[i]
          /\ Configured(n)'[Len(Configured(n)) + 1] = a
      BY <1>2, <1>3, AppendTypes
    <3>2. Len(Configured(n)) = made[r]
      BY <2>3 DEF Applied
    <3> QED BY <3>1, <3>2
  <2>5. ASSUME NEW i \in 1..(made[r] + 1) PROVE IsOf(Configured(n)'[i], Define(r).appenders[i])
    <3>1. CASE i = made[r] + 1
      BY <1>5, <2>4, <3>1
    <3>2. CASE i \in 1..made[r]
      BY <2>3, <2>4, <3>2 DEF Applied
    <3> QED BY <1>6, <3>1, <3>2
  <2>6. Applied(n, Define(r), made[r])'
    BY <1>5, <1>6, <2>3, <2>4, <2>5 DEF Applied
  <2> QED BY <1>1, <1>5, <1>6, <2>1, <2>2, <2>6 DEF Progress
<1> QED BY <1>1, <1>6, <1>5, <1>7, ListenerApplied DEF PC

\* All appenders of the definition are there.
LEMMA EndDefineApplied ==
  ASSUME CInv, NEW r \in Reloaders, EndDefine(r)
  PROVE  SoleInv' /\ AppliedInv'
<1>1. /\ pc[r] = "add" /\ crashed = NULL
      /\ UNCHANGED <<m_loggers, m_level, m_appenders, new, todo, cur, made, mixed>>
      /\ made[r] = Len(Define(r).appenders)
      /\ pc' = [pc EXCEPT ![r] = "next"]
  BY DEF EndDefine, Running, Goto, logger, fields
<1>2. pc'[r] = "next"
  BY <1>1 DEF CInv, IInv, TypeOK
<1>3. ASSUME ~mixed PROVE Progress(r)'
  <2>1. Progress(r)
    BY <1>1, <1>3, ProgressNow
  <2>2. \A m \in DOMAIN new[r] \ todo[r] : AppliedAll(m, new[r][m])
    BY <1>1, <2>1 DEF Progress, Define, AppliedAll
  <2>3. ASSUME NEW m \in DOMAIN new[r] \ todo[r] PROVE AppliedAll(m, new[r][m])'
    BY <1>1, <2>2 DEF AppliedAll, Applied, Configured
  <2> QED BY <1>1, <1>2, <2>3 DEF Progress
<1> QED BY <1>1, <1>3, ListenerApplied DEF PC

\* The second loop and the return leave what is applied.
LEMMA TailApplied ==
  ASSUME CInv, NEW r \in Reloaders,
         EndNew(r) \/ EndListener(r) \/ \E n \in Names : RemoveDefine(r, n)
  PROVE  SoleInv' /\ AppliedInv'
<1>1. /\ pc[r] \in {"next", "removed"} /\ crashed = NULL
      /\ UNCHANGED <<m_loggers, m_level, m_appenders, new, mixed>>
      /\ pc[r] = "next" => todo[r] = {}
  BY RemovedTestFails DEF EndNew, EndListener, RemoveDefine, Running, logger, fields
<1>2. PICK label \in {"removed", "store"} : pc' = [pc EXCEPT ![r] = label]
  <2>1. CASE EndNew(r) \/ EndListener(r)
    BY <2>1 DEF EndNew, EndListener, Goto
  <2>2. CASE \E n \in Names : RemoveDefine(r, n)
    BY <2>2 DEF RemoveDefine, Running, CInv, IInv, TypeOK
  <2> QED BY <2>1, <2>2
<1>3. pc'[r] = label
  BY <1>2 DEF CInv, IInv, TypeOK
<1>4. ASSUME ~mixed PROVE Progress(r)'
  <2>1. Progress(r)
    BY <1>1, <1>4, ProgressNow
  <2>2. \A m \in DOMAIN new[r] : AppliedAll(m, new[r][m])
    BY <1>1, <2>1 DEF Progress
  <2>3. ASSUME NEW m \in DOMAIN new[r] PROVE AppliedAll(m, new[r][m])'
    BY <1>1, <2>2 DEF AppliedAll, Applied, Configured
  <2> QED BY <1>1, <1>3, <2>3 DEF Progress
<1> QED BY <1>1, <1>2, <1>4, ListenerApplied DEF PC

\* The value is stored once everything in it is applied.
LEMMA EndReloadApplied ==
  ASSUME CInv, NEW r \in Reloaders, EndReload(r)
  PROVE  SoleInv' /\ AppliedInv'
<1>1. /\ pc[r] = "store" /\ crashed = NULL
      /\ UNCHANGED <<m_loggers, m_level, m_appenders, mixed>>
      /\ g_log_defines' = new[r]
      /\ pc'[r] = "idle" /\ \A q \in Reloaders \ {r} : pc'[q] = pc[q]
  BY DEF EndReload, Running, Goto, logger, fields, CInv, IInv, TypeOK
<1>2. SoleInv'
  BY <1>1 DEF CInv, SoleInv
<1>3. ASSUME ~mixed, NEW n \in DOMAIN g_log_defines' PROVE AppliedAll(n, g_log_defines[n])'
  <2>1. Progress(r)
    BY <1>1, <1>3, ProgressNow
  <2>2. AppliedAll(n, new[r][n])
    BY <1>1, <2>1, <1>3 DEF Progress
  <2> QED BY <1>1, <2>2 DEF AppliedAll, Applied, Configured
<1>4. ASSUME ~mixed, NEW q \in Reloaders PROVE Progress(q)'
  <2>1. pc'[q] = "idle"
    BY <1>1, <1>4 DEF CInv, SoleInv
  <2> QED BY <2>1 DEF Progress
<1> QED BY <1>1, <1>2, <1>3, <1>4 DEF AppliedInv

\* When no reload is under way, and the last one began when no other was, every
\* configured logger has the level and exactly the appenders of its definition,
\* with their types, levels and own formatters.
THEOREM ReloadsApply == Spec => []ConfigurationApplied
<1>1. Init => CInv
  BY InitInv
<1>2. ASSUME CInv, [Next]_vars PROVE CInv'
  <2>1. IInv'
    BY <1>2, NextInv DEF CInv
  <2>2. CASE UNCHANGED vars
    <3>1. UNCHANGED <<listener, conf, m_level, m_appenders, m_loggers, crashed>>
      BY <2>2 DEF vars, logger, fields
    <3>2. SoleInv'
      BY <1>2, <3>1 DEF CInv, SoleInv, listener
    <3>3. AppliedInv'
      BY <1>2, <3>1 DEF CInv, AppliedInv, Quiet, Progress, AppliedAll, Applied, Configured, Define,
                        listener, conf
    <3> QED BY <2>1, <3>2, <3>3 DEF CInv
  <2>3. ASSUME NEW r \in Reloaders,
               \/ \E config \in Configs : Reload(r, config)
               \/ \E n \in Names : NextDefine(r, n) \/ RemoveDefine(r, n)
               \/ ApplyLevel(r) \/ ApplyFormatter(r) \/ ClearAppenders(r)
               \/ AddNext(r) \/ EndDefine(r) \/ EndNew(r)
               \/ EndListener(r) \/ EndReload(r)
        PROVE  SoleInv' /\ AppliedInv'
    BY <1>2, <2>3, ReloadApplied, NextDefineApplied, ApplyLevelApplied, ApplyFormatterApplied, ClearApplied,
       AddNextApplied, EndDefineApplied, TailApplied, EndReloadApplied
  <2>4. ASSUME NEW t \in Threads, NEW n \in Names, NEW level \in {DEBUG, FATAL}, LogEventWrap(t, n, level)
        PROVE  SoleInv' /\ AppliedInv'
    <3>1. t \in Walkers
      BY DEF Walkers
    <3> QED BY <1>2, <2>4, <3>1, ThreadsApplied
  <2>5. CASE Next
    BY <1>2, <2>1, <2>3, <2>4, <2>5, ThreadsApplied, UsersApplied, Zenon DEF Next, CInv
  <2> QED BY <1>2, <2>2, <2>5
<1>3. ASSUME CInv PROVE ConfigurationApplied
  <2> SUFFICES ASSUME Quiet, ~mixed, NEW n \in DOMAIN g_log_defines, NEW d, d = g_log_defines[n]
               PROVE  /\ n \in m_loggers
                      /\ m_level[n] = d.level
                      /\ Len(Configured(n)) = Len(d.appenders)
                      /\ \A i \in DOMAIN d.appenders : IsOf(Configured(n)[i], d.appenders[i])
    BY DEF ConfigurationApplied
  <2>1. Applied(n, d, Len(d.appenders))
    BY <1>3 DEF CInv, AppliedInv, AppliedAll
  <2>2. g_log_defines \in Configs
    BY <1>3 DEF CInv, IInv, TypeOK, NoConfig
  <2>3. d.appenders \in Seq(AppenderDefine)
    BY <2>2, LoggerAssumption DEF LoggerDefine
  <2>4. DOMAIN d.appenders = 1..Len(d.appenders)
    BY <2>3
  <2> QED BY <2>1, <2>4 DEF Applied
<1> QED BY <1>1, <1>2, <1>3, PTL DEF Spec
=============================================================================
