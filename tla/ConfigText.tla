----------------------------- MODULE ConfigText -----------------------------
(***************************************************************************)
(* A ConfigVar<T> and its text: fromString and toString of src/src/        *)
(* config.h, with LexicalCast for containers; for the "logs" variable, the *)
(* steps of LogsText.  A value comes from a text or from the program; it   *)
(* is printed and read again.                                              *)
(***************************************************************************)
EXTENDS LexicalCast, LogsText

CONSTANTS
  Texts,     \* texts for the other variables, <<type, text>>
  Values     \* values that the program gives them, <<type, value>>

Init ==
  \/ LogsInit
  \/ /\ again = <<>> /\ loggers = <<>>
     /\ \/ \E c \in Texts : type = c[1] /\ text = c[2] /\ val = DefaultOf(type) /\ stage = "text"
        \/ \E c \in Values : type = c[1] /\ val = c[2] /\ text = NULL /\ stage = "set"

\* fromString: an exception leaves the value as it was.
Parsed(t, old) == LET result == FromStr(type, t) IN IF result = <<>> THEN old ELSE result[1]

\* toString: an exception makes it "".
Printed(v) == LET result == ToStr(type, v) IN IF result = <<>> THEN Lit("") ELSE result[1]

CastNext ==
  \/ ReadText(Parsed(text, val)) \/ PrintValue(Printed(val)) \/ ReadAgain(Parsed(text, DefaultOf(type)))

Next ==
  \/ type = Logs /\ LogsNext
  \/ type # Logs /\ CastNext

Spec == Init /\ [][Next]_textVars

-----------------------------------------------------------------------------
(* Properties *)

\* toString (config.h:402) writes a text that is read as the value, down to the
\* strings of nested containers, of which YAML changes some: "" becomes "~", quotes
\* and comments go.  For "logs", LogsReread.  Nothing is said of a value that cannot
\* be converted, for which config.h:397 promises an exception: the code catches it
\* and returns "" (409-414).
ToStringRereads ==
  /\ LogsReread
  /\ stage \in {"reread", "reread set"} /\ type # Logs /\ Convertible(type, val)
       => again = Kept(type, val)

\* A value that came from a text, strings included, is written and read as itself:
\* reading makes every string one that YAML keeps.  The exception is a map read
\* as a sequence of strings, which gives empty ones (config.h:115).
ReadIsStable ==
  stage = "reread" /\ type # Logs /\ Lit("") \notin Leaves(type, val) => again = val
=============================================================================
