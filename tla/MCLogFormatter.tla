--------------------------- MODULE MCLogFormatter ---------------------------
(***************************************************************************)
(* All patterns of up to MaxLen characters, and dates with formats that    *)
(* are too long for the buffer.                                            *)
(***************************************************************************)
EXTENDS LogFormatter

CONSTANT MaxLen

LongDates == {<<"%", "d", "open", x, y, "close">> : x, y \in {"%", "m", "x"}}
AllPatterns == UNION {[1..k -> Char] : k \in 0..MaxLen} \cup LongDates
=============================================================================
