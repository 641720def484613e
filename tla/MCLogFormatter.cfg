CONSTANTS
  MaxLen = 5
  BufSize = 1
  Patterns <- AllPatterns
SPECIFICATION Spec
INVARIANT ParsesTheSyntax
PROPERTY Terminates
CHECK_DEADLOCK FALSE
