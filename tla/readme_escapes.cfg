\* words with an escape of C in them
CONSTANTS
  none = none
  list = list
  Parts = {"tokens"}
  Sources <- CStyle
  Clients <- Once
SPECIFICATION Spec
INVARIANT EscapesInsert
CHECK_DEADLOCK FALSE
