\* a client sets a property to the value the boot has just set it to
CONSTANTS
  none = none
  list = list
  Parts = {"actions"}
  Sources <- Known
  Clients <- Again
SPECIFICATION Spec
PROPERTY AddedUnlessQueued
CHECK_DEADLOCK FALSE
