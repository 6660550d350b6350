\* each part comes to its end, so that a behaviour may stop
CONSTANTS
  none = none
  percent = percent
SPECIFICATION FairSpec
INVARIANTS
  TypeOK DevFollows ColdbootComplete AnswerIsRight ResultIsRight CopiesAll
  ChartIsWhole WholeList OneStatus PermissionsRight
PROPERTIES VoldUndisturbed EachEnds
CHECK_DEADLOCK FALSE
