\* each part comes to its end, so that a behaviour may stop
CONSTANTS
  none = none
  list = list
  Parts = {"tokens", "parser", "actions", "props"}
  Sources <- Known
  Clients <- Once
SPECIFICATION FairSpec
INVARIANTS
  TypeOK UnreadIntact ReadAsMeant  BootOrder TriggersFire
  SurvivesReboot NameRules
PROPERTIES ImplementsFifo DefaultsNotPersisted EachEnds
CHECK_DEADLOCK FALSE
