CONSTANTS
  sound = sound
  network = network
  Components <- TwoComponents
  Sound = sound
  MaxEditions = 2
  MaxClicks = 2
SPECIFICATION Spec
INVARIANTS
  TypeOK
  TableCatchesUp
PROPERTIES
  RequestsEnd
CHECK_DEADLOCK FALSE
