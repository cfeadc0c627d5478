CONSTANTS
  Sectors <- TwoDisks
  Chunk = 2
  ShortWrites = FALSE
  MaxReports = 2
SPECIFICATION Spec
INVARIANTS
  WipedIsNotFailed
CHECK_DEADLOCK FALSE
