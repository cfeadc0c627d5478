CONSTANTS
  Sectors <- TwoDisks
  Chunk = 2
  ShortWrites = FALSE
  MaxReports = 2
SPECIFICATION Spec
INVARIANTS
  TypeOK
  VerdictsAreTrue
PROPERTIES
  TaskEnds
  ProgramEnds
CHECK_DEADLOCK FALSE
