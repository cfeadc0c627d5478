CONSTANTS
  d1 = d1
  d2 = d2
  Procs <- TwoDisks
  Loads <- Both
  Fallible <- Raising
  MaxOut = 2
  MaxLines <- Silent
  MaxSignals = 1
SPECIFICATION CopySpec
INVARIANTS
  VerdictIsTrue
PROPERTIES
  ImplementsTask
CHECK_DEADLOCK FALSE
