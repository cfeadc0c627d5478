CONSTANTS
  c1 = c1
  c2 = c2
  c3 = c3
  Procs <- AllProcs
  Loads <- OneOrTwo
  Fallible <- Raising
  MaxOut = 1
  MaxLines <- Verbose
  MaxSignals = 2
SPECIFICATION Spec
INVARIANTS
  TypeOK
  ParentLearnsAll
PROPERTIES
  ImplementsStream
  StopIsAnswered
CHECK_DEADLOCK FALSE
