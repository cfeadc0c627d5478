CONSTANTS
  server = server
  reader = reader
  atexit = atexit
  Loggers <- TwoLoggers
  Closers <- OneCloser
  MaxRows = 3
  Threshold = 2
SPECIFICATION Spec
INVARIANTS
  TypeOK
  RowsKept
  CloseFlushes
PROPERTIES
  KeepsEventLog
  EventuallyStored
  CloseReturns
CHECK_DEADLOCK FALSE
