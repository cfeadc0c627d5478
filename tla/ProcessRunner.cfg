CONSTANTS
  j1 = j1
  j2 = j2
  s1 = s1
  s2 = s2
  Jobs <- TwoJobs
  Mixes <- Pairs
  Stops <- TwoStops
  MaxLines <- Lines
  PipeSize = 1
SPECIFICATION Spec
INVARIANTS
  TypeOK
  OneJobPerRunner
  ReportsReachModel
  StopsObeyed
PROPERTIES
  EveryJobRuns
CHECK_DEADLOCK FALSE
