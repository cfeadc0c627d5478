CONSTANTS
  sda = sda
  sdb = sdb
  Disks <- TwoDisks
  Script <- TwoReports
  Machines <- AllFree
  Tabs <- AllTabs
  MaxEvents = 3
SPECIFICATION Spec
INVARIANTS
  TypeOK
  TableTellsTargets
  ListCatchesUp
  StatusCatchesUp
CHECK_DEADLOCK FALSE
