CONSTANTS
  Plans <- SmallPlans
SPECIFICATION Spec
INVARIANTS
  TypeOK
  EndIsTrue
  AnnouncedAfterExit
PROPERTIES
  StartsInOrder
  KeepsContract
  Termination
