CONSTANTS
  Plans <- SmallPlans
SPECIFICATION Spec
INVARIANT FailedTaskFailsRun
