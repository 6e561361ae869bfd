CONSTANTS
  Interval = 2
  IdleMin = 3
  MaxGap = 2
  Looks = 2
  Pattern = {"calibrating", "passed", "stuck", "campaign"}
  MaxStarts = 2
  MaxFails = 1
  MaxCuts = 1
  Sleeps = FALSE
SPECIFICATION Spec
INVARIANTS
  TypeOK
  WorkIsKept
  BilledForNothingIsTold
  CountedWithinAGap
PROPERTY
  IdleDriverIsStopped
