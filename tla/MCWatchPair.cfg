CONSTANTS
  Interval = 2
  IdleMin = 3
  MaxGap = 2
  Looks = 2
  Pattern = {"calibrating", "passed", "stuck", "campaign"}
  MaxStarts = 0
  MaxFails = 1
  MaxCuts = 0
  Sleeps = FALSE
SPECIFICATION Spec
PROPERTY
  IdlePairIsStopped
