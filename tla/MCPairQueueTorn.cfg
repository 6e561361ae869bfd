CONSTANTS
  Lists <- TwoSessions
  Extra <- Nothing
  Halts = {"cut"}
  MaxHalts = 1
  MaxStops = 0
  MaxArms = 0
  Torn = TRUE
SPECIFICATION Spec
INVARIANTS
  CreditIsOwn
