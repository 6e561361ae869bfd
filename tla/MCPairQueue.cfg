CONSTANTS
  Lists <- AllLists
  Extra <- Nothing
  Halts = {"cut", "kill"}
  MaxHalts = 1
  MaxStops = 0
  MaxArms = 0
  Torn = FALSE
SPECIFICATION Spec
INVARIANTS
  TypeOK
  PutBackOnce
  PassedWasTried
  CreditIsOwn
