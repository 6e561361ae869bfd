CONSTANTS
  Lists <- OneSession
  Extra <- Nothing
  Halts = {}
  MaxHalts = 0
  MaxStops = 0
  MaxArms = 0
  Torn = FALSE
SPECIFICATION Spec
PROPERTIES
  CompleteNotPutBack
