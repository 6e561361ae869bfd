CONSTANTS
  Lists <- ShortAndResume
  Extra <- MoreWork
  Halts = {"cut"}
  MaxHalts = 1
  MaxStops = 1
  MaxArms = 1
  Torn = TRUE
SPECIFICATION Spec
INVARIANTS
  StopIsObeyed
  SelfStopsWhenArmed
PROPERTIES
  ListEnds
