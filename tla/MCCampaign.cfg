CONSTANTS
  Setups = {s1, s2}
  Rounds = 1
  MaxAttempts = 3
  InARow = 3
  Window = 4
  MinFinished = 4
  SharePercent = 50
  Leftovers <- FirstAttempts
SPECIFICATION Spec
INVARIANTS
  NeverTwiceInAFolder
  DoneIsCounted
  CompleteIsComplete
  GuardHolds
PROPERTIES
  FoldersKept
  CountedIsKept
  LedgerUsed
  Ends
