\* Two setups in two rounds, three attempts each as in the source: every row
\* can fail up to its abandonment.
CONSTANTS
  Setups = {s1, s2}
  Rounds = 2
  MaxAttempts = 3
SPECIFICATION Spec
INVARIANTS
  TypeOK
  InOrder
  OneLineage
  NothingLost
PROPERTIES
  PastIsKept
  CopyApart
  ImplementsPlan
