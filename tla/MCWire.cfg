CONSTANTS
  Bytes = 4
  Segment = 3
  Space = 8
  FirstSeqs = {0, 6}
  MaxPackets = 5
SPECIFICATION Spec
INVARIANTS
  LeftIsFirst
  ReadableOnTime
