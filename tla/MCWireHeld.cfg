CONSTANTS
  Bytes = 4
  Segment = 3
  Space = 8
  FirstSeqs = {0, 6}
  MaxPackets = 4
SPECIFICATION Spec
INVARIANTS
  ReadableOnceArrived
