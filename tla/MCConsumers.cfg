\* Every consumer over four messages, the second another run's.
CONSTANTS
  Clients <- AllClients
  M = 4
  Foreign = {2}
  Depth = 2
  Count = 2
  Batch = 2
  Prefetch = 3
  MaxAgain = 1
SPECIFICATION Spec
INVARIANTS
  TypeOK
  AckedIsWritten
  WrittenOnce
  DeliveredIsWritten
  NeverMistaken
PROPERTIES
  PendingIsUnread
  Ends
