\* Every producer over a plan of four messages, a correction after every second, two
\* in flight.
CONSTANTS
  Clients <- AllClients
  N = 4
  Every = 2
  Window = 2
  MaxAnswers = 2
  SlowCorrections = FALSE
SPECIFICATION Spec
INVARIANTS
  OkIsComplete
  FailsForCause
  AnswersAreOwn
PROPERTIES
  Ends
