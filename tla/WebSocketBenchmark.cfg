SPECIFICATION FairBenchmark
CONSTANTS
  Message <- MCMessage
  Pieces <- MCPieces
  Freed = freed
  Role = {"client"}
  MaxSends = 2
  Samples = 2
\* The program ends.
CHECK_DEADLOCK FALSE
INVARIANT SuccessIsComplete
PROPERTIES
  EchoIsFifoLink
  MeasuresAll
