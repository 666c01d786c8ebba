SPECIFICATION FairBenchmark
CONSTANTS
  Message <- MCMessage
  Freed = freed
  BufferSize <- MCBufferSize
  Mode <- MCMode
  MaxSends = 2
  SeveralThreads = FALSE
  Reopens = FALSE
  LiveConfig = FALSE
  Samples = 2
  HeaderSize = 2
  PayloadSize = 3
  SequenceBytes <- MCSequenceBytes
  Stale <- MCStale
\* The program ends.
CHECK_DEADLOCK FALSE
INVARIANTS
  BenchmarkTypeOK
  SuccessIsComplete
PROPERTIES
  SamplesAreEchoes
  Terminates
  MeasuresAll
