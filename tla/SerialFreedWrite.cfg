SPECIFICATION Spec
CONSTANTS
  m1 = m1
  m2 = m2
  Freed = Freed
  Message <- OneMessage
  BufferSize <- MCBufferSize
  Mode <- FullOnly
  MaxSends = 1
  SeveralThreads = TRUE
  Reopens = FALSE
  LiveConfig = FALSE
INVARIANTS
  WireCarriesMessages
