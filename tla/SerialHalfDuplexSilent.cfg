SPECIFICATION FairSpec
CONSTANTS
  m1 = m1
  m2 = m2
  Freed = Freed
  Message <- OneMessage
  BufferSize <- MCBufferSize
  Mode <- HalfOnly
  MaxSends = 1
  SeveralThreads = FALSE
  Reopens = FALSE
  LiveConfig = FALSE
PROPERTIES
  AcceptedIsWritten
