SPECIFICATION Spec
CONSTANTS
  m1 = m1
  m2 = m2
  Freed = Freed
  Message <- MCMessage
  BufferSize <- MCBufferSize
  Mode <- BothModes
  MaxSends = 3
  SeveralThreads = TRUE
  Reopens = TRUE
  LiveConfig = TRUE
SYMMETRY Symmetry
PROPERTY CloseIsFinal
