SPECIFICATION FairSpec
CONSTANTS
  m1 = m1
  m2 = m2
  Message <- MCMessage
  BufferSize <- MCBufferSize
  MaxSends = 3
\* A crashed process takes no further step.
CHECK_DEADLOCK FALSE
INVARIANTS
  TypeOK
  BreaksOnlyByClose
PROPERTIES
  IsFifoLink
  WrittenInFullDuplex
