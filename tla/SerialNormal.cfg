SPECIFICATION FairSpec
CONSTANTS
  m1 = m1
  m2 = m2
  Freed = Freed
  Message <- MCMessage
  BufferSize <- MCBufferSize
  Mode <- BothModes
  MaxSends = 3
  SeveralThreads = FALSE
  Reopens = FALSE
  LiveConfig = FALSE
INVARIANTS
  TypeOK
  FlagsMatchOperations
  BuffersStable
  NothingLostWhileOpen
  WorkConserving
PROPERTIES
  HalfDuplexTurns
  IsFifoLink
  WrittenInFullDuplex
  WrittenIfAnswered
  CloseDrains
