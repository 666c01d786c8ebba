SPECIFICATION FairSpec
CONSTANTS
  short = short
  long = long
  Message <- MCMessage
  Pieces <- MCPieces
  Freed = freed
  Role = {"client", "server"}
  MaxSends = 3
INVARIANT TypeOK
PROPERTIES
  IsFifoLink
  AcceptedIsWritten
  LossIsNoticed
