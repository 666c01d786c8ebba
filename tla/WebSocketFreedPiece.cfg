SPECIFICATION Spec
CONSTANTS
  short = short
  long = long
  Message <- MCMessage
  Pieces <- MCPieces
  Freed = freed
  Role = {"client"}
  MaxSends = 3
INVARIANT PiecesAreLive
