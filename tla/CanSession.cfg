SPECIFICATION FairSpec
CONSTANTS
  CAN_EFF_MASK = {"id0"}
  CAN_EFF_FLAG = "eff"
  CAN_RTR_FLAG = "rtr"
  CAN_ERR_FLAG = "err"
  classic_data_size = 1
  fd_data_size = 2
  MaxLength = 3
  Byte <- MCByte
  Message <- MCMessage
  Incoming <- MCIncoming
  EnableCanFd = {FALSE, TRUE}
  MaxSends = 3
  Reopens = TRUE
INVARIANT TypeOK
PROPERTIES
  ClosesForAReason
  IsFifoLink
  AcceptedIsWritten
