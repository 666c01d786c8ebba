SPECIFICATION ExchangeSpec
CONSTANTS
  CAN_EFF_MASK = {"id0"}
  CAN_EFF_FLAG = "eff"
  CAN_RTR_FLAG = "rtr"
  CAN_ERR_FLAG = "err"
  classic_data_size = 1
  fd_data_size = 2
  MaxLength = 3
  Byte <- MCByte
  Frame <- SomeFrames
  Config <- SomeConfigs
INVARIANTS
  ExchangeTypeOK
  RoundTrip
  Relayable
  FilteredAsDescribed
CHECK_DEADLOCK FALSE
