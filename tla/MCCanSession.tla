---------------------------- MODULE MCCanSession ----------------------------
(* Instances of CanSession for TLC: a classic frame, an FD frame and one   *)
(* that is too long for either.                                            *)
EXTENDS CanSession

MCByte == {0, 1}

Frame(id, length, fd) ==
  [id |-> id, data_length |-> length,
   data |-> [i \in 0 .. fd_data_size - 1 |-> IF i < length THEN 1 ELSE 0],
   extended_id |-> TRUE, remote_frame |-> FALSE, error_frame |-> FALSE,
   fd_frame |-> fd, bitrate_switch |-> FALSE, error_state_indicator |-> FALSE]

Classic  == Frame(CAN_EFF_MASK, 1, FALSE)
Fd       == Frame({}, 2, TRUE)
TooLong  == Frame({}, 3, FALSE)

MCMessage  == {Classic, Fd, TooLong}
Fitting    == {Classic, Fd}
MCIncoming == {encode_frame(Classic)}
=============================================================================
