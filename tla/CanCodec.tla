------------------------------ MODULE CanCodec ------------------------------
(***************************************************************************)
(* CAN frames as the user sees them and as SocketCAN transfers them, the   *)
(* translation between the two, and the receive filters: the parts of      *)
(* transport/can/can_session.hpp that compute and keep no state.           *)
(*                                                                         *)
(* A 32-bit CAN id is the set of its one bits, so that | is \cup, & is     *)
(* \cap, and a test of a flag is membership.  The bits that name a frame   *)
(* are CAN_EFF_MASK; three more are flags.                                 *)
(***************************************************************************)
EXTENDS Integers

CONSTANTS
  CAN_EFF_MASK,        \* bits of the id proper: 0 .. 28
  CAN_EFF_FLAG, CAN_RTR_FLAG, CAN_ERR_FLAG,   \* bits 31, 30 and 29
  classic_data_size,   \* 8
  fd_data_size,        \* 64
  MaxLength,           \* bound: the largest data_length a user sets
  Byte                 \* the values of a data byte

ASSUME CanAssumption ==
  /\ CAN_EFF_FLAG \notin CAN_EFF_MASK
  /\ CAN_RTR_FLAG \notin CAN_EFF_MASK \cup {CAN_EFF_FLAG}
  /\ CAN_ERR_FLAG \notin CAN_EFF_MASK \cup {CAN_EFF_FLAG, CAN_RTR_FLAG}
  /\ classic_data_size \in Nat
  /\ fd_data_size \in Nat
  /\ classic_data_size <= fd_data_size
  /\ MaxLength \in Nat
  /\ fd_data_size <= MaxLength
  /\ 0 \in Byte

CanId == SUBSET (CAN_EFF_MASK \cup {CAN_EFF_FLAG, CAN_RTR_FLAG, CAN_ERR_FLAG})

CanFrame ==
  [id : CanId, data_length : 0 .. MaxLength,
   data : [0 .. fd_data_size - 1 -> Byte],
   extended_id : BOOLEAN, remote_frame : BOOLEAN, error_frame : BOOLEAN,
   fd_frame : BOOLEAN, bitrate_switch : BOOLEAN,
   error_state_indicator : BOOLEAN]

(* can_frame and canfd_frame; fd tells the one from the other, as their    *)
(* sizes do in the code.                                                   *)
Room(fd) == IF fd THEN fd_data_size ELSE classic_data_size
CanFlag == {"CANFD_BRS", "CANFD_ESI"}
RawFrame ==
  UNION {[fd : {fd}, can_id : CanId, len : 0 .. Room(fd), flags : SUBSET CanFlag,
          data : [0 .. Room(fd) - 1 -> Byte]] : fd \in BOOLEAN}

(* The first length bytes of data, the rest of room zero. *)
Copied(data, length, room) ==
  [i \in 0 .. room - 1 |-> IF i < length THEN data[i] ELSE 0]
-----------------------------------------------------------------------------
(* encode_frame: refuses what does not fit, then translates. *)

can_encode_unlimited(frame, enable_can_fd) == frame.fd_frame => enable_can_fd
can_encode(frame, enable_can_fd) ==
  IF frame.fd_frame THEN enable_can_fd /\ frame.data_length <= fd_data_size
                    ELSE frame.data_length <= classic_data_size

encode_id_standard(frame) == frame.id
encode_id(frame) ==
  frame.id \cup (IF frame.extended_id  THEN {CAN_EFF_FLAG} ELSE {})
           \cup (IF frame.remote_frame THEN {CAN_RTR_FLAG} ELSE {})

encode_flags(frame) ==
  {flag \in CanFlag :
     /\ frame.fd_frame
     /\ \/ flag = "CANFD_BRS" /\ frame.bitrate_switch
        \/ flag = "CANFD_ESI" /\ frame.error_state_indicator}

encode_frame(frame) ==
  [fd     |-> frame.fd_frame,
   can_id |-> encode_id(frame),
   len    |-> frame.data_length,
   flags  |-> encode_flags(frame),
   data   |-> Copied(frame.data, frame.data_length, Room(frame.fd_frame))]
-----------------------------------------------------------------------------
(* decode_frame, for the two sizes of frame it accepts. *)

decode_id_unmasked(raw) == raw.can_id
decode_id(raw) == raw.can_id \cap CAN_EFF_MASK

decode_frame(raw) ==
  [id           |-> decode_id(raw),
   data_length  |-> raw.len,
   data         |-> Copied(raw.data, raw.len, fd_data_size),
   extended_id  |-> CAN_EFF_FLAG \in raw.can_id,
   remote_frame |-> CAN_RTR_FLAG \in raw.can_id,
   error_frame  |-> CAN_ERR_FLAG \in raw.can_id,
   fd_frame     |-> raw.fd,
   bitrate_switch        |-> raw.fd /\ "CANFD_BRS" \in raw.flags,
   error_state_indicator |-> raw.fd /\ "CANFD_ESI" \in raw.flags]
-----------------------------------------------------------------------------
(* Receive filters: what configure_socket asks of the kernel for each, and *)
(* what the kernel then lets through.  The id and the mask of a filter are *)
(* bits that name a frame; what the kernel makes of the other three, such  *)
(* as inverting the filter, is not modelled.                               *)

CanFilter ==
  [id : SUBSET CAN_EFF_MASK, mask : SUBSET CAN_EFF_MASK,
   extended_id : BOOLEAN, remote_frame : BOOLEAN]

FilterFlags(filter) ==
  (IF filter.extended_id  THEN {CAN_EFF_FLAG} ELSE {}) \cup
  (IF filter.remote_frame THEN {CAN_RTR_FLAG} ELSE {})

raw_filter_unmasked(filter) ==
  [can_id |-> filter.id \cup FilterFlags(filter), can_mask |-> filter.mask]
raw_filter(filter) ==
  [can_id   |-> filter.id   \cup FilterFlags(filter),
   can_mask |-> filter.mask \cup FilterFlags(filter)]

Matches(raw, filter) ==
  raw.can_id \cap filter.can_mask = filter.can_id \cap filter.can_mask

(* Error frames are for sockets that subscribed to them, which a session   *)
(* does not; FD frames for those that enabled them.  A socket on which no  *)
(* filter was set has one that matches everything.                         *)
Passes(raw, enable_can_fd, filters) ==
  /\ CAN_ERR_FLAG \notin raw.can_id
  /\ raw.fd => enable_can_fd
  /\ filters # {} => \E filter \in filters : Matches(raw, raw_filter(filter))
-----------------------------------------------------------------------------
(* The user's view of frames and filters, for the properties. *)

(* A frame the format can represent: an id without stray flag bits, not an *)
(* error frame, nothing behind the data, and no FD flag on a classic frame.*)
WellFormed(f) ==
  /\ f.id \subseteq CAN_EFF_MASK
  /\ ~f.error_frame
  /\ \A i \in 0 .. fd_data_size - 1 : i >= f.data_length => f.data[i] = 0
  /\ ~f.fd_frame => ~f.bitrate_switch /\ ~f.error_state_indicator

(* A filter as CanFilter documents it: an id, a mask, whether it matches   *)
(* extended frames and whether it matches remote frames.  It describes the *)
(* frames whose id agrees under the mask and that are of these kinds.      *)
IdAgrees(filter, f) ==
  \A bit \in filter.mask : bit \in f.id <=> bit \in filter.id
Describes(filter, f) ==
  /\ IdAgrees(filter, f)
  /\ f.extended_id  = filter.extended_id
  /\ f.remote_frame = filter.remote_frame
=============================================================================
