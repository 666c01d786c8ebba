---------------------------- MODULE CanTheorems ----------------------------
(***************************************************************************)
(* Proofs about frames and sessions on the CAN bus, in three parts: what   *)
(* encoding and decoding do to each other and what a filter selects; what  *)
(* becomes of a frame between sessions; and one session, its types and     *)
(* flags, why it closes, and that sending implements the in-order link.    *)
(* All for every set of id bits, every size of frame, every configuration  *)
(* and any set of frames.                                                  *)
(***************************************************************************)
EXTENDS CanSession, CanExchange, OperationLemmas

-----------------------------------------------------------------------------
(* Encoding, decoding and filters. *)

(* What encode_frame produces: nothing behind the data, and no flags on a  *)
(* classic frame.                                                          *)
Canonical(raw) ==
  /\ raw \in RawFrame
  /\ \A i \in 0 .. Room(raw.fd) - 1 : i >= raw.len => raw.data[i] = 0
  /\ ~raw.fd => raw.flags = {}

-----------------------------------------------------------------------------
(* The codec. *)

(* A raw frame in terms of its fields. *)
LEMMA RawFields ==
  ASSUME NEW raw
  PROVE  raw \in RawFrame <=>
           /\ raw = [fd |-> raw.fd, can_id |-> raw.can_id, len |-> raw.len,
                     flags |-> raw.flags, data |-> raw.data]
           /\ raw.fd \in BOOLEAN
           /\ raw.can_id \in CanId
           /\ raw.len \in 0 .. Room(raw.fd)
           /\ raw.flags \subseteq CanFlag
           /\ raw.data \in [0 .. Room(raw.fd) - 1 -> Byte]
BY DEF RawFrame

(* Copying takes bytes to bytes. *)
LEMMA CopiedType ==
  ASSUME NEW n \in Nat, NEW room \in Nat, NEW data \in [0 .. n - 1 -> Byte],
         NEW length \in 0 .. n
  PROVE  Copied(data, length, room) \in [0 .. room - 1 -> Byte]
<1>1. ASSUME NEW i \in 0 .. room - 1
      PROVE  (IF i < length THEN data[i] ELSE 0) \in Byte
  <2>1. CASE i < length
    <3>1. i \in 0 .. n - 1
      BY <2>1
    <3> QED
      BY <2>1, <3>1
  <2>2. CASE ~(i < length)
    BY <2>2, CanAssumption
  <2> QED
    BY <2>1, <2>2
<1> QED
  BY <1>1 DEF Copied

(* Rooms are natural numbers, the classic one the smaller. *)
LEMMA RoomType ==
  ASSUME NEW fd \in BOOLEAN
  PROVE  Room(fd) \in Nat /\ Room(fd) <= fd_data_size
BY CanAssumption DEF Room

(* What encode_frame makes of a frame it does not refuse. *)
LEMMA EncodeCanonical ==
  ASSUME NEW f \in CanFrame, NEW enabled \in BOOLEAN, can_encode(f, enabled)
  PROVE  Canonical(encode_frame(f))
<1> DEFINE raw == encode_frame(f)
<1>1. /\ f.id \in CanId
      /\ f.data_length \in Nat
      /\ f.data \in [0 .. fd_data_size - 1 -> Byte]
      /\ f.fd_frame \in BOOLEAN
  BY CanAssumption DEF CanFrame
<1>2. /\ raw.fd = f.fd_frame
      /\ raw.can_id = encode_id(f)
      /\ raw.len = f.data_length
      /\ raw.flags = encode_flags(f)
      /\ raw.data = Copied(f.data, f.data_length, Room(f.fd_frame))
      /\ raw = [fd |-> raw.fd, can_id |-> raw.can_id, len |-> raw.len,
                flags |-> raw.flags, data |-> raw.data]
  BY DEF encode_frame
<1> HIDE DEF raw
<1>3. f.data_length <= Room(f.fd_frame)
  BY DEF can_encode, Room
<1>4. Room(f.fd_frame) \in Nat /\ Room(f.fd_frame) <= fd_data_size
  BY <1>1, RoomType
<1>5. f.data_length \in 0 .. fd_data_size
  BY <1>1, <1>3, <1>4, CanAssumption
<1>6. raw.data \in [0 .. Room(f.fd_frame) - 1 -> Byte]
  <2>1. Copied(f.data, f.data_length, Room(f.fd_frame))
          \in [0 .. Room(f.fd_frame) - 1 -> Byte]
    BY <1>1, <1>4, <1>5, CopiedType, CanAssumption
  <2> QED
    BY <1>2, <2>1
<1>7. raw.can_id \in CanId
  BY <1>1, <1>2 DEF encode_id, CanId
<1>8. raw.flags \subseteq CanFlag /\ (~raw.fd => raw.flags = {})
  BY <1>2 DEF encode_flags
<1>9. raw \in RawFrame
  BY <1>1, <1>2, <1>3, <1>4, <1>6, <1>7, <1>8, RawFields
<1>10. \A i \in 0 .. Room(raw.fd) - 1 : i >= raw.len => raw.data[i] = 0
  BY <1>1, <1>2, <1>4 DEF Copied
<1> QED
  BY <1>8, <1>9, <1>10 DEF Canonical, raw

(* What decode_frame makes of a raw frame. *)
LEMMA DecodeType ==
  ASSUME NEW raw \in RawFrame
  PROVE  decode_frame(raw) \in CanFrame
<1>1. /\ raw.fd \in BOOLEAN
      /\ raw.can_id \in CanId
      /\ raw.len \in 0 .. Room(raw.fd)
      /\ raw.data \in [0 .. Room(raw.fd) - 1 -> Byte]
  BY RawFields
<1>2. Room(raw.fd) \in Nat /\ Room(raw.fd) <= fd_data_size
  BY <1>1, RoomType
<1>3. Copied(raw.data, raw.len, fd_data_size)
        \in [0 .. fd_data_size - 1 -> Byte]
  BY <1>1, <1>2, CopiedType, CanAssumption
<1>4. raw.len \in 0 .. MaxLength
  BY <1>1, <1>2, CanAssumption
<1>5. decode_id(raw) \in CanId
  BY <1>1 DEF decode_id, CanId
<1> QED
  BY <1>1, <1>3, <1>4, <1>5 DEF decode_frame, CanFrame

(* What a session decodes of a frame the kernel let through is well-formed.*)
LEMMA DecodeWellFormed ==
  ASSUME NEW raw \in RawFrame, CAN_ERR_FLAG \notin raw.can_id
  PROVE  WellFormed(decode_frame(raw))
<1> DEFINE f == decode_frame(raw)
<1>1. /\ f.id = decode_id(raw)
      /\ f.data_length = raw.len
      /\ f.data = Copied(raw.data, raw.len, fd_data_size)
      /\ f.error_frame = (CAN_ERR_FLAG \in raw.can_id)
      /\ f.fd_frame = raw.fd
      /\ f.bitrate_switch = (raw.fd /\ "CANFD_BRS" \in raw.flags)
      /\ f.error_state_indicator = (raw.fd /\ "CANFD_ESI" \in raw.flags)
  BY DEF decode_frame
<1> HIDE DEF f
<1>2. f.id \subseteq CAN_EFF_MASK
  BY <1>1 DEF decode_id
<1>3. raw.len \in Int
  BY RawFields, RoomType
<1>4. \A i \in 0 .. fd_data_size - 1 : i >= f.data_length => f.data[i] = 0
  BY <1>1, <1>3, CanAssumption DEF Copied
<1>5. ~f.fd_frame => ~f.bitrate_switch /\ ~f.error_state_indicator
  BY <1>1
<1> QED
  BY <1>1, <1>2, <1>4, <1>5 DEF WellFormed, f

(* Decoding undoes encoding. *)
LEMMA DecodeEncode ==
  ASSUME NEW f \in CanFrame, NEW enabled \in BOOLEAN,
         can_encode(f, enabled), WellFormed(f)
  PROVE  decode_frame(encode_frame(f)) = f
<1> DEFINE raw == encode_frame(f)
           g   == decode_frame(raw)
<1>1. /\ f.data \in [0 .. fd_data_size - 1 -> Byte]
      /\ f.data_length \in Nat
      /\ f.fd_frame \in BOOLEAN /\ f.extended_id \in BOOLEAN
      /\ f.remote_frame \in BOOLEAN /\ f.error_frame \in BOOLEAN
      /\ f.bitrate_switch \in BOOLEAN /\ f.error_state_indicator \in BOOLEAN
      /\ f = [id |-> f.id, data_length |-> f.data_length, data |-> f.data,
              extended_id |-> f.extended_id, remote_frame |-> f.remote_frame,
              error_frame |-> f.error_frame, fd_frame |-> f.fd_frame,
              bitrate_switch |-> f.bitrate_switch,
              error_state_indicator |-> f.error_state_indicator]
  BY CanAssumption DEF CanFrame
<1>2. /\ raw.fd = f.fd_frame
      /\ raw.can_id = encode_id(f)
      /\ raw.len = f.data_length
      /\ raw.flags = encode_flags(f)
      /\ raw.data = Copied(f.data, f.data_length, Room(f.fd_frame))
  BY DEF encode_frame
<1> HIDE DEF raw
<1>3. f.data_length <= Room(f.fd_frame) /\ Room(f.fd_frame) \in Nat
  BY <1>1, RoomType DEF can_encode, Room
<1>4. decode_id(raw) = f.id
  BY <1>2, CanAssumption DEF decode_id, encode_id, WellFormed
<1>5. (CAN_EFF_FLAG \in raw.can_id) = f.extended_id
  BY <1>1, <1>2, CanAssumption DEF encode_id, WellFormed
<1>6. (CAN_RTR_FLAG \in raw.can_id) = f.remote_frame
  BY <1>1, <1>2, CanAssumption DEF encode_id, WellFormed
<1>7. (CAN_ERR_FLAG \in raw.can_id) = f.error_frame
  BY <1>1, <1>2, CanAssumption DEF encode_id, WellFormed
<1>8. /\ (raw.fd /\ "CANFD_BRS" \in raw.flags) = f.bitrate_switch
      /\ (raw.fd /\ "CANFD_ESI" \in raw.flags) = f.error_state_indicator
  BY <1>1, <1>2 DEF encode_flags, CanFlag, WellFormed
<1>9. Copied(raw.data, raw.len, fd_data_size) = f.data
  <2>1. ASSUME NEW i \in 0 .. fd_data_size - 1
        PROVE  (IF i < raw.len THEN raw.data[i] ELSE 0) = f.data[i]
    <3>1. CASE i < raw.len
      <4>1. i \in 0 .. Room(f.fd_frame) - 1
        BY <1>1, <1>2, <1>3, <3>1, CanAssumption
      <4>2. raw.data[i] = f.data[i]
        BY <1>2, <3>1, <4>1 DEF Copied
      <4> QED
        BY <3>1, <4>2
    <3>2. CASE ~(i < raw.len)
      BY <1>1, <1>2, <3>2, CanAssumption DEF WellFormed
    <3> QED
      BY <3>1, <3>2
  <2> QED
    BY <1>1, <2>1 DEF Copied
<1>10. g = [id |-> f.id, data_length |-> f.data_length, data |-> f.data,
            extended_id |-> f.extended_id, remote_frame |-> f.remote_frame,
            error_frame |-> f.error_frame, fd_frame |-> f.fd_frame,
            bitrate_switch |-> f.bitrate_switch,
            error_state_indicator |-> f.error_state_indicator]
  BY <1>2, <1>4, <1>5, <1>6, <1>7, <1>8, <1>9 DEF decode_frame
<1> QED
  BY <1>1, <1>10 DEF raw

(* Encoding undoes decoding, on what encoding produces. *)
LEMMA EncodeDecode ==
  ASSUME NEW raw, Canonical(raw), CAN_ERR_FLAG \notin raw.can_id
  PROVE  encode_frame(decode_frame(raw)) = raw
<1> DEFINE f == decode_frame(raw)
           g == encode_frame(f)
<1>1. /\ raw.fd \in BOOLEAN
      /\ raw.can_id \in CanId
      /\ raw.len \in 0 .. Room(raw.fd)
      /\ raw.flags \subseteq CanFlag
      /\ raw.data \in [0 .. Room(raw.fd) - 1 -> Byte]
      /\ raw = [fd |-> raw.fd, can_id |-> raw.can_id, len |-> raw.len,
                flags |-> raw.flags, data |-> raw.data]
  BY RawFields DEF Canonical
<1>2. Room(raw.fd) \in Nat /\ Room(raw.fd) <= fd_data_size
  BY <1>1, RoomType
<1>3. /\ f.id = decode_id(raw)
      /\ f.data_length = raw.len
      /\ f.data = Copied(raw.data, raw.len, fd_data_size)
      /\ f.extended_id = (CAN_EFF_FLAG \in raw.can_id)
      /\ f.remote_frame = (CAN_RTR_FLAG \in raw.can_id)
      /\ f.fd_frame = raw.fd
      /\ f.bitrate_switch = (raw.fd /\ "CANFD_BRS" \in raw.flags)
      /\ f.error_state_indicator = (raw.fd /\ "CANFD_ESI" \in raw.flags)
  BY DEF decode_frame
<1> HIDE DEF f
<1>4. encode_id(f) = raw.can_id
  BY <1>1, <1>3 DEF encode_id, decode_id, CanId
<1>5. encode_flags(f) = raw.flags
  BY <1>1, <1>3 DEF encode_flags, CanFlag, Canonical
<1>6. Copied(f.data, f.data_length, Room(f.fd_frame)) = raw.data
  <2>1. ASSUME NEW i \in 0 .. Room(raw.fd) - 1
        PROVE  (IF i < raw.len THEN f.data[i] ELSE 0) = raw.data[i]
    <3>1. CASE i < raw.len
      <4>1. i \in 0 .. fd_data_size - 1
        BY <1>2, CanAssumption
      <4>2. f.data[i] = raw.data[i]
        BY <1>3, <3>1, <4>1 DEF Copied
      <4> QED
        BY <3>1, <4>2
    <3>2. CASE ~(i < raw.len)
      BY <1>1, <1>2, <3>2 DEF Canonical
    <3> QED
      BY <3>1, <3>2
  <2> QED
    BY <1>1, <1>3, <2>1 DEF Copied
<1>7. g = [fd |-> raw.fd, can_id |-> raw.can_id, len |-> raw.len,
           flags |-> raw.flags, data |-> raw.data]
  BY <1>3, <1>4, <1>5, <1>6 DEF encode_frame
<1> QED
  BY <1>1, <1>7 DEF f

(* A session that reads a frame is not refused when it sends it. *)
LEMMA DecodeEncodable ==
  ASSUME NEW raw \in RawFrame, NEW enabled \in BOOLEAN, raw.fd => enabled
  PROVE  can_encode(decode_frame(raw), enabled)
<1>1. /\ decode_frame(raw).fd_frame = raw.fd
      /\ decode_frame(raw).data_length = raw.len
  BY DEF decode_frame
<1>2. raw.len <= Room(raw.fd) /\ raw.fd \in BOOLEAN
  BY RawFields, RoomType
<1> QED
  BY <1>1, <1>2 DEF can_encode, Room

(* The kernel's test of a raw frame, in terms of the frame the user reads: *)
(* a kind is tested only if the filter matches it.                         *)
LEMMA MatchesDecoded ==
  ASSUME NEW raw \in RawFrame, NEW filter \in CanFilter
  PROVE  Matches(raw, raw_filter(filter)) <=>
           /\ IdAgrees(filter, decode_frame(raw))
           /\ filter.extended_id  => decode_frame(raw).extended_id
           /\ filter.remote_frame => decode_frame(raw).remote_frame
<1> DEFINE F == FilterFlags(filter)
<1>1. /\ filter.id \subseteq CAN_EFF_MASK
      /\ filter.mask \subseteq CAN_EFF_MASK
      /\ filter.extended_id \in BOOLEAN /\ filter.remote_frame \in BOOLEAN
  BY DEF CanFilter
<1>2. /\ decode_frame(raw).id = raw.can_id \cap CAN_EFF_MASK
      /\ decode_frame(raw).extended_id = (CAN_EFF_FLAG \in raw.can_id)
      /\ decode_frame(raw).remote_frame = (CAN_RTR_FLAG \in raw.can_id)
  BY DEF decode_frame, decode_id
<1>3. /\ raw_filter(filter).can_id = filter.id \cup F
      /\ raw_filter(filter).can_mask = filter.mask \cup F
  BY DEF raw_filter
<1>4. /\ \A bit \in F : bit = CAN_EFF_FLAG \/ bit = CAN_RTR_FLAG
      /\ CAN_EFF_FLAG \in F <=> filter.extended_id
      /\ CAN_RTR_FLAG \in F <=> filter.remote_frame
  BY <1>1, CanAssumption DEF FilterFlags
<1> HIDE DEF F
<1>5. Matches(raw, raw_filter(filter))
        <=> \A bit \in filter.mask \cup F :
              bit \in raw.can_id <=> bit \in filter.id \cup F
  BY <1>3 DEF Matches
<1>6. (\A bit \in filter.mask :
         bit \in raw.can_id <=> bit \in filter.id \cup F)
        <=> \A bit \in filter.mask :
              bit \in decode_frame(raw).id <=> bit \in filter.id
  BY <1>1, <1>2, <1>4, CanAssumption
<1>7. (\A bit \in F : bit \in raw.can_id <=> bit \in filter.id \cup F)
        <=> /\ filter.extended_id => decode_frame(raw).extended_id
            /\ filter.remote_frame => decode_frame(raw).remote_frame
  BY <1>2, <1>4
<1> QED
  BY <1>5, <1>6, <1>7 DEF IdAgrees
-----------------------------------------------------------------------------
(* A frame on its way between sessions. *)

(* The inductive invariant: what is on the line was encoded, and the stage *)
(* tells how it relates to what was sent and what was read.                *)
Given == stage = "given" => received = frame
OnLine ==
  stage \in {"line", "dropped", "read"} =>
    /\ Canonical(line)
    /\ WellFormed(frame) => decode_frame(line) = frame
Read ==
  stage = "read" =>
    /\ received = decode_frame(line)
    /\ Passes(line, config.enable_can_fd, config.filters)
Dropped ==
  stage = "dropped" => ~Passes(line, config.enable_can_fd, config.filters)

ExchangeInv == ExchangeTypeOK /\ Given /\ OnLine /\ Read /\ Dropped

(* The configuration of a session has the fields the steps test. *)
LEMMA ConfigType ==
  ASSUME NEW c \in Config
  PROVE  c.enable_can_fd \in BOOLEAN /\ c.filters \subseteq CanFilter
BY CanExchangeAssumption

(* The invariant holds before anything is encoded. *)
LEMMA InvInit == ExchangeInit => ExchangeInv
<1> SUFFICES ASSUME ExchangeInit PROVE ExchangeInv
  OBVIOUS
<1>1. NoLine \in RawFrame
  <2>1. [i \in 0 .. classic_data_size - 1 |-> 0]
          \in [0 .. classic_data_size - 1 -> Byte]
    BY CanAssumption
  <2>2. {} \in CanId /\ 0 \in 0 .. Room(FALSE)
    BY CanAssumption DEF CanId, Room
  <2> QED
    BY <2>1, <2>2, RawFields DEF NoLine, Room
<1>2. frame \in CanFrame
  BY CanExchangeAssumption DEF ExchangeInit
<1> QED
  BY <1>1, <1>2
  DEF ExchangeInit, ExchangeInv, ExchangeTypeOK, Given, OnLine, Read, Dropped

(* Encoding keeps the invariant: on the line is a canonical frame, and it  *)
(* decodes to the first one if that was well-formed.                       *)
LEMMA InvEncode == ExchangeInv /\ Encode => ExchangeInv'
<1> SUFFICES ASSUME ExchangeInv, Encode PROVE ExchangeInv'
  OBVIOUS
<1>1. /\ config' = config /\ frame' = frame /\ received' = received
      /\ stage \in {"given", "read"}
      /\ config \in Config /\ frame \in Frame /\ frame \in CanFrame
      /\ line \in RawFrame /\ received \in CanFrame
  BY CanExchangeAssumption DEF Encode, ExchangeInv, ExchangeTypeOK
<1>2. config.enable_can_fd \in BOOLEAN
  BY <1>1, ConfigType
<1>3. CASE ~can_encode(received, config.enable_can_fd)
  <2>1. stage' = "refused" /\ line' = line
    BY <1>3 DEF Encode
  <2> QED
    BY <1>1, <2>1 DEF ExchangeInv, ExchangeTypeOK, Given, OnLine, Read, Dropped
<1>4. CASE can_encode(received, config.enable_can_fd)
  <2>1. stage' = "line" /\ line' = encode_frame(received)
    BY <1>4 DEF Encode
  <2>2. Canonical(line')
    BY <1>1, <1>2, <1>4, <2>1, EncodeCanonical
  <2>3. line' \in RawFrame
    BY <2>2 DEF Canonical
  <2>4. WellFormed(frame) => received = frame
    BY <1>1 DEF ExchangeInv, Given, OnLine, Read
  <2>5. WellFormed(frame) => decode_frame(line') = frame
    BY <1>1, <1>2, <1>4, <2>1, <2>4, DecodeEncode
  <2>6. ExchangeTypeOK'
    BY <1>1, <2>1, <2>3 DEF ExchangeTypeOK
  <2>7. OnLine'
    BY <1>1, <2>2, <2>5 DEF OnLine, Canonical, WellFormed
  <2> QED
    BY <2>1, <2>6, <2>7 DEF ExchangeInv, Given, Read, Dropped
<1> QED
  BY <1>3, <1>4

(* So does decoding. *)
LEMMA InvDecode == ExchangeInv /\ Decode => ExchangeInv'
<1> SUFFICES ASSUME ExchangeInv, Decode PROVE ExchangeInv'
  OBVIOUS
<1>1. /\ frame' = frame /\ line' = line
      /\ stage = "line" /\ config' \in Config
      /\ frame \in Frame /\ line \in RawFrame /\ received \in CanFrame
  BY DEF Decode, ExchangeInv, ExchangeTypeOK
<1>2. OnLine'
  BY <1>1 DEF ExchangeInv, OnLine, Canonical, WellFormed
<1>3. decode_frame(line) \in CanFrame
  BY <1>1, DecodeType
<1>4. CASE Passes(line, config'.enable_can_fd, config'.filters)
  <2>1. stage' = "read" /\ received' = decode_frame(line)
    BY <1>4 DEF Decode
  <2> QED
    BY <1>1, <1>2, <1>3, <1>4, <2>1
    DEF ExchangeInv, ExchangeTypeOK, Given, Read, Dropped
<1>5. CASE ~Passes(line, config'.enable_can_fd, config'.filters)
  <2>1. stage' = "dropped" /\ received' = received
    BY <1>5 DEF Decode
  <2> QED
    BY <1>1, <1>2, <1>5, <2>1
    DEF ExchangeInv, ExchangeTypeOK, Given, Read, Dropped
<1> QED
  BY <1>4, <1>5

(* The invariant holds throughout. *)
THEOREM ExchangeInvariant == ExchangeSpec => []ExchangeInv
<1>1. ExchangeInv /\ UNCHANGED exchangeVars => ExchangeInv'
  BY DEF ExchangeInv, ExchangeTypeOK, Given, OnLine, Read, Dropped, exchangeVars
<1>2. ExchangeInv /\ [ExchangeNext]_exchangeVars => ExchangeInv'
  BY <1>1, InvEncode, InvDecode DEF ExchangeNext
<1> QED
  BY <1>2, InvInit, PTL DEF ExchangeSpec
-----------------------------------------------------------------------------
(* Frames on the line and frames read always have the types of the code.   *)
THEOREM ExchangeTypeCorrect == ExchangeSpec => []ExchangeTypeOK
<1>1. ExchangeInv => ExchangeTypeOK
  BY DEF ExchangeInv
<1> QED
  BY <1>1, ExchangeInvariant, PTL

(* A well-formed frame is read as it was sent, however often it is relayed.*)
THEOREM RoundTripCorrect == ExchangeSpec => []RoundTrip
<1>1. ExchangeInv => RoundTrip
  BY DEF ExchangeInv, OnLine, Read, RoundTrip
<1> QED
  BY <1>1, ExchangeInvariant, PTL

(* Whatever was sent, what is read can be sent on, byte for byte. *)
THEOREM RelayableCorrect == ExchangeSpec => []Relayable
<1>1. ExchangeInv => Relayable
  <2> SUFFICES ASSUME ExchangeInv, stage = "read"
               PROVE  /\ WellFormed(received)
                      /\ can_encode(received, config.enable_can_fd)
                      /\ encode_frame(received) = line
    BY DEF Relayable
  <2>1. /\ line \in RawFrame /\ Canonical(line)
        /\ config.enable_can_fd \in BOOLEAN
        /\ received = decode_frame(line)
        /\ CAN_ERR_FLAG \notin line.can_id
        /\ line.fd => config.enable_can_fd
    BY ConfigType DEF ExchangeInv, ExchangeTypeOK, OnLine, Read, Passes
  <2> QED
    BY <2>1, DecodeWellFormed, DecodeEncodable, EncodeDecode
<1> QED
  BY <1>1, ExchangeInvariant, PTL

(* For every list of filters: no frame that a filter describes is lost to  *)
(* it, and what passes has the id of a filter, and its kinds if the filter *)
(* matches both extended and remote frames.                                *)
THEOREM FilteredAsDescribedCorrect == ExchangeSpec => []FilteredAsDescribed
<1>1. ExchangeInv => FilteredAsDescribed
  <2> SUFFICES ASSUME ExchangeInv PROVE FilteredAsDescribed
    OBVIOUS
  <2>1. line \in RawFrame /\ config.filters \subseteq CanFilter
    BY ConfigType DEF ExchangeInv, ExchangeTypeOK
  <2> DEFINE f == decode_frame(line)
  <2>2. f.extended_id \in BOOLEAN /\ f.remote_frame \in BOOLEAN
    BY DEF decode_frame
  <2>3. \A filter \in config.filters :
          Matches(line, raw_filter(filter)) <=>
            /\ IdAgrees(filter, f)
            /\ filter.extended_id  => f.extended_id
            /\ filter.remote_frame => f.remote_frame
    BY <2>1, MatchesDecoded
  <2>4. \A filter \in config.filters :
          filter.extended_id \in BOOLEAN /\ filter.remote_frame \in BOOLEAN
    BY <2>1 DEF CanFilter
  <2> HIDE DEF f
  <2>5. \A filter \in config.filters :
          Describes(filter, f) => Matches(line, raw_filter(filter))
    BY <2>3 DEF Describes
  <2>6. \A filter \in config.filters :
          /\ Matches(line, raw_filter(filter))
          /\ filter.extended_id /\ filter.remote_frame
          => Describes(filter, f)
    BY <2>2, <2>3, <2>4 DEF Describes
  <2>7. CASE stage = "read" /\ config.filters # {}
    <3>1. /\ received = f
          /\ \E filter \in config.filters : Matches(line, raw_filter(filter))
      BY <2>7 DEF ExchangeInv, Read, Passes, f
    <3> QED BY <2>3, <2>6, <2>7, <3>1 DEF FilteredAsDescribed
  <2>8. CASE stage = "dropped"
    <3>1. ~Passes(line, config.enable_can_fd, config.filters)
      BY <2>8 DEF ExchangeInv, Dropped
    <3> QED BY <2>5, <2>8, <3>1 DEF FilteredAsDescribed, Passes, f
  <2>9. CASE stage # "dropped" /\ ~(stage = "read" /\ config.filters # {})
    BY <2>9 DEF FilteredAsDescribed
  <2> QED BY <2>7, <2>8, <2>9
<1> QED
  BY <1>1, ExchangeInvariant, PTL
-----------------------------------------------------------------------------
(* A session. *)

(* What holds of the session object also between the calls a handler makes. *)
(* A write that is outstanding carries what the front of the queue encodes  *)
(* to.                                                                      *)
SessionInv(s) ==
  /\ s \in Session
  /\ Len(s.reads)  = IF s.read_in_progress  THEN 1 ELSE 0
  /\ Len(s.writes) = IF s.write_in_progress THEN 1 ELSE 0
  /\ s.closed => /\ s.write_queue = << >>
                 /\ ~IsPending(s.reads) /\ ~IsPending(s.writes)
  /\ ~s.closed /\ s.writes # << >> =>
       /\ s.write_queue # << >>
       /\ can_encode(Head(s.write_queue), TRUE)
       /\ Head(s.writes).raw = encode_frame(Head(s.write_queue))

(* Whenever the strand is idle, or the read handler runs, all that is      *)
(* queued has been scheduled: the front of the queue is being written.     *)
Scheduled(s) ==
  ~s.closed /\ s.write_queue # << >> => s.write_in_progress

(* The frames that have not gone out: a written one is still in front of   *)
(* the queue until its completion removes it.                              *)
Left(s) == IF s.writes # << >> /\ Head(s.writes).status = "done"
           THEN Tail(s.write_queue) ELSE s.write_queue

(* While the session is open, what it has accepted is what has gone out,   *)
(* as many frames as the wire has, and what is left.                       *)
Balanced(a, w, s) ==
  \E gone \in Seq(Message) : Len(gone) = Len(w) /\ a = gone \o Left(s)

(* The invariant: whatever ran last has also left no read to be started.  *)
IInv ==
  /\ SessionInv(session)
  /\ Scheduled(session)
  /\ strand = "idle" => ~can_start_read(session)
  /\ strand \in {"idle", "after_data", "after_error"}
  /\ accepted \in Seq(Message)
  /\ wire \in Seq(RawFrame)
  /\ ~session.closed => Balanced(accepted, wire, session)

(* t holds the frames of s, and is closed if s is. *)
SameFrames(s, t) ==
  t.write_queue = s.write_queue /\ t.closed = s.closed /\ Left(t) = Left(s)

(* The session is about to write a frame that cannot be encoded. *)
RefusesHead(s) ==
  /\ ~s.closed /\ ~s.write_in_progress /\ s.write_queue # << >>
  /\ ~can_encode(Head(s.write_queue), s.enable_can_fd)
-----------------------------------------------------------------------------
(* The operators. *)

(* What can be encoded for a classic session can be for an FD one, and     *)
(* then the encoded frame has the type of what goes on the wire.           *)
LEMMA Encodable ==
  ASSUME NEW m \in Message, NEW fd \in BOOLEAN, can_encode(m, fd)
  PROVE  can_encode(m, TRUE) /\ encode_frame(m) \in RawFrame
<1>1. m \in CanFrame
  BY CanSessionAssumption
<1>2. Canonical(encode_frame(m))
  BY <1>1, EncodeCanonical
<1> QED BY <1>2 DEF Canonical, can_encode

(* What is left is a part of the queue.                                    *)
LEMMA LeftType ==
  ASSUME NEW s, SessionInv(s), ~s.closed
  PROVE  Left(s) \in Seq(Message)
<1>1. s.write_queue \in Seq(Message)
  BY DEF SessionInv, Session
<1>2. s.writes # << >> => s.write_queue # << >>
  BY DEF SessionInv
<1> QED BY <1>1, <1>2, HeadTailProperties DEF Left

(* close() closes, and leaves nothing pending and no frame queued.         *)
LEMMA CloseKeeps ==
  ASSUME NEW s, SessionInv(s)
  PROVE  /\ Core!close(s) = Closing!close(s)
         /\ SessionInv(Closing!close(s))
         /\ Closing!close(s).closed
<1> DEFINE r == Aborted(s.reads)
           w == Aborted(s.writes)
           t == [s EXCEPT !.read_enabled = FALSE, !.write_queue = << >>,
                          !.closed = TRUE, !.is_open = FALSE,
                          !.reads = r, !.writes = w]
<1>1. s \in Session /\ s.reads \in Seq(ReadOp) /\ s.writes \in Seq(WriteOp)
  BY DEF SessionInv, Session
<1>2. Core!close(s) = Closing!close(s)
  BY DEF Core!close, Closing!close
<1>3. CASE s.closed
  BY <1>2, <1>3 DEF Closing!close
<1>4. CASE ~s.closed
  <2>1. Closing!close(s) = t
    BY <1>1, <1>4 DEF Closing!close, close_transport, Session
  <2>2. /\ \A op \in ReadOp :
             /\ [op EXCEPT !.status = "aborted"] \in ReadOp
             /\ [op EXCEPT !.status = "aborted"].status = "aborted"
        /\ \A op \in WriteOp :
             /\ [op EXCEPT !.status = "aborted"] \in WriteOp
             /\ [op EXCEPT !.status = "aborted"].status = "aborted"
    BY DEF ReadOp, WriteOp, Status
  <2>3. r \in Seq(ReadOp) /\ Len(r) = Len(s.reads) /\ ~IsPending(r)
    BY <1>1, <2>2, AbortedOps, AbortedNotPending
  <2>4. w \in Seq(WriteOp) /\ Len(w) = Len(s.writes) /\ ~IsPending(w)
    BY <1>1, <2>2, AbortedOps, AbortedNotPending
  <2> HIDE DEF r, w
  <2>5. /\ t \in Session /\ t.reads = r /\ t.writes = w /\ t.closed
        /\ t.read_in_progress = s.read_in_progress
        /\ t.write_in_progress = s.write_in_progress
        /\ t.write_queue = << >>
    BY <1>1, <2>3, <2>4, EmptySeq DEF Session
  <2> HIDE DEF t
  <2>6. SessionInv(t)
    BY <2>3, <2>4, <2>5, <1>1 DEF SessionInv
  <2> QED BY <1>2, <2>1, <2>5, <2>6
<1> QED BY <1>3, <1>4

(* A write is started with what the front of the queue encodes to, or the  *)
(* session is closed instead.                                              *)
LEMMA DoWrite ==
  ASSUME NEW s, SessionInv(s), can_start_write(s)
  PROVE  /\ SessionInv(do_write(s))
         /\ \/ /\ SameFrames(s, do_write(s)) /\ Scheduled(do_write(s))
               /\ ~RefusesHead(s)
            \/ do_write(s).closed /\ RefusesHead(s)
<1> DEFINE m  == Head(s.write_queue)
           op == [status |-> IF s.is_open THEN "pending" ELSE "failed",
                  raw |-> encode_frame(m)]
           t  == [s EXCEPT !.write_in_progress = TRUE, !.writes = << op >>]
<1>1. /\ s \in Session /\ ~s.write_in_progress /\ s.write_queue # << >>
      /\ ~s.closed /\ s.enable_can_fd \in BOOLEAN
  BY DEF SessionInv, can_start_write, has_pending_writes, Session
<1>2. m \in Message
  BY <1>1, HeadTailProperties DEF Session
<1>3. CASE ~can_encode(m, s.enable_can_fd)
  <2>1. do_write(s) = Closing!close(s)
    BY <1>1, <1>3 DEF do_write, has_pending_writes, current_write
  <2>2. RefusesHead(s)
    BY <1>1, <1>3 DEF RefusesHead
  <2> QED BY <2>1, <2>2, CloseKeeps
<1>4. CASE can_encode(m, s.enable_can_fd)
  <2>1. s.writes = << >>
    <3>1. s.writes \in Seq(WriteOp) /\ Len(s.writes) = 0
      BY <1>1 DEF SessionInv, Session
    <3> QED BY <3>1, EmptySeq
  <2>2. can_encode(m, TRUE) /\ encode_frame(m) \in RawFrame
    BY <1>1, <1>2, <1>4, Encodable
  <2>3. /\ op \in WriteOp /\ op.status # "done" /\ op.raw = encode_frame(m)
    BY <2>2 DEF WriteOp, Status
  <2>4. do_write(s) = t
    <3> DEFINE u == mark_write_started(s)
    <3>1. do_write(s) = async_write(u, encode_frame(m))
      BY <1>1, <1>4 DEF do_write, has_pending_writes, current_write
    <3>2. /\ u = [s EXCEPT !.write_in_progress = TRUE]
          /\ u.writes = << >> /\ u.is_open = s.is_open
      BY <1>1, <2>1 DEF mark_write_started, Session
    <3> HIDE DEF u
    <3>3. async_write(u, encode_frame(m))
            = [u EXCEPT !.writes = Append(<< >>, op)]
      BY <3>2 DEF async_write
    <3> QED BY <1>1, <3>1, <3>2, <3>3 DEF Session
  <2> HIDE DEF op
  <2>5. << op >> \in Seq(WriteOp) /\ Len(<< op >>) = 1 /\ Head(<< op >>) = op
    BY <2>3
  <2>6. /\ t \in Session /\ t.reads = s.reads
        /\ t.read_in_progress = s.read_in_progress
        /\ t.closed = s.closed /\ t.write_queue = s.write_queue
        /\ t.write_in_progress /\ t.writes = << op >>
    BY <1>1, <2>5 DEF Session
  <2> HIDE DEF t
  <2>7. SessionInv(t)
    BY <1>1, <2>2, <2>3, <2>5, <2>6 DEF SessionInv
  <2>8. SameFrames(s, t) /\ Scheduled(t)
    BY <2>1, <2>3, <2>5, <2>6 DEF SameFrames, Left, Scheduled
  <2>9. ~RefusesHead(s)
    BY <1>4 DEF RefusesHead
  <2> QED BY <2>4, <2>7, <2>8, <2>9
<1> QED BY <1>3, <1>4

(* A read that is started changes nothing about the frames.                *)
LEMMA DoRead ==
  ASSUME NEW s, SessionInv(s), can_start_read(s)
  PROVE  /\ SessionInv(do_read(s)) /\ SameFrames(s, do_read(s))
         /\ do_read(s).write_in_progress = s.write_in_progress
         /\ ~can_start_read(do_read(s))
<1> DEFINE op == [status |-> IF s.is_open THEN "pending" ELSE "failed",
                  raw |-> NoFrame]
           t  == [s EXCEPT !.read_in_progress = TRUE, !.reads = << op >>]
<1>1. s \in Session /\ ~s.read_in_progress /\ ~s.closed
  BY DEF SessionInv, can_start_read
<1>2. s.reads = << >>
  <2>1. s.reads \in Seq(ReadOp) /\ Len(s.reads) = 0
    BY <1>1 DEF SessionInv, Session
  <2> QED BY <2>1, EmptySeq
<1>3. op \in ReadOp
  BY DEF ReadOp, Status
<1>4. do_read(s) = t
  <2> DEFINE u == mark_read_started(s)
  <2>1. /\ u = [s EXCEPT !.read_in_progress = TRUE]
        /\ u.reads = << >> /\ u.is_open = s.is_open
    BY <1>1, <1>2 DEF mark_read_started, Session
  <2>2. do_read(s) = async_read_some(u)
    BY DEF do_read
  <2> HIDE DEF u
  <2>3. async_read_some(u) = [u EXCEPT !.reads = Append(<< >>, op)]
    BY <2>1 DEF async_read_some
  <2> QED BY <1>1, <2>1, <2>2, <2>3 DEF Session
<1> HIDE DEF op
<1>5. << op >> \in Seq(ReadOp) /\ Len(<< op >>) = 1
  BY <1>3
<1>6. /\ t \in Session /\ t.writes = s.writes
      /\ t.write_in_progress = s.write_in_progress
      /\ t.closed = s.closed /\ t.write_queue = s.write_queue
      /\ t.read_in_progress /\ t.reads = << op >>
  BY <1>1, <1>5 DEF Session
<1> HIDE DEF t
<1>7. SessionInv(t)
  BY <1>1, <1>5, <1>6 DEF SessionInv
<1>8. SameFrames(s, t)
  BY <1>6 DEF SameFrames, Left
<1> QED BY <1>4, <1>6, <1>7, <1>8 DEF can_start_read

(* schedule_operations keeps the frames and starts their writing, or it    *)
(* comes to one that cannot be encoded, and closes.                        *)
LEMMA ScheduleKeeps ==
  ASSUME NEW s, SessionInv(s)
  PROVE  /\ SessionInv(Core!schedule_operations(s))
         /\ Scheduled(Core!schedule_operations(s))
         /\ ~can_start_read(Core!schedule_operations(s))
         /\ \/ SameFrames(s, Core!schedule_operations(s)) /\ ~RefusesHead(s)
            \/ Core!schedule_operations(s).closed /\ RefusesHead(s)
<1> DEFINE w == IF can_start_write(s) THEN do_write(s) ELSE s
           t == IF can_start_read(w) THEN do_read(w) ELSE w
<1>1. Core!schedule_operations(s) = t
  BY DEF Core!schedule_operations
<1>2. /\ SessionInv(w) /\ Scheduled(w)
      /\ \/ SameFrames(s, w) /\ ~RefusesHead(s)
         \/ w.closed /\ RefusesHead(s)
  <2>1. CASE can_start_write(s)
    BY <2>1, DoWrite DEF Scheduled
  <2>2. CASE ~can_start_write(s)
    BY <2>2 DEF can_start_write, has_pending_writes, Scheduled, SameFrames,
                RefusesHead
  <2> QED BY <2>1, <2>2
<1> HIDE DEF w
<1>3. CASE can_start_read(w)
  <2>1. t = do_read(w) /\ ~w.closed
    BY <1>3 DEF can_start_read
  <2>2. /\ SessionInv(t) /\ SameFrames(w, t)
        /\ t.write_in_progress = w.write_in_progress
        /\ ~can_start_read(t)
    BY <1>2, <1>3, <2>1, DoRead
  <2> HIDE DEF t
  <2> QED BY <1>1, <1>2, <2>1, <2>2 DEF SameFrames, Scheduled
<1>4. CASE ~can_start_read(w)
  BY <1>1, <1>2, <1>4
<1> QED BY <1>3, <1>4
-----------------------------------------------------------------------------
(* The actions. *)

(* A step that prepares a session t with the frames of the present one,    *)
(* and rests there or schedules.  It does not close the session.           *)
LEMMA QuietStep ==
  ASSUME IInv, NEW t, SessionInv(t), SameFrames(session, t),
         t.write_in_progress = session.write_in_progress,
         \/ /\ session' = t
            /\ strand' = "idle" =>
                 /\ strand = "idle"
                 /\ can_start_read(t) => can_start_read(session)
         \/ session' = Core!schedule_operations(t),
         strand' \in {"idle", "after_data", "after_error"},
         UNCHANGED <<accepted, wire>>
  PROVE  IInv' /\ SameFrames(session, session')
<1>1. /\ SessionInv(session') /\ Scheduled(session')
      /\ SameFrames(session, session')
      /\ strand' = "idle" => ~can_start_read(session')
  <2>1. CASE /\ session' = t
             /\ strand' = "idle" =>
                  /\ strand = "idle"
                  /\ can_start_read(t) => can_start_read(session)
    BY <2>1 DEF IInv, Scheduled, SameFrames
  <2>2. CASE session' = Core!schedule_operations(t)
    <3>1. ~RefusesHead(t)
      BY DEF IInv, Scheduled, SameFrames, RefusesHead
    <3> QED BY <2>2, <3>1, ScheduleKeeps DEF SameFrames
  <2> QED BY <2>1, <2>2
<1>2. /\ SessionInv(session)' /\ Scheduled(session)'
      /\ (strand = "idle" => ~can_start_read(session))'
  BY <1>1 DEF can_start_read
<1>3. (~session.closed => Balanced(accepted, wire, session))'
  BY <1>1 DEF IInv, Balanced, SameFrames
<1> QED BY <1>1, <1>2, <1>3 DEF IInv

(* A step that closes the session.                                         *)
LEMMA ClosingStep ==
  ASSUME IInv, NEW t, SessionInv(t), session' = Core!close(t),
         strand' \in {"idle", "after_data", "after_error"},
         UNCHANGED <<accepted, wire>>
  PROVE  IInv' /\ session'.closed
<1>1. SessionInv(session') /\ session'.closed
  BY CloseKeeps
<1>2. /\ SessionInv(session)' /\ Scheduled(session)'
      /\ ~can_start_read(session)'
  BY <1>1 DEF Scheduled, can_start_read
<1> QED BY <1>1, <1>2 DEF IInv

(* A change of fields the invariant does not look at.                      *)
Tweaked(s, t) ==
  /\ t \in Session
  /\ t.write_queue = s.write_queue
  /\ t.closed = s.closed
  /\ t.read_in_progress = s.read_in_progress /\ t.reads = s.reads
  /\ t.write_in_progress = s.write_in_progress /\ t.writes = s.writes

(* The calls that move no frame and do not close: setting the handler,     *)
(* starting and stopping to read, opening.                                 *)
LEMMA CallStep ==
  ASSUME IInv,
         \/ \E set \in BOOLEAN : SetReadHandler(set)
         \/ StartReading
         \/ StopReading
         \/ \E enable_can_fd \in EnableCanFd, succeeds \in BOOLEAN :
              Open(enable_can_fd, succeeds)
  PROVE  IInv' /\ SameFrames(session, session')
<1>1. session \in Session /\ SessionInv(session)
      /\ strand \in {"idle", "after_data", "after_error"}
  BY DEF IInv, SessionInv
<1>2. ASSUME NEW t, Tweaked(session, t),
             \/ session' = t /\ (t.read_enabled => session.read_enabled)
             \/ session' = Core!schedule_operations(t),
             UNCHANGED <<strand, accepted, wire>>
      PROVE  IInv' /\ SameFrames(session, session')
  <2>1. SessionInv(t) /\ SameFrames(session, t)
    BY <1>1, <1>2 DEF Tweaked, SessionInv, SameFrames, Left
  <2>2. t.write_in_progress = session.write_in_progress
    BY <1>2 DEF Tweaked
  <2>3. /\ strand' \in {"idle", "after_data", "after_error"}
        /\ UNCHANGED <<accepted, wire>>
    BY <1>1, <1>2
  <2>4. CASE session' = t /\ (t.read_enabled => session.read_enabled)
    <3>1. can_start_read(t) => can_start_read(session)
      BY <1>2, <2>4 DEF Tweaked, can_start_read
    <3>2. /\ session' = t
          /\ strand' = "idle" =>
               /\ strand = "idle"
               /\ can_start_read(t) => can_start_read(session)
      BY <1>2, <2>4, <3>1
    <3> QED BY <2>1, <2>2, <2>3, <3>2, QuietStep
  <2>5. CASE session' = Core!schedule_operations(t)
    BY <2>1, <2>2, <2>3, <2>5, QuietStep
  <2> QED BY <1>2, <2>4, <2>5
<1>3. Tweaked(session, session)
  BY <1>1 DEF Tweaked
<1>4. ASSUME NEW set \in BOOLEAN, SetReadHandler(set)
      PROVE  IInv' /\ SameFrames(session, session')
  <2>1. /\ Tweaked(session, set_read_handler(session, set))
        /\ set_read_handler(session, set).read_enabled = session.read_enabled
    BY <1>1 DEF set_read_handler, Tweaked, Session
  <2> QED BY <1>2, <1>4, <2>1 DEF SetReadHandler
<1>5. CASE StartReading
  <2>1. Tweaked(session, [session EXCEPT !.read_enabled = TRUE])
    BY <1>1 DEF Tweaked, Session
  <2> QED BY <1>2, <1>3, <1>5, <2>1 DEF StartReading, Core!start_reading
<1>6. CASE StopReading
  <2>1. /\ Tweaked(session, stop_reading(session))
        /\ ~stop_reading(session).read_enabled
    BY <1>1 DEF stop_reading, Tweaked, Session
  <2> QED BY <1>2, <1>6, <2>1 DEF StopReading
<1>7. ASSUME NEW enable_can_fd \in EnableCanFd, NEW succeeds \in BOOLEAN,
             Open(enable_can_fd, succeeds)
      PROVE  IInv' /\ SameFrames(session, session')
  <2>1. enable_can_fd \in BOOLEAN
    BY CanSessionAssumption
  <2> DEFINE t == open(session, enable_can_fd, succeeds)
  <2>2. Tweaked(session, t) /\ t.read_enabled = session.read_enabled
    BY <1>1, <2>1 DEF open, Tweaked, Session
  <2> QED BY <1>2, <1>7, <2>2 DEF Open
<1> QED BY <1>4, <1>5, <1>6, <1>7

(* send(): on an open session the frame is queued behind the others, and   *)
(* only a frame that finds the queue empty and cannot be encoded closes.   *)
LEMMA SendEffect ==
  ASSUME IInv, NEW m \in Message, NEW t, t = Core!enqueue_write(session, m)
  PROVE  /\ SessionInv(t) /\ Scheduled(t)
         /\ strand = "idle" => ~can_start_read(t)
         /\ \/ session.closed /\ t = session
            \/ /\ ~session.closed /\ ~t.closed
               /\ Left(t) = Append(Left(session), m)
            \/ /\ ~session.closed /\ t.closed
               /\ session.writes = << >> /\ session.write_queue = << >>
               /\ ~can_encode(m, session.enable_can_fd)
<1> DEFINE q == Append(session.write_queue, m)
           u == [session EXCEPT !.write_queue = q]
<1>1. /\ session \in Session /\ SessionInv(session) /\ Scheduled(session)
      /\ session.write_queue \in Seq(Message)
      /\ session.writes \in Seq(WriteOp)
  BY DEF IInv, SessionInv, Session
<1>2. CASE session.closed
  BY <1>1, <1>2 DEF Core!enqueue_write, can_start_read
<1>3. CASE ~session.closed
  <2>1. t = Core!schedule_operations(u)
    BY <1>3 DEF Core!enqueue_write
  <2>2. /\ q \in Seq(Message) /\ q # << >>
        /\ session.write_queue # << >> =>
             /\ Head(q) = Head(session.write_queue)
             /\ Tail(q) = Append(Tail(session.write_queue), m)
        /\ session.write_queue = << >> => Head(q) = m
    BY <1>1
  <2>3. q = Append(session.write_queue, m)
    OBVIOUS
  <2> HIDE DEF q
  <2>4. /\ u \in Session /\ u.write_queue = q /\ ~u.closed
        /\ u.enable_can_fd = session.enable_can_fd
        /\ u.read_in_progress = session.read_in_progress
        /\ u.reads = session.reads /\ u.writes = session.writes
        /\ u.write_in_progress = session.write_in_progress
    BY <1>1, <1>3, <2>2 DEF Session
  <2> HIDE DEF u
  <2>5. SessionInv(u)
    BY <1>1, <1>3, <2>2, <2>4 DEF SessionInv
  <2>6. Left(u) = Append(Left(session), m)
    <3>1. session.writes # << >> => session.write_queue # << >>
      BY <1>1, <1>3 DEF SessionInv
    <3>2. CASE session.writes # << >> /\ Head(session.writes).status = "done"
      BY <2>2, <2>4, <3>1, <3>2 DEF Left
    <3>3. CASE ~(session.writes # << >> /\ Head(session.writes).status = "done")
      BY <2>3, <2>4, <3>3 DEF Left
    <3> QED BY <3>2, <3>3
  <2>7. /\ SessionInv(t) /\ Scheduled(t) /\ ~can_start_read(t)
        /\ \/ SameFrames(u, t)
           \/ t.closed /\ RefusesHead(u)
    BY <2>1, <2>5, ScheduleKeeps
  <2>8. CASE SameFrames(u, t)
    BY <1>3, <2>4, <2>6, <2>7, <2>8 DEF SameFrames
  <2>9. CASE t.closed /\ RefusesHead(u)
    <3>1. /\ ~session.write_in_progress
          /\ ~can_encode(Head(q), session.enable_can_fd)
      BY <2>4, <2>9 DEF RefusesHead
    <3>2. session.write_queue = << >>
      BY <1>1, <1>3, <3>1 DEF Scheduled
    <3>3. session.writes = << >>
      <4>1. Len(session.writes) = 0
        BY <1>1, <3>1 DEF SessionInv
      <4> QED BY <1>1, <4>1, EmptySeq
    <3> QED BY <1>3, <2>2, <2>7, <2>9, <3>1, <3>2, <3>3
  <2> QED BY <2>7, <2>8, <2>9
<1> QED BY <1>2, <1>3

(* send() keeps the invariant. *)
LEMMA SendStep ==
  ASSUME IInv, NEW m \in Message, Send(m)
  PROVE  IInv'
<1>1. /\ session' = Core!enqueue_write(session, m)
      /\ accepted' = IF session'.closed THEN accepted ELSE Append(accepted, m)
      /\ UNCHANGED <<strand, wire>>
  BY DEF Send
<1>2. /\ SessionInv(session') /\ Scheduled(session')
      /\ strand = "idle" => ~can_start_read(session')
      /\ ~session'.closed => /\ ~session.closed
                             /\ Left(session') = Append(Left(session), m)
  BY <1>1, SendEffect
<1>3. /\ SessionInv(session)' /\ Scheduled(session)'
      /\ (strand = "idle" => ~can_start_read(session))'
  BY <1>1, <1>2 DEF can_start_read
<1>4. accepted' \in Seq(Message)
  BY <1>1 DEF IInv
<1>5. ASSUME ~session'.closed PROVE Balanced(accepted, wire, session)'
  <2>1. ~session.closed /\ Left(session) \in Seq(Message)
    BY <1>2, <1>5, LeftType DEF IInv
  <2>2. PICK gone \in Seq(Message) :
          Len(gone) = Len(wire) /\ accepted = gone \o Left(session)
    BY <2>1 DEF IInv, Balanced
  <2>3. gone \o Append(Left(session), m) = Append(gone \o Left(session), m)
    BY <2>1, <2>2, ConcatAppend
  <2>4. accepted' = gone \o Left(session') /\ wire' = wire
    BY <1>1, <1>2, <1>5, <2>2, <2>3
  <2>5. Balanced(accepted', wire', session')
    BY <2>2, <2>4 DEF Balanced
  <2> QED BY <2>5 DEF Balanced, Left
<1> QED BY <1>1, <1>3, <1>4, <1>5 DEF IInv

(* The user's close(). *)
LEMMA CloseStep ==
  ASSUME IInv, Close
  PROVE  IInv' /\ session'.closed
BY ClosingStep DEF IInv, Close

(* A completed read leaves nothing outstanding to read.                    *)
LEMMA OnReadStep ==
  ASSUME IInv, OnRead
  PROVE  /\ IInv'
         /\ \/ SameFrames(session, session')
            \/ SocketFailed /\ session'.closed
<1> DEFINE t == mark_read_finished([session EXCEPT !.reads = Tail(@)])
           op == Head(session.reads)
           rest == IF op.status = "done" /\ op.raw # NoFrame
                   THEN "after_data" ELSE "after_error"
<1>1. /\ session \in Session /\ SessionInv(session)
      /\ session.reads \in Seq(ReadOp) /\ session.reads # << >>
      /\ IsComplete(session.reads)
  BY DEF IInv, SessionInv, Session, OnRead, IsComplete
<1>2. Tail(session.reads) = << >>
  <2>1. Len(session.reads) = 1
    BY <1>1, EmptySeq DEF SessionInv
  <2> QED BY <1>1, <2>1, TailOfOne
<1>3. t = [session EXCEPT !.reads = << >>, !.read_in_progress = FALSE]
  BY <1>1, <1>2 DEF mark_read_finished, Session
<1>4. /\ session' = IF t.read_handler THEN t ELSE AfterRead(t, rest)
      /\ strand' = IF t.read_handler THEN rest ELSE "idle"
      /\ UNCHANGED <<accepted, wire>>
  BY DEF OnRead
<1>5. /\ rest \in {"after_data", "after_error"}
      /\ rest = "after_error" => SocketFailed
  BY <1>1 DEF SocketFailed
<1> HIDE DEF t, rest
<1>6. /\ t \in Session /\ t.reads = << >> /\ ~t.read_in_progress
      /\ t.write_queue = session.write_queue /\ t.closed = session.closed
      /\ t.writes = session.writes
      /\ t.write_in_progress = session.write_in_progress
  BY <1>1, <1>3, EmptySeq DEF Session
<1>7. SessionInv(t) /\ SameFrames(session, t)
  BY <1>1, <1>6, EmptySeq DEF SessionInv, IsPending, SameFrames, Left
<1>8. strand' \in {"idle", "after_data", "after_error"}
  BY <1>4, <1>5
<1>9. CASE t.read_handler \/ rest = "after_data"
  <2>1. \/ session' = t /\ strand' # "idle"
        \/ session' = Core!schedule_operations(t)
    BY <1>4, <1>9, <1>5 DEF AfterRead
  <2> QED BY <1>4, <1>6, <1>7, <1>8, <2>1, QuietStep
<1>10. CASE ~t.read_handler /\ rest = "after_error"
  <2>1. session' = Core!close(t)
    BY <1>4, <1>10 DEF AfterRead
  <2> QED BY <1>4, <1>5, <1>7, <1>8, <1>10, <2>1, ClosingStep
<1> QED BY <1>5, <1>9, <1>10

(* The read handler returns, and the session reads on or closes.           *)
LEMMA ReadHandlerReturnsStep ==
  ASSUME IInv, ReadHandlerReturns
  PROVE  /\ IInv'
         /\ \/ SameFrames(session, session')
            \/ SocketFailed /\ session'.closed
<1>1. /\ session' = AfterRead(session, strand) /\ strand' = "idle"
      /\ UNCHANGED <<accepted, wire>>
      /\ strand \in {"after_data", "after_error"}
      /\ SessionInv(session) /\ SameFrames(session, session)
  BY DEF ReadHandlerReturns, IInv, SameFrames
<1>2. CASE strand = "after_data"
  <2>1. session' = Core!schedule_operations(session)
    BY <1>1, <1>2 DEF AfterRead
  <2> QED BY <1>1, <2>1, QuietStep
<1>3. CASE strand = "after_error"
  <2>1. session' = Core!close(session)
    BY <1>1, <1>3 DEF AfterRead
  <2> QED BY <1>1, <1>3, <2>1, ClosingStep DEF SocketFailed
<1> QED BY <1>1, <1>2, <1>3

(* While the session is open, the next frame on the wire is the first of   *)
(* those left.                                                             *)
LEMMA NextOut ==
  ASSUME IInv, ~session.closed
  PROVE  /\ Len(wire) \in Nat /\ Len(accepted) \in Nat
         /\ Left(session) = << >> => Len(accepted) = Len(wire)
         /\ Left(session) # << >> =>
              /\ Len(accepted) > Len(wire)
              /\ accepted[Len(wire) + 1] = Head(Left(session))
<1>1. /\ Left(session) \in Seq(Message)
      /\ wire \in Seq(RawFrame) /\ accepted \in Seq(Message)
  BY LeftType DEF IInv
<1>2. PICK gone \in Seq(Message) :
        Len(gone) = Len(wire) /\ accepted = gone \o Left(session)
  BY DEF IInv, Balanced
<1>3. /\ Len(accepted) = Len(wire) + Len(Left(session))
      /\ \A i \in 1 .. Len(wire) + Len(Left(session)) :
           accepted[i] = IF i <= Len(wire) THEN gone[i]
                         ELSE Left(session)[i - Len(wire)]
  BY <1>1, <1>2, ConcatProperties
<1>4. Len(wire) \in Nat /\ Len(Left(session)) \in Nat /\ Len(accepted) \in Nat
  BY <1>1, LenProperties
<1>5. CASE Left(session) = << >>
  BY <1>3, <1>4, <1>5, EmptySeq
<1>6. CASE Left(session) # << >>
  <2>1. Len(Left(session)) > 0 /\ Head(Left(session)) = Left(session)[1]
    BY <1>1, <1>4, <1>6, EmptySeq, HeadTailProperties
  <2> QED BY <1>3, <1>4, <1>6, <2>1
<1> QED BY <1>4, <1>5, <1>6

(* A completed write removes its frame, and starts the next one or closes  *)
(* because that one cannot be encoded.                                     *)
LEMMA OnWriteStep ==
  ASSUME IInv, OnWrite
  PROVE  /\ IInv'
         /\ \/ session'.closed = session.closed
            \/ SocketFailed /\ session'.closed
            \/ RefusesInTurn /\ session'.closed
<1> DEFINE t == mark_write_finished([session EXCEPT !.writes = Tail(@)])
           p == consume_write(t)
<1>1. /\ session \in Session /\ SessionInv(session)
      /\ session.writes \in Seq(WriteOp) /\ session.writes # << >>
      /\ session.write_queue \in Seq(Message)
      /\ IsComplete(session.writes)
      /\ strand \in {"idle", "after_data", "after_error"}
  BY DEF IInv, SessionInv, Session, OnWrite, IsComplete
<1>2. Tail(session.writes) = << >>
  <2>1. Len(session.writes) = 1
    BY <1>1, EmptySeq DEF SessionInv
  <2> QED BY <1>1, <2>1, TailOfOne
<1>3. t = [session EXCEPT !.writes = << >>, !.write_in_progress = FALSE]
  BY <1>1, <1>2 DEF mark_write_finished, Session
<1>4. /\ session' = IF Head(session.writes).status = "done"
                    THEN Core!schedule_operations(p) ELSE Core!close(t)
      /\ UNCHANGED <<strand, accepted, wire>>
  BY DEF OnWrite
<1>5. p = IF t.write_queue # << >>
          THEN [t EXCEPT !.write_queue = Tail(@)] ELSE t
  BY DEF consume_write, has_pending_writes
<1> HIDE DEF p, t
<1>6. /\ t \in Session /\ t.writes = << >> /\ ~t.write_in_progress
      /\ t.write_queue = session.write_queue /\ t.closed = session.closed
      /\ t.reads = session.reads /\ t.enable_can_fd = session.enable_can_fd
      /\ t.read_in_progress = session.read_in_progress
  BY <1>1, <1>3, EmptySeq DEF Session
<1>7. SessionInv(t)
  BY <1>1, <1>6, EmptySeq DEF SessionInv, IsPending
<1>8. CASE Head(session.writes).status # "done"
  <2>1. /\ session' = Core!close(t)
        /\ strand' \in {"idle", "after_data", "after_error"}
    BY <1>1, <1>4, <1>8
  <2>2. IInv' /\ session'.closed
    BY <1>4, <1>7, <2>1, ClosingStep
  <2> QED BY <1>1, <1>8, <2>2 DEF SocketFailed
<1>9. CASE Head(session.writes).status = "done"
  <2>1. /\ p \in Session /\ p.writes = << >> /\ ~p.write_in_progress
        /\ p.closed = session.closed
        /\ p.reads = session.reads /\ p.enable_can_fd = session.enable_can_fd
        /\ p.read_in_progress = session.read_in_progress
        /\ session.write_queue # << >> =>
             p.write_queue = Tail(session.write_queue)
        /\ session.write_queue = << >> => p.write_queue = << >>
    BY <1>1, <1>5, <1>6, HeadTailProperties DEF Session
  <2>2. SessionInv(p)
    BY <1>1, <2>1, EmptySeq DEF SessionInv, IsPending
  <2>3. session' = Core!schedule_operations(p)
    BY <1>4, <1>9
  <2>4. /\ SessionInv(session') /\ Scheduled(session')
        /\ ~can_start_read(session')
        /\ \/ SameFrames(p, session')
           \/ session'.closed /\ RefusesHead(p)
    BY <2>2, <2>3, ScheduleKeeps
  <2>5. /\ SessionInv(session)' /\ Scheduled(session)'
        /\ ~can_start_read(session)'
    BY <2>4 DEF can_start_read
  <2>6. ~session.closed => Left(session) = p.write_queue
    BY <1>1, <1>9, <2>1 DEF SessionInv, Left
  <2>7. (~session.closed => Balanced(accepted, wire, session))'
    <3>1. SUFFICES ASSUME ~session'.closed
                   PROVE  Balanced(accepted, wire, session)'
      OBVIOUS
    <3>2. SameFrames(p, session') /\ ~session.closed
      BY <2>1, <2>4, <3>1 DEF SameFrames
    <3>3. Left(session') = Left(session)
      BY <2>1, <2>6, <3>2 DEF SameFrames, Left
    <3> QED BY <1>4, <3>2, <3>3 DEF IInv, Balanced
  <2>8. IInv'
    BY <1>1, <1>4, <2>5, <2>7 DEF IInv
  <2>9. CASE SameFrames(p, session')
    BY <2>1, <2>8, <2>9 DEF SameFrames
  <2>10. CASE session'.closed /\ RefusesHead(p)
    <3>1. /\ ~session.closed /\ Left(session) # << >>
          /\ ~can_encode(Head(Left(session)), session.enable_can_fd)
      BY <2>1, <2>6, <2>10 DEF RefusesHead
    <3>2. RefusesInTurn
      BY <3>1, NextOut DEF RefusesInTurn, Refused
    <3> QED BY <2>8, <2>10, <3>2
  <2> QED BY <2>4, <2>9, <2>10
<1> QED BY <1>8, <1>9
-----------------------------------------------------------------------------
(* The socket ends a read. *)
LEMMA ReadDecided ==
  ASSUME IInv, IsPending(session.reads), NEW op \in ReadOp,
         session' = [session EXCEPT !.reads = << op >> \o Tail(@)],
         UNCHANGED <<strand, accepted, wire>>
  PROVE  IInv' /\ SameFrames(session, session')
<1> DEFINE r == << op >>
           t == [session EXCEPT !.reads = r]
<1>1. /\ session \in Session /\ SessionInv(session) /\ ~session.closed
      /\ session.reads \in Seq(ReadOp) /\ session.reads # << >>
      /\ strand \in {"idle", "after_data", "after_error"}
  BY DEF IInv, SessionInv, Session, IsPending
<1>2. Len(session.reads) = 1
  BY <1>1, EmptySeq DEF SessionInv
<1>3. r \in Seq(ReadOp) /\ Len(r) = 1 /\ << op >> \o Tail(session.reads) = r
  BY <1>1, <1>2, ReplacedOne
<1>4. session' = t
  BY <1>3
<1> HIDE DEF r
<1>5. /\ t \in Session /\ t.reads = r /\ t.closed = session.closed
      /\ t.read_in_progress = session.read_in_progress
      /\ t.read_enabled = session.read_enabled
      /\ t.write_in_progress = session.write_in_progress
      /\ t.write_queue = session.write_queue /\ t.writes = session.writes
  BY <1>1, <1>3 DEF Session
<1> HIDE DEF t
<1>6. SessionInv(t) /\ SameFrames(session, t)
  BY <1>1, <1>2, <1>3, <1>5 DEF SessionInv, SameFrames, Left
<1>7. can_start_read(t) => can_start_read(session)
  BY <1>5 DEF can_start_read
<1> QED BY <1>1, <1>4, <1>5, <1>6, <1>7, QuietStep

(* A read brings a frame or something that is none, or it fails.           *)
LEMMA SocketReadStep ==
  ASSUME IInv,
         \/ \E raw \in Incoming \cup {NoFrame} : SocketReads(raw)
         \/ SocketReadFails
  PROVE  IInv' /\ SameFrames(session, session')
<1>1. ASSUME IsPending(session.reads) PROVE Head(session.reads) \in ReadOp
  BY <1>1, HeadTailProperties DEF IInv, SessionInv, Session, IsPending
<1>2. ASSUME NEW raw \in Incoming \cup {NoFrame}, SocketReads(raw)
      PROVE  IInv' /\ SameFrames(session, session')
  <2> DEFINE op == [Head(session.reads) EXCEPT !.status = "done", !.raw = raw]
  <2>1. raw \in RawFrame \cup {NoFrame}
    BY CanSessionAssumption
  <2>2. op \in ReadOp
    BY <1>1, <1>2, <2>1 DEF SocketReads, ReadOp, Status
  <2>3. session' = [session EXCEPT !.reads = << op >> \o Tail(@)]
    BY <1>2 DEF SocketReads
  <2> HIDE DEF op
  <2> QED BY <1>2, <2>2, <2>3, ReadDecided DEF SocketReads
<1>3. CASE SocketReadFails
  <2> DEFINE op == [Head(session.reads) EXCEPT !.status = "failed"]
  <2>1. op \in ReadOp
    BY <1>1, <1>3 DEF SocketReadFails, ReadOp, Status
  <2>2. session' = [session EXCEPT !.reads = << op >> \o Tail(@)]
    BY <1>3 DEF SocketReadFails
  <2> HIDE DEF op
  <2> QED BY <1>3, <2>1, <2>2, ReadDecided DEF SocketReadFails
<1> QED BY <1>2, <1>3

(* The socket ends a write, which carries the front of the queue.          *)
LEMMA WriteDecided ==
  ASSUME IInv, IsPending(session.writes), NEW status \in {"done", "failed"},
         NEW t, t = [session EXCEPT !.writes =
                       << [Head(@) EXCEPT !.status = status] >> \o Tail(@)]
  PROVE  /\ SessionInv(t) /\ ~session.closed /\ ~t.closed
         /\ t.write_in_progress = session.write_in_progress
         /\ t.write_queue = session.write_queue
         /\ can_start_read(t) => can_start_read(session)
         /\ session.write_queue # << >>
         /\ Head(session.writes).raw \in RawFrame
         /\ Head(session.writes).raw = encode_frame(Head(session.write_queue))
         /\ can_encode(Head(session.write_queue), TRUE)
         /\ Left(session) = session.write_queue
         /\ Left(t) = IF status = "done" THEN Tail(session.write_queue)
                      ELSE session.write_queue
<1> DEFINE op == [Head(session.writes) EXCEPT !.status = status]
           w == << op >>
<1>1. /\ session \in Session /\ SessionInv(session) /\ ~session.closed
      /\ session.writes \in Seq(WriteOp) /\ session.writes # << >>
      /\ Head(session.writes).status = "pending"
  BY DEF IInv, SessionInv, Session, IsPending
<1>2. Len(session.writes) = 1 /\ Head(session.writes) \in WriteOp
  BY <1>1, EmptySeq, HeadTailProperties DEF SessionInv
<1>3. /\ op \in WriteOp /\ op.status = status
      /\ op.raw = Head(session.writes).raw
      /\ Head(session.writes).raw \in RawFrame
  BY <1>2 DEF WriteOp, Status
<1>4. t = [session EXCEPT !.writes = << op >> \o Tail(session.writes)]
  BY <1>1 DEF Session
<1> HIDE DEF op
<1>5. /\ w \in Seq(WriteOp) /\ Len(w) = 1 /\ Head(w) = op /\ w # << >>
      /\ << op >> \o Tail(session.writes) = w
  BY <1>1, <1>2, <1>3, ReplacedOne
<1>6. t = [session EXCEPT !.writes = w]
  BY <1>4, <1>5
<1> HIDE DEF w
<1>7. /\ t \in Session /\ t.writes = w /\ t.closed = session.closed
      /\ t.read_in_progress = session.read_in_progress
      /\ t.read_enabled = session.read_enabled
      /\ t.reads = session.reads
      /\ t.write_in_progress = session.write_in_progress
      /\ t.write_queue = session.write_queue
  BY <1>1, <1>5, <1>6 DEF Session
<1>8. /\ session.write_queue # << >>
      /\ Head(session.writes).raw = encode_frame(Head(session.write_queue))
      /\ can_encode(Head(session.write_queue), TRUE)
  BY <1>1 DEF SessionInv
<1>9. SessionInv(t) /\ ~t.closed
  BY <1>1, <1>2, <1>3, <1>5, <1>7, <1>8 DEF SessionInv, Session
<1>10. /\ Left(session) = session.write_queue
       /\ Left(t) = IF status = "done" THEN Tail(session.write_queue)
                    ELSE session.write_queue
  <2>1. Head(session.writes).status # "done"
    BY <1>1
  <2>2. t.writes # << >> /\ Head(t.writes).status = status
    BY <1>3, <1>5, <1>7
  <2>3. t.write_queue = session.write_queue
    BY <1>7
  <2> QED BY <2>1, <2>2, <2>3 DEF Left
<1>11. can_start_read(t) => can_start_read(session)
  BY <1>7 DEF can_start_read
<1> QED BY <1>1, <1>3, <1>7, <1>8, <1>9, <1>10, <1>11

(* A write that fails leaves its frame in the queue.                       *)
LEMMA SocketWriteFailsStep ==
  ASSUME IInv, SocketWriteFails
  PROVE  IInv' /\ SameFrames(session, session')
<1> DEFINE t == [session EXCEPT !.writes =
                   << [Head(@) EXCEPT !.status = "failed"] >> \o Tail(@)]
<1>1. /\ IsPending(session.writes) /\ session' = t
      /\ UNCHANGED <<strand, accepted, wire>>
  BY DEF SocketWriteFails
<1>2. t = [session EXCEPT !.writes =
             << [Head(@) EXCEPT !.status = "failed"] >> \o Tail(@)]
  OBVIOUS
<1> HIDE DEF t
<1>3. /\ SessionInv(t) /\ ~session.closed /\ ~t.closed
      /\ t.write_in_progress = session.write_in_progress
      /\ t.write_queue = session.write_queue
      /\ can_start_read(t) => can_start_read(session)
      /\ Left(session) = session.write_queue /\ Left(t) = session.write_queue
  BY <1>1, <1>2, WriteDecided
<1>4. session \in Session /\ t \in Session
  BY <1>3 DEF IInv, SessionInv
<1>5. SameFrames(session, t)
  BY <1>3, <1>4 DEF SameFrames, Session
<1>6. strand' \in {"idle", "after_data", "after_error"}
  BY <1>1 DEF IInv
<1> QED BY <1>1, <1>3, <1>5, <1>6, QuietStep

(* A write that succeeds moves its frame from what is left to the wire.    *)
LEMMA SocketWritesStep ==
  ASSUME IInv, SocketWrites
  PROVE  IInv' /\ session'.closed = session.closed
<1> DEFINE t == [session EXCEPT !.writes =
                   << [Head(@) EXCEPT !.status = "done"] >> \o Tail(@)]
           q == session.write_queue
<1>1. /\ IsPending(session.writes) /\ session' = t
      /\ wire' = Append(wire, Head(session.writes).raw)
      /\ UNCHANGED <<strand, accepted>>
  BY DEF SocketWrites
<1>2. t = [session EXCEPT !.writes =
             << [Head(@) EXCEPT !.status = "done"] >> \o Tail(@)]
  OBVIOUS
<1> HIDE DEF t
<1>3. /\ SessionInv(t) /\ ~session.closed /\ ~t.closed
      /\ t.write_in_progress = session.write_in_progress
      /\ t.write_queue = q /\ q # << >>
      /\ can_start_read(t) => can_start_read(session)
      /\ Head(session.writes).raw \in RawFrame
      /\ Left(session) = q /\ Left(t) = Tail(q)
  BY <1>1, <1>2, WriteDecided
<1>4. /\ session \in Session /\ t \in Session /\ q \in Seq(Message)
      /\ wire \in Seq(RawFrame) /\ Scheduled(session)
  BY <1>3 DEF IInv, SessionInv, Session
<1>5. session'.closed = session.closed
  BY <1>1, <1>3, <1>4 DEF Session
<1>6. SessionInv(session') /\ Scheduled(session')
  BY <1>1, <1>3, <1>4 DEF Scheduled
<1>7. /\ SessionInv(session)' /\ Scheduled(session)'
      /\ (strand = "idle" => ~can_start_read(session))'
  BY <1>1, <1>3, <1>6 DEF IInv, can_start_read
<1>8. PICK gone \in Seq(Message) : Len(gone) = Len(wire) /\ accepted = gone \o q
  BY <1>3 DEF IInv, Balanced
<1> HIDE DEF q
<1>9. Head(q) \in Message
  BY <1>3, <1>4, HeadTailProperties
<1> DEFINE more == Append(gone, Head(q))
<1>10. more \in Seq(Message) /\ Len(more) = Len(gone) + 1
  BY <1>9, AppendProperties
<1>11. accepted = more \o Tail(q)
  BY <1>3, <1>4, <1>8, ConcatHeadTail
<1>12. wire' \in Seq(RawFrame) /\ Len(wire') = Len(wire) + 1
  BY <1>1, <1>3, <1>4, AppendProperties
<1> HIDE DEF more
<1>13. Left(session') = Tail(q)
  BY <1>1, <1>3
<1>14. Balanced(accepted', wire', session')
  BY <1>1, <1>8, <1>10, <1>11, <1>12, <1>13 DEF Balanced
<1>15. Balanced(accepted, wire, session)'
  BY <1>14 DEF Balanced, Left
<1> QED BY <1>1, <1>5, <1>7, <1>12, <1>15 DEF IInv
-----------------------------------------------------------------------------
(* The invariant holds of a new session. *)
LEMMA InitInv == Init => IInv
<1> SUFFICES ASSUME Init PROVE IInv
  OBVIOUS
<1>1. PICK fd \in BOOLEAN : session = open(NewSession, fd, TRUE)
  BY CanSessionAssumption DEF Init
<1>2. session = [NewSession EXCEPT !.is_open = TRUE, !.enable_can_fd = fd]
  BY <1>1 DEF open, NewSession
<1>3. /\ session \in Session /\ session.write_queue = << >>
      /\ session.reads = << >> /\ session.writes = << >>
      /\ ~session.read_in_progress /\ ~session.write_in_progress
      /\ ~session.closed /\ ~session.read_enabled
  BY <1>2, EmptySeq DEF NewSession, Session
<1>4. SessionInv(session) /\ Scheduled(session)
  BY <1>3, EmptySeq DEF SessionInv, Scheduled, IsPending
<1>5. << >> \in Seq(Message) /\ << >> \o << >> = << >>
  BY EmptySeq, ConcatEmptySeq
<1>6. Balanced(accepted, wire, session)
  BY <1>3, <1>5 DEF Init, Balanced, Left
<1> QED BY <1>3, <1>4, <1>5, <1>6, EmptySeq DEF Init, IInv, can_start_read

(* Every step keeps the invariant, leaves a closed session closed, and     *)
(* closes an open one only for one of the three reasons.                   *)
LEMMA Step ==
  ASSUME IInv, [Next]_vars
  PROVE  /\ IInv'
         /\ session.closed => session'.closed
         /\ ~session.closed /\ session'.closed =>
              Close \/ SocketFailed \/ RefusesInTurn
<1>1. CASE UNCHANGED vars
  BY <1>1 DEF vars, IInv, can_start_read, SessionInv, Scheduled, Balanced, Left
<1>2. CASE \/ \E set \in BOOLEAN : SetReadHandler(set)
           \/ StartReading
           \/ StopReading
           \/ \E enable_can_fd \in EnableCanFd, succeeds \in BOOLEAN :
                Open(enable_can_fd, succeeds)
  BY <1>2, CallStep DEF SameFrames
<1>3. ASSUME NEW m \in Message, Send(m)
      PROVE  /\ IInv'
             /\ session.closed => session'.closed
             /\ ~session.closed /\ session'.closed => RefusesInTurn
  <2>1. \/ session.closed /\ session' = session
        \/ ~session.closed /\ ~session'.closed
        \/ /\ ~session.closed /\ session'.closed
           /\ session.writes = << >> /\ session.write_queue = << >>
           /\ ~can_encode(m, session.enable_can_fd)
    BY <1>3, SendEffect DEF Send
  <2>2. CASE /\ ~session.closed /\ session'.closed
             /\ session.writes = << >> /\ session.write_queue = << >>
             /\ ~can_encode(m, session.enable_can_fd)
    <3>1. Left(session) = << >>
      BY <2>2 DEF Left
    <3>2. Len(accepted) = Len(wire)
      BY <2>2, <3>1, NextOut
    <3>3. RefusesInTurn
      BY <1>3, <2>2, <3>2 DEF RefusesInTurn, Refused
    <3> QED BY <1>3, <2>2, <3>3, SendStep
  <2> QED BY <1>3, <2>1, <2>2, SendStep
<1>4. CASE Close
  BY <1>4, CloseStep
<1>5. CASE OnRead
  BY <1>5, OnReadStep DEF SameFrames
<1>6. CASE ReadHandlerReturns
  BY <1>6, ReadHandlerReturnsStep DEF SameFrames
<1>7. CASE OnWrite
  BY <1>7, OnWriteStep
<1>8. CASE \/ \E raw \in Incoming \cup {NoFrame} : SocketReads(raw)
           \/ SocketReadFails
  BY <1>8, SocketReadStep DEF SameFrames
<1>9. CASE SocketWrites
  BY <1>9, SocketWritesStep
<1>10. CASE SocketWriteFails
  BY <1>10, SocketWriteFailsStep DEF SameFrames
<1> QED
  BY <1>1, <1>2, <1>3, <1>4, <1>5, <1>6, <1>7, <1>8, <1>9, <1>10
     DEF Next, User, Completion, Socket

(* The invariant holds throughout. *)
LEMMA SpecInv == Spec => []IInv
<1>1. IInv /\ [Next]_vars => IInv'
  BY Step
<1> QED BY <1>1, InitInv, PTL DEF Spec
-----------------------------------------------------------------------------
(* A SocketCAN session keeps its types, and a flag is up exactly while its *)
(* operation is outstanding, also when a frame that cannot be encoded      *)
(* closes the session from inside a call or a completion.                  *)
THEOREM TypeCorrect == Spec => []TypeOK
<1>1. IInv => TypeOK
  BY DEF IInv, SessionInv, TypeOK
<1> QED BY <1>1, SpecInv, PTL

(* Whenever the strand rests, nothing is left waiting for a call: the      *)
(* front of the queue is being written, and a session that is to read      *)
(* reads.  Nobody but the session itself would ever start them.            *)
WorkConserving ==
  strand = "idle" => ~can_start_write(session) /\ ~can_start_read(session)

(* A SocketCAN session is work conserving: whichever of its calls or       *)
(* completions ran last has started all that could be started.             *)
THEOREM Conserving == Spec => []WorkConserving
<1>1. IInv => WorkConserving
  BY DEF IInv, Scheduled, WorkConserving, can_start_write,
         has_pending_writes
<1> QED BY <1>1, SpecInv, PTL

(* Closing is final: afterwards no step, not even the rest of a handler    *)
(* that was under way, queues a frame or starts an operation.              *)
CloseIsFinal ==
  [][ session.closed =>
        /\ session'.closed
        /\ session'.write_queue = << >>
        /\ Len(session'.reads) <= Len(session.reads)
        /\ Len(session'.writes) <= Len(session.writes) ]_vars

(* No more is in progress in t than in s, and t is closed as s is. *)
Fewer(s, t) ==
  /\ t.closed = s.closed
  /\ t.read_in_progress  => s.read_in_progress
  /\ t.write_in_progress => s.write_in_progress

(* What a handler would do next with a session that is closed does nothing.*)
LEMMA ClosedRests ==
  ASSUME NEW s, s.closed
  PROVE  /\ Core!schedule_operations(s) = s /\ Core!close(s) = s
         /\ Core!start_reading(s) = s
         /\ \A m : Core!enqueue_write(s, m) = s
         /\ \A continuation : AfterRead(s, continuation) = s
BY DEF Core!schedule_operations, Core!close, Core!start_reading,
       Core!enqueue_write, can_start_write, can_start_read, AfterRead

(* No step of a closed session clears closed_ or starts an operation.      *)
LEMMA ClosedStep ==
  ASSUME IInv, [Next]_vars, session.closed
  PROVE  Fewer(session, session')
<1>1. /\ session \in Session /\ session.write_queue = << >>
      /\ ~IsPending(session.reads) /\ ~IsPending(session.writes)
  BY DEF IInv, SessionInv
<1>2. CASE session' = session
  BY <1>2 DEF Fewer
<1>3. CASE \E set \in BOOLEAN : SetReadHandler(set)
  BY <1>1, <1>3 DEF SetReadHandler, set_read_handler, Fewer, Session
<1>4. CASE \/ StartReading \/ Close \/ ReadHandlerReturns
           \/ \E m \in Message : Send(m)
  BY <1>2, <1>4, ClosedRests
     DEF StartReading, Close, ReadHandlerReturns, Send
<1>5. CASE StopReading
  BY <1>1, <1>5 DEF StopReading, stop_reading, Fewer, Session
<1>6. CASE OnRead
  <2> DEFINE t == mark_read_finished([session EXCEPT !.reads = Tail(@)])
  <2>1. Fewer(session, t)
    BY <1>1 DEF mark_read_finished, Fewer, Session
  <2>2. \/ session' = t
        \/ \E continuation : session' = AfterRead(t, continuation)
    BY <1>6 DEF OnRead
  <2> HIDE DEF t
  <2>3. t.closed
    BY <2>1 DEF Fewer
  <2> QED BY <2>1, <2>2, <2>3, ClosedRests
<1>7. CASE OnWrite
  <2> DEFINE t == mark_write_finished([session EXCEPT !.writes = Tail(@)])
  <2>1. Fewer(session, t) /\ t.write_queue = << >>
    BY <1>1 DEF mark_write_finished, Fewer, Session
  <2>2. \/ session' = Core!schedule_operations(consume_write(t))
        \/ session' = Core!close(t)
    BY <1>7 DEF OnWrite
  <2> HIDE DEF t
  <2>3. t.closed /\ consume_write(t) = t
    BY <2>1 DEF Fewer, consume_write, has_pending_writes
  <2> QED BY <2>1, <2>2, <2>3, ClosedRests
<1>8. CASE \E enable_can_fd \in EnableCanFd, succeeds \in BOOLEAN :
             Open(enable_can_fd, succeeds)
  BY <1>1, <1>8 DEF Open, open, Fewer, Session
<1>9. ~Socket
  BY <1>1 DEF Socket, SocketReads, SocketReadFails, SocketWrites,
              SocketWriteFails
<1> QED BY <1>2, <1>3, <1>4, <1>5, <1>6, <1>7, <1>8, <1>9
        DEF Next, vars, User, Completion

(* A SocketCAN session that is closed stays closed and idle, whatever calls *)
(* are made to it and whatever its outstanding operations come to.         *)
THEOREM CloseFinal == Spec => CloseIsFinal
<1>1. IInv /\ IInv' /\ [Next]_vars =>
        [ session.closed =>
            /\ session'.closed
            /\ session'.write_queue = << >>
            /\ Len(session'.reads) <= Len(session.reads)
            /\ Len(session'.writes) <= Len(session.writes) ]_vars
  <2> SUFFICES ASSUME IInv, IInv', [Next]_vars, session.closed
               PROVE  /\ session'.closed
                      /\ session'.write_queue = << >>
                      /\ Len(session'.reads) <= Len(session.reads)
                      /\ Len(session'.writes) <= Len(session.writes)
    OBVIOUS
  <2>1. Fewer(session, session')
    BY ClosedStep
  <2> QED BY <2>1 DEF IInv, SessionInv, Fewer
<1> QED BY <1>1, SpecInv, PTL DEF Spec, CloseIsFinal

(* The session closes only when its user closes it, when the socket failed *)
(* or brought no frame, or when it comes to a frame it cannot encode: that *)
(* one is the first that has not gone out, so none before it is lost.      *)
THEOREM ClosesOnlyForAReason == Spec => ClosesForAReason
<1>1. IInv /\ [Next]_vars =>
        [~session.closed /\ session'.closed =>
           Close \/ SocketFailed \/ RefusesInTurn]_vars
  BY Step
<1> QED BY <1>1, SpecInv, PTL DEF Spec, ClosesForAReason
-----------------------------------------------------------------------------
(* The wire, decoded. *)
Decoded(w) == [i \in DOMAIN w |-> decode_frame(w[i])]

(* One more frame on the wire is one more decoded. *)
LEMMA DecodedAppend ==
  ASSUME NEW w \in Seq(RawFrame), NEW raw \in RawFrame
  PROVE  /\ Len(Decoded(w)) = Len(w)
         /\ Decoded(Append(w, raw)) = Append(Decoded(w), decode_frame(raw))
<1> DEFINE d == Decoded(w)
           v == Append(w, raw)
           e == Decoded(v)
           f == Append(d, decode_frame(raw))
<1>1. Len(w) \in Nat /\ DOMAIN w = 1 .. Len(w)
  BY LenProperties
<1>2. /\ v \in Seq(RawFrame) /\ Len(v) = Len(w) + 1 /\ DOMAIN v = 1 .. Len(v)
      /\ \A i \in 1 .. Len(w) : v[i] = w[i]
      /\ v[Len(w) + 1] = raw
  BY AppendProperties, LenProperties
<1>3. d \in Seq(CanFrame) /\ Len(d) = Len(w)
      /\ \A i \in 1 .. Len(w) : d[i] = decode_frame(w[i])
  <2>1. \A i \in 1 .. Len(w) : decode_frame(w[i]) \in CanFrame
    BY <1>1, DecodeType
  <2>2. d = [i \in 1 .. Len(w) |-> decode_frame(w[i])]
    BY <1>1 DEF Decoded
  <2> QED BY <1>1, <2>1, <2>2, SeqDef
<1>4. e \in Seq(CanFrame) /\ Len(e) = Len(v)
      /\ \A i \in 1 .. Len(v) : e[i] = decode_frame(v[i])
  <2> HIDE DEF v
  <2>1. \A i \in 1 .. Len(v) : decode_frame(v[i]) \in CanFrame
    BY <1>2, DecodeType
  <2>2. e = [i \in 1 .. Len(v) |-> decode_frame(v[i])]
    BY <1>2 DEF Decoded
  <2>3. Len(v) \in Nat
    BY <1>1, <1>2
  <2> QED BY <2>1, <2>2, <2>3
<1> HIDE DEF d, e, v
<1>5. /\ f \in Seq(CanFrame) /\ Len(f) = Len(d) + 1
      /\ \A i \in 1 .. Len(d) : f[i] = d[i]
      /\ f[Len(d) + 1] = decode_frame(raw)
  BY <1>3, DecodeType, AppendProperties
<1> HIDE DEF f
<1>6. \A i \in 1 .. Len(e) : e[i] = f[i]
  BY <1>1, <1>2, <1>3, <1>4, <1>5
<1>7. e = f
  BY <1>1, <1>2, <1>3, <1>4, <1>5, <1>6, SeqEqual
<1> QED BY <1>3, <1>7 DEF d, e, f, v

(* A write that succeeds is the Transmit step of the link. *)
LEMMA TransmitStep ==
  ASSUME \A m \in Message : WellFormed(m), IInv, SocketWrites
  PROVE  Link!Transmit
<1> DEFINE t == [session EXCEPT !.writes =
                   << [Head(@) EXCEPT !.status = "done"] >> \o Tail(@)]
           raw == Head(session.writes).raw
           m == Head(session.write_queue)
<1>1. /\ IsPending(session.writes) /\ session' = t
      /\ wire' = Append(wire, raw) /\ accepted' = accepted
  BY DEF SocketWrites
<1>2. t = [session EXCEPT !.writes =
             << [Head(@) EXCEPT !.status = "done"] >> \o Tail(@)]
  OBVIOUS
<1> HIDE DEF t
<1>3. /\ ~session.closed /\ session.write_queue # << >>
      /\ raw \in RawFrame /\ raw = encode_frame(m)
      /\ can_encode(m, TRUE) /\ Left(session) = session.write_queue
  BY <1>1, <1>2, WriteDecided
<1>4. session.write_queue \in Seq(Message) /\ wire \in Seq(RawFrame)
  BY DEF IInv, SessionInv, Session
<1>5. m \in Message /\ m \in CanFrame
  BY <1>3, <1>4, HeadTailProperties, CanSessionAssumption
<1> HIDE DEF raw, m
<1>6. decode_frame(raw) = m
  BY <1>3, <1>5, DecodeEncode
<1>7. Len(wire) < Len(accepted) /\ accepted[Len(wire) + 1] = m
  BY <1>3, NextOut DEF m
<1>8. /\ Len(Decoded(wire)) = Len(wire)
      /\ Decoded(wire') = Append(Decoded(wire), m)
  BY <1>1, <1>3, <1>4, <1>6, DecodedAppend
<1>9. session'.closed = session.closed
  BY SocketWritesStep
<1> QED BY <1>1, <1>3, <1>7, <1>8, <1>9 DEF Link!Transmit, Decoded

(* send() accepts a frame or does not; one that closes the session shuts   *)
(* the link.                                                               *)
LEMMA AcceptStep ==
  ASSUME IInv, NEW m \in Message, Send(m), ~session'.closed
  PROVE  Link!Accept(m)
<1>1. ~session.closed
  BY SendEffect DEF Send
<1>2. session.closed = session'.closed
  BY <1>1, Step DEF IInv, SessionInv, Session, Next, User
<1>3. accepted' = Append(accepted, m) /\ wire' = wire
  BY DEF Send
<1> QED BY <1>1, <1>2, <1>3 DEF Link!Accept

(* A step that leaves both histories alone shuts the link or stutters. *)
LEMMA ShutStep ==
  ASSUME IInv, [Next]_vars, accepted' = accepted, wire' = wire
  PROVE  Link!Shut \/ UNCHANGED <<accepted, wire, session.closed>>
<1>1. session.closed \in BOOLEAN /\ session'.closed \in BOOLEAN
  BY Step DEF IInv, SessionInv, Session
<1>2. session.closed => session'.closed
  BY Step
<1> QED BY <1>1, <1>2 DEF Link!Shut

(* Every step of the session is a step of the link or a stutter. *)
LEMMA LinkStep ==
  ASSUME \A m \in Message : WellFormed(m), IInv, [Next]_vars
  PROVE  [Link!Next]_(Link!vars)
<1>1. ASSUME NEW m \in Message, Send(m), ~session'.closed
      PROVE  Link!Next
  BY <1>1, AcceptStep DEF Link!Next
<1>2. CASE SocketWrites
  BY <1>2, TransmitStep DEF Link!Next
<1>3. CASE accepted' = accepted /\ wire' = wire
  BY <1>3, ShutStep DEF Link!Next, Link!vars
<1>4. \/ \E m \in Message : Send(m) /\ ~session'.closed
      \/ SocketWrites
      \/ accepted' = accepted /\ wire' = wire
  BY DEF Next, vars, User, Completion, Open, SetReadHandler, StartReading,
         StopReading, Send, Close, OnRead, ReadHandlerReturns, OnWrite,
         Socket, SocketReads, SocketReadFails, SocketWriteFails
<1> QED BY <1>1, <1>2, <1>3, <1>4

(* Sending well-formed frames through a SocketCAN session implements the   *)
(* in-order link FifoLink: whoever decodes what is on the wire gets the    *)
(* frames that were accepted, in order and unaltered.                      *)
THEOREM ImplementsFifoLink ==
  ASSUME \A m \in Message : WellFormed(m)
  PROVE  Spec => IsFifoLink
<1>1. Init => Link!Init
  <2> SUFFICES ASSUME Init PROVE Link!Init
    OBVIOUS
  <2>1. wire = << >> /\ accepted = << >>
    BY DEF Init
  <2>2. [i \in DOMAIN wire |-> decode_frame(wire[i])] = << >>
    BY <2>1
  <2>3. session.closed = FALSE
    BY InitInv DEF Init, open, NewSession
  <2> QED BY <2>1, <2>2, <2>3 DEF Link!Init
<1>2. IInv /\ [Next]_vars => [Link!Next]_(Link!vars)
  BY LinkStep
<1> QED BY <1>1, <1>2, SpecInv, PTL DEF Spec, IsFifoLink, Link!Spec
=============================================================================
