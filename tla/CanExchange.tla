---------------------------- MODULE CanExchange ----------------------------
(***************************************************************************)
(* What becomes of one frame between the users of several CAN sessions:    *)
(* the first user sends it, the kernel offers what was encoded to the      *)
(* socket of another session, which decodes it for its user; and that user *)
(* may be a gateway, which sends what it read on to another bus, and so    *)
(* forth.  The sessions' queues and handlers are in CanSession.            *)
(***************************************************************************)
EXTENDS CanCodec

CONSTANTS
  Frame,     \* frames the first user may send
  Config     \* configurations of the sessions: enable_can_fd and filters

ASSUME CanExchangeAssumption ==
  /\ Frame \subseteq CanFrame
  /\ Config \subseteq [enable_can_fd : BOOLEAN, filters : SUBSET CanFilter]

VARIABLES
  stage,     \* where the frame is
  config,    \* of the session that sent last, or of the one that reads
  frame,     \* what the first user sent
  line,      \* what was last encoded, from "line" on
  received   \* what was last decoded; before that, what is sent

exchangeVars == <<stage, config, frame, line, received>>

NoLine == [fd |-> FALSE, can_id |-> {}, len |-> 0, flags |-> {},
           data |-> [i \in 0 .. classic_data_size - 1 |-> 0]]

ExchangeTypeOK ==
  /\ stage \in {"given", "refused", "line", "dropped", "read"}
  /\ config \in Config
  /\ frame \in Frame
  /\ line \in RawFrame
  /\ received \in CanFrame

(* The filters of the session that sends first play no part. *)
ExchangeInit ==
  /\ stage = "given"
  /\ config \in {c \in Config : c.filters = {}}
  /\ frame \in Frame
  /\ line = NoLine
  /\ received = frame

(* A session encodes the frame it was given: the first one what its user   *)
(* sends, a gateway what it has read.                                      *)
Encode ==
  /\ stage \in {"given", "read"}
  /\ IF can_encode(received, config.enable_can_fd)
     THEN stage' = "line" /\ line' = encode_frame(received)
     ELSE stage' = "refused" /\ line' = line
  /\ UNCHANGED <<config, frame, received>>

Decode ==
  /\ stage = "line"
  /\ config' \in Config
  /\ IF Passes(line, config'.enable_can_fd, config'.filters)
     THEN stage' = "read" /\ received' = decode_frame(line)
     ELSE stage' = "dropped" /\ received' = received
  /\ UNCHANGED <<frame, line>>

(* A refused frame has closed its session, one that is dropped is gone.    *)
ExchangeNext == Encode \/ Decode

ExchangeSpec == ExchangeInit /\ [][ExchangeNext]_exchangeVars
-----------------------------------------------------------------------------
(* Properties. *)

(* A well-formed frame reaches every reader, over any number of gateways,  *)
(* as it was sent.                                                         *)
RoundTrip == stage = "read" /\ WellFormed(frame) => received = frame

(* Whatever was sent, well-formed or not, what is read is well-formed, and *)
(* a gateway that sends it on is not refused and puts the same bytes on    *)
(* the next bus.                                                           *)
Relayable ==
  stage = "read" =>
    /\ WellFormed(received)
    /\ can_encode(received, config.enable_can_fd)
    /\ encode_frame(received) = line

(* A reader loses no frame that one of its filters describes, apart from   *)
(* error frames and from FD frames it did not enable, and what it gets has *)
(* the id of one of its filters, and also the kinds if that filter matches *)
(* extended and remote frames.  A filter that does not match a kind is not *)
(* held to that: configure_socket leaves the flag out of its mask, so that *)
(* frames of the kind pass, against what CanFilter documents.              *)
FilteredAsDescribed ==
  /\ stage = "read" /\ config.filters # {} =>
       \E filter \in config.filters :
         /\ IdAgrees(filter, received)
         /\ filter.extended_id /\ filter.remote_frame =>
              Describes(filter, received)
  /\ stage = "dropped" =>
       \/ CAN_ERR_FLAG \in line.can_id
       \/ line.fd /\ ~config.enable_can_fd
       \/ \A filter \in config.filters :
            ~Describes(filter, decode_frame(line))
=============================================================================
