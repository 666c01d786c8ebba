--------------------------- MODULE MCCanExchange ---------------------------
(* Instances of CanExchange for TLC: one id bit, frames of up to one byte  *)
(* (classic) and two (FD), and data_length up to one beyond.               *)
EXTENDS CanExchange

MCByte == {0, 1}

(* All frames whose bytes are equal and that are not marked as error frame,*)
(* a mark that encode_frame ignores.                                       *)
SomeFrames ==
  [id : CanId, data_length : 0 .. MaxLength,
   data : {[i \in 0 .. fd_data_size - 1 |-> byte] : byte \in Byte},
   extended_id : BOOLEAN, remote_frame : BOOLEAN, error_frame : {FALSE},
   fd_frame : BOOLEAN, bitrate_switch : BOOLEAN,
   error_state_indicator : BOOLEAN]

(* No filter, each single filter, and some pairs. *)
Pairs ==
  {{f, g} : f \in {h \in CanFilter : h.id = {} /\ h.mask = {}},
            g \in {h \in CanFilter : h.extended_id /\ h.mask # {}}}
SomeConfigs ==
  [enable_can_fd : BOOLEAN,
   filters : {{}} \cup {{f} : f \in CanFilter} \cup Pairs]
=============================================================================
