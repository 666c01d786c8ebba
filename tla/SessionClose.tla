---------------------------- MODULE SessionClose ----------------------------
(***************************************************************************)
(* close() of core/async_transport_session.hpp.  It calls only one hook of *)
(* the transport, close_transport; the other hooks may themselves call it. *)
(***************************************************************************)
EXTENDS SessionState

CONSTANT close_transport(_)   \* abort the operations, release the transport

close_truncated(s) ==
  [s EXCEPT !.read_enabled = FALSE, !.write_queue = << >>, !.closed = TRUE]
close(s) ==
  IF s.closed THEN s
  ELSE close_transport([s EXCEPT !.read_enabled = FALSE,
                                 !.write_queue  = << >>,
                                 !.closed       = TRUE])
=============================================================================
