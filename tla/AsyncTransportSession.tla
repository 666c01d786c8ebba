----------------------- MODULE AsyncTransportSession -----------------------
(***************************************************************************)
(* The core of a session, core/async_transport_session.hpp: the functions  *)
(* that call the transport.  The template parameter Derived, through which *)
(* the code reaches the hooks of the transport, becomes a set of constant  *)
(* operators; a transport defines them and takes an instance of this       *)
(* module.                                                                 *)
(***************************************************************************)
EXTENDS SessionClose

CONSTANTS
  can_start_read(_), can_start_write(_),   \* tests of the session
  do_read(_), do_write(_)                  \* start an operation

(* Write first, then read; the read is decided on what do_write left.      *)
schedule_operations(s) ==
  LET w == IF can_start_write(s) THEN do_write(s) ELSE s
  IN  IF can_start_read(w) THEN do_read(w) ELSE w

start_reading(s) ==
  IF s.closed THEN s
  ELSE schedule_operations([s EXCEPT !.read_enabled = TRUE])

enqueue_write_unscheduled(s, message) ==
  IF s.closed THEN s ELSE [s EXCEPT !.write_queue = Append(@, message)]
enqueue_write_unchecked(s, message) ==
  schedule_operations([s EXCEPT !.write_queue = Append(@, message)])
enqueue_write(s, message) ==
  IF s.closed THEN s
  ELSE schedule_operations([s EXCEPT !.write_queue = Append(@, message)])
=============================================================================
