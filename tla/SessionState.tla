---------------------------- MODULE SessionState ----------------------------
(***************************************************************************)
(* The state of a session that does not depend on its transport: the send  *)
(* queue, the two in-progress flags, read_enabled_ and closed_, and the    *)
(* functions of core/async_transport_session.hpp that a transport's hooks  *)
(* and completion handlers call to change them.                            *)
(*                                                                         *)
(* A session is a record s with (at least) the fields                      *)
(*     read_handler, write_queue, read_enabled, read_in_progress,          *)
(*     write_in_progress, closed                                           *)
(* and a transport adds its own.  Every member function is an operator     *)
(* from the record before the call to the record after it, so that a       *)
(* handler is the composition of the calls it makes.                       *)
(*                                                                         *)
(* An operator named f_<participle>, next to f, is f with a bug in it.  No *)
(* definition uses these: they are put in the place of f to see that a     *)
(* property of the session notices.                                        *)
(***************************************************************************)
EXTENDS Sequences

has_pending_writes(s) == s.write_queue # << >>

(* The front element; the code's null result is has_pending_writes(s)      *)
(* being false, which every do_write tests first.                          *)
current_write_reversed(s) == s.write_queue[Len(s.write_queue)]
current_write(s) == Head(s.write_queue)

consume_write_forgotten(s) == s
consume_write(s) ==
  IF has_pending_writes(s) THEN [s EXCEPT !.write_queue = Tail(@)] ELSE s

mark_read_started(s)   == [s EXCEPT !.read_in_progress  = TRUE]
mark_read_finished(s)  == [s EXCEPT !.read_in_progress  = FALSE]
mark_write_started(s)  == [s EXCEPT !.write_in_progress = TRUE]
mark_write_finished_forgotten(s) == s
mark_write_finished(s) == [s EXCEPT !.write_in_progress = FALSE]

set_read_handler(s, set) == [s EXCEPT !.read_handler = set]

stop_reading(s) == [s EXCEPT !.read_enabled = FALSE]
=============================================================================
