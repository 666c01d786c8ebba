---------------------------- MODULE AsyncSession ----------------------------
(***************************************************************************)
(* The deprecated session of core/async_session.hpp, a class of its own    *)
(* that shares no code with AsyncTransportSession, and its socket.         *)
(*                                                                         *)
(* Here every operation is posted to the strand, never run inline: a call  *)
(* made inside the read handler waits its turn like any other, so each     *)
(* completion handler is one step.  A write owns its message.  What the    *)
(* write completion does not own is the element it pops when it is done,   *)
(* which a close() may have taken: pop_front() on an empty deque is        *)
(* undefined.  The process may die of it, at once or whenever it next      *)
(* touches the deque, or go on; the session is closed by then and starts   *)
(* nothing more, so what the deque holds no longer matters.                *)
(***************************************************************************)
EXTENDS AsyncOperations, Naturals

CONSTANTS
  Message,       \* what can be sent
  BufferSize,    \* the read buffer sizes used, in bytes
  MaxSends       \* bound: messages accepted, and messages queued at a time

ASSUME AsyncSessionAssumption ==
  /\ BufferSize \subseteq Nat \ {0}
  /\ MaxSends \in Nat

VARIABLES
  session,       \* the session object and its outstanding operations
  process,       \* "running" or "crashed"
  close_called,  \* history: a close() of the user has run
  accepted,      \* history: messages queued by a session not yet closed
  wire           \* history: messages the socket has written out

vars == <<session, process, close_called, accepted, wire>>

DuplexMode == {"full_duplex", "half_duplex"}
ReadOp     == [status : Status, room : Nat]
WriteOp    == [status : Status, message : Message]

Session ==
  [read_handler : BOOLEAN, read_buffer : Nat, duplex_mode : DuplexMode,
   write_queue : Seq(Message), queue_broken : BOOLEAN,
   read_enabled : BOOLEAN, read_in_progress : BOOLEAN,
   write_in_progress : BOOLEAN, closed : BOOLEAN, is_open : BOOLEAN,
   reads : Seq(ReadOp), writes : Seq(WriteOp)]

(* A flag is up exactly while its operation is outstanding, and the buffer *)
(* of an outstanding read keeps its size.                                  *)
TypeOK ==
  /\ session \in Session
  /\ Len(session.reads)  = IF session.read_in_progress  THEN 1 ELSE 0
  /\ Len(session.writes) = IF session.write_in_progress THEN 1 ELSE 0
  /\ \A i \in DOMAIN session.reads : session.reads[i].room = session.read_buffer
  /\ process \in {"running", "crashed"}
  /\ close_called \in BOOLEAN
  /\ accepted \in Seq(Message)
  /\ wire \in Seq(Message)
-----------------------------------------------------------------------------
(* The private member functions.  An operation started on a socket that is *)
(* not open fails; closing the socket aborts what is pending.              *)

Started(s) == IF s.is_open THEN "pending" ELSE "failed"

can_start_read(s) ==
  /\ s.read_enabled /\ ~s.read_in_progress /\ ~s.closed
  /\ s.duplex_mode = "half_duplex" =>
       ~s.write_in_progress /\ s.write_queue = << >>

can_start_write(s) ==
  /\ ~s.write_in_progress /\ s.write_queue # << >> /\ ~s.closed
  /\ s.duplex_mode = "half_duplex" => ~s.read_in_progress

do_read(s) ==
  [s EXCEPT !.read_in_progress = TRUE,
            !.reads = Append(@, [status |-> Started(s), room |-> s.read_buffer])]

do_write(s) ==
  [s EXCEPT !.write_in_progress = TRUE,
            !.writes = Append(@, [status  |-> Started(s),
                                  message |-> Head(s.write_queue)])]

schedule_operations(s) ==
  LET w == IF can_start_write(s) THEN do_write(s) ELSE s
  IN  IF can_start_read(w) THEN do_read(w) ELSE w

(* close_socket with a bug: the queue is dropped on every way of closing.  *)
close_socket_clearing(s) ==
  IF s.closed THEN s
  ELSE [s EXCEPT !.closed = TRUE, !.is_open = FALSE, !.write_queue = << >>,
                 !.reads = Aborted(@), !.writes = Aborted(@)]
close_socket(s) ==
  IF s.closed THEN s
  ELSE [s EXCEPT !.closed = TRUE, !.is_open = FALSE,
                 !.reads = Aborted(@), !.writes = Aborted(@)]

pop_front(s) ==
  IF s.write_queue = << >> THEN [s EXCEPT !.queue_broken = TRUE]
                           ELSE [s EXCEPT !.write_queue = Tail(@)]
-----------------------------------------------------------------------------
(* The public operations, as their posted handlers. *)

open(s, succeeds) == IF succeeds /\ ~s.is_open THEN [s EXCEPT !.is_open = TRUE] ELSE s

set_duplex_mode(s, mode) == schedule_operations([s EXCEPT !.duplex_mode = mode])

set_read_handler(s, set) == [s EXCEPT !.read_handler = set]

set_read_buffer_size_unchecked(s, size) ==
  IF size = 0 THEN s ELSE [s EXCEPT !.read_buffer = size]
set_read_buffer_size(s, size) ==
  IF s.read_in_progress \/ size = 0 THEN s ELSE [s EXCEPT !.read_buffer = size]

start_reading(s) == schedule_operations([s EXCEPT !.read_enabled = TRUE])

stop_reading(s) == [s EXCEPT !.read_enabled = FALSE]

(* send with a bug: it forgets to schedule, or queues at the wrong end.    *)
send_unscheduled(s, message) == [s EXCEPT !.write_queue = Append(@, message)]
send_front(s, message) ==
  schedule_operations([s EXCEPT !.write_queue = <<message>> \o @])
send(s, message) ==
  schedule_operations([s EXCEPT !.write_queue = Append(@, message)])

close(s) ==
  close_socket([s EXCEPT !.read_enabled = FALSE, !.write_queue = << >>])

default_read_buffer_size == 1024

Init ==
  /\ session =
       [read_handler |-> FALSE, read_buffer |-> default_read_buffer_size,
        duplex_mode |-> "full_duplex",
        write_queue |-> << >>, queue_broken |-> FALSE,
        read_enabled |-> FALSE, read_in_progress |-> FALSE,
        write_in_progress |-> FALSE, closed |-> FALSE, is_open |-> FALSE,
        reads |-> << >>, writes |-> << >>]
  /\ process = "running"
  /\ close_called = FALSE
  /\ accepted = << >>
  /\ wire = << >>
-----------------------------------------------------------------------------
(* Steps that change the session and nothing else. *)
Becomes(s) ==
  /\ process = "running"
  /\ session' = s
  /\ UNCHANGED <<process, close_called, accepted, wire>>

Open(succeeds)          == Becomes(open(session, succeeds))
SetDuplexMode(mode)     == Becomes(set_duplex_mode(session, mode))
SetReadHandler(set)     == Becomes(set_read_handler(session, set))
SetReadBufferSize(size) == Becomes(set_read_buffer_size(session, size))
StartReading            == Becomes(start_reading(session))
StopReading             == Becomes(stop_reading(session))

(* A closed session still queues what it is given. *)
Send(message) ==
  /\ process = "running"
  /\ Len(accepted) < MaxSends
  /\ Len(session.write_queue) < MaxSends
  /\ session' = send(session, message)
  /\ accepted' = IF session.closed THEN accepted ELSE Append(accepted, message)
  /\ UNCHANGED <<process, close_called, wire>>

Close ==
  /\ process = "running"
  /\ session' = close(session)
  /\ close_called' = TRUE
  /\ UNCHANGED <<process, accepted, wire>>

(* The read handler is told, and whatever it calls is posted. *)
OnRead ==
  /\ IsComplete(session.reads)
  /\ LET s == [session EXCEPT !.read_in_progress = FALSE, !.reads = Tail(@)]
     IN  Becomes(IF Head(session.reads).status = "done"
                 THEN schedule_operations(s) ELSE close_socket(s))

OnWrite ==
  /\ IsComplete(session.writes)
  /\ LET s == [session EXCEPT !.write_in_progress = FALSE, !.writes = Tail(@)]
     IN  Becomes(IF Head(session.writes).status = "done"
                 THEN schedule_operations(pop_front(s)) ELSE close_socket(s))

Crash ==
  /\ session.queue_broken
  /\ process = "running"
  /\ process' = "crashed"
  /\ UNCHANGED <<session, close_called, accepted, wire>>
-----------------------------------------------------------------------------
(* The socket. *)

SocketReads(status) ==
  /\ IsPending(session.reads)
  /\ Becomes([session EXCEPT !.reads[1].status = status])

SocketWrites ==
  /\ process = "running"
  /\ IsPending(session.writes)
  /\ session' = [session EXCEPT !.writes[1].status = "done"]
  /\ wire' = Append(wire, Head(session.writes).message)
  /\ UNCHANGED <<process, close_called, accepted>>

SocketWriteFails ==
  /\ IsPending(session.writes)
  /\ Becomes([session EXCEPT !.writes[1].status = "failed"])
-----------------------------------------------------------------------------
User ==
  \/ \E succeeds \in BOOLEAN : Open(succeeds)
  \/ \E mode \in DuplexMode : SetDuplexMode(mode)
  \/ \E set \in BOOLEAN : SetReadHandler(set)
  \/ \E size \in BufferSize \cup {0} : SetReadBufferSize(size)
  \/ StartReading
  \/ StopReading
  \/ \E message \in Message : Send(message)
  \/ Close

Socket ==
  \/ \E status \in {"done", "failed"} : SocketReads(status)
  \/ SocketWrites
  \/ SocketWriteFails

Next == User \/ OnRead \/ OnWrite \/ Crash \/ Socket

Spec == Init /\ [][Next]_vars

(* A completion handler that is queued is run, and a write does not stay   *)
(* pending for ever.  Nobody makes the peer talk.                          *)
Fairness ==
  /\ WF_vars(OnRead)
  /\ WF_vars(OnWrite)
  /\ WF_vars(SocketWrites \/ SocketWriteFails)

FairSpec == Spec /\ Fairness
-----------------------------------------------------------------------------
(* Properties. *)

(* Only the user's own close() can make a write completion pop from an     *)
(* empty queue.  Errors on the socket cannot, in whatever order they and   *)
(* the completions come: a session that closes itself keeps its queue.     *)
BreaksOnlyByClose ==
  session.queue_broken => close_called /\ session.closed

(* Sending is an in-order link (FifoLink), up to the close, also when the  *)
(* completion of the last write pops something else.                       *)
Link == INSTANCE FifoLink WITH sent <- wire, shut <- session.closed
IsFifoLink == Link!Spec

(* In full duplex every accepted message goes out, with no help from the   *)
(* peer, unless the session is closed.                                     *)
WrittenInFullDuplex ==
  \A k \in 1 .. MaxSends :
    Len(accepted) >= k ~>
      Len(wire) >= k \/ session.closed \/ session.duplex_mode = "half_duplex"
=============================================================================
