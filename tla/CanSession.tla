----------------------------- MODULE CanSession -----------------------------
(***************************************************************************)
(* A SocketCAN session (transport/can/can_session.hpp) on top of the core, *)
(* together with its socket.  The strand is as in SerialSession: handlers  *)
(* run one at a time, calls made inside the read handler run inline, and   *)
(* strand holds what the read completion still has to do when the read     *)
(* handler returns.                                                        *)
(*                                                                         *)
(* Two things differ from a serial session.  A frame that cannot be        *)
(* encoded closes the session from inside do_write, that is, from inside   *)
(* whatever call or completion was scheduling.  And a write owns the bytes *)
(* it sends, so that close() may free the queue while one is pending:      *)
(* nothing the socket does between the two halves of close() can be told   *)
(* from the socket doing it just before, and close() is one step also when *)
(* several threads run the io_context.                                     *)
(***************************************************************************)
EXTENDS SessionState, AsyncOperations, CanCodec

CONSTANTS
  Message,       \* the frames that can be sent
  Incoming,      \* the raw frames the bus may bring
  EnableCanFd,   \* the values of enable_can_fd used
  MaxSends,      \* bound: frames accepted in a behavior
  Reopens        \* may open() be called again on the session?

ASSUME CanSessionAssumption ==
  /\ Message \subseteq CanFrame
  /\ Incoming \subseteq RawFrame
  /\ EnableCanFd \subseteq BOOLEAN
  /\ MaxSends \in Nat
  /\ Reopens \in BOOLEAN

VARIABLES
  session,       \* the session object and its outstanding operations
  strand,        \* "idle", or the rest of the read completion in progress
  accepted,      \* history: frames sent without closing the session at once
  wire           \* history: raw frames the socket has sent

vars == <<session, strand, accepted, wire>>

(* What a read may leave in the buffer: a frame, or a number of bytes that *)
(* is the size of none.                                                    *)
NoFrame == [size |-> "none"]
ReadOp  == [status : Status, raw : RawFrame \cup {NoFrame}]
WriteOp == [status : Status, raw : RawFrame]

Session ==
  [read_handler : BOOLEAN, write_queue : Seq(Message), read_enabled : BOOLEAN,
   read_in_progress : BOOLEAN, write_in_progress : BOOLEAN, closed : BOOLEAN,
   enable_can_fd : BOOLEAN,
   is_open : BOOLEAN, reads : Seq(ReadOp), writes : Seq(WriteOp)]

(* Each in-progress flag is up exactly while its operation is outstanding, *)
(* on the paths that close the session from inside a start as well.        *)
TypeOK ==
  /\ session \in Session
  /\ Len(session.reads)  = IF session.read_in_progress  THEN 1 ELSE 0
  /\ Len(session.writes) = IF session.write_in_progress THEN 1 ELSE 0
  /\ strand \in {"idle", "after_data", "after_error"}
  /\ accepted \in Seq(Message)
  /\ wire \in Seq(RawFrame)
-----------------------------------------------------------------------------
(* The stream_descriptor of the socket. *)

async_read_some(s) ==
  [s EXCEPT !.reads = Append(@,
     [status |-> IF s.is_open THEN "pending" ELSE "failed", raw |-> NoFrame])]

async_write(s, raw) ==
  [s EXCEPT !.writes = Append(@,
     [status |-> IF s.is_open THEN "pending" ELSE "failed", raw |-> raw])]
-----------------------------------------------------------------------------
(* Member functions of CanSession. *)

can_start_read(s)  == s.read_enabled /\ ~s.read_in_progress /\ ~s.closed
can_start_write(s) == ~s.write_in_progress /\ has_pending_writes(s) /\ ~s.closed

close_transport(s) ==
  [s EXCEPT !.is_open = FALSE, !.reads = Aborted(@), !.writes = Aborted(@)]

Closing == INSTANCE SessionClose

do_read(s) == async_read_some(mark_read_started(s))

do_write_unchecked(s) ==
  IF ~has_pending_writes(s) THEN s
  ELSE async_write(mark_write_started(s), encode_frame(current_write(s)))
do_write_dropping(s) ==
  IF ~has_pending_writes(s) THEN s
  ELSE IF ~can_encode(current_write(s), s.enable_can_fd) THEN consume_write(s)
  ELSE async_write(mark_write_started(s), encode_frame(current_write(s)))
do_write(s) ==
  IF ~has_pending_writes(s) THEN s
  ELSE IF ~can_encode(current_write(s), s.enable_can_fd) THEN Closing!close(s)
  ELSE async_write(mark_write_started(s), encode_frame(current_write(s)))

Core == INSTANCE AsyncTransportSession

(* succeeds: whether the socket could be made, configured and bound. *)
open(s, enable_can_fd, succeeds) ==
  IF s.is_open \/ ~succeeds THEN s
  ELSE [s EXCEPT !.is_open = TRUE, !.enable_can_fd = enable_can_fd]

NewSession ==
  [read_handler |-> FALSE, write_queue |-> << >>, read_enabled |-> FALSE,
   read_in_progress |-> FALSE, write_in_progress |-> FALSE, closed |-> FALSE,
   enable_can_fd |-> TRUE,
   is_open |-> FALSE, reads |-> << >>, writes |-> << >>]

Init ==
  /\ \E enable_can_fd \in EnableCanFd :
       session = open(NewSession, enable_can_fd, TRUE)
  /\ strand = "idle"
  /\ accepted = << >>
  /\ wire = << >>
-----------------------------------------------------------------------------
(* Operations of the user: on the idle strand, or inline in the handler. *)

SetReadHandler(set) ==
  /\ session' = set_read_handler(session, set)
  /\ UNCHANGED <<strand, accepted, wire>>

StartReading ==
  /\ session' = Core!start_reading(session)
  /\ UNCHANGED <<strand, accepted, wire>>

StopReading ==
  /\ session' = stop_reading(session)
  /\ UNCHANGED <<strand, accepted, wire>>

Send(frame) ==
  /\ Len(accepted) < MaxSends
  /\ session' = Core!enqueue_write(session, frame)
  /\ accepted' = IF session'.closed THEN accepted ELSE Append(accepted, frame)
  /\ UNCHANGED <<strand, wire>>

Close ==
  /\ session' = Core!close(session)
  /\ UNCHANGED <<strand, accepted, wire>>

(* Does not go through the strand. *)
Open(enable_can_fd, succeeds) ==
  /\ Reopens
  /\ session' = open(session, enable_can_fd, succeeds)
  /\ UNCHANGED <<strand, accepted, wire>>
-----------------------------------------------------------------------------
(* Completion handlers, which run on the idle strand. *)

AfterRead_closing(s, continuation) == Core!close(s)
AfterRead(s, continuation) ==
  IF continuation = "after_data" THEN Core!schedule_operations(s)
                                 ELSE Core!close(s)

(* A read that failed and one that brought no frame both end the session,  *)
(* after the read handler has been told.                                   *)
OnRead ==
  /\ strand = "idle"
  /\ IsComplete(session.reads)
  /\ LET op   == Head(session.reads)
         s    == mark_read_finished([session EXCEPT !.reads = Tail(@)])
         rest == IF op.status = "done" /\ op.raw # NoFrame
                 THEN "after_data" ELSE "after_error"
     IN  /\ session' = IF s.read_handler THEN s ELSE AfterRead(s, rest)
         /\ strand' = IF s.read_handler THEN rest ELSE "idle"
  /\ UNCHANGED <<accepted, wire>>

ReadHandlerReturns ==
  /\ strand # "idle"
  /\ session' = AfterRead(session, strand)
  /\ strand' = "idle"
  /\ UNCHANGED <<accepted, wire>>

OnWrite ==
  /\ strand = "idle"
  /\ IsComplete(session.writes)
  /\ LET s == mark_write_finished([session EXCEPT !.writes = Tail(@)])
     IN  session' = IF Head(session.writes).status = "done"
                    THEN Core!schedule_operations(consume_write(s))
                    ELSE Core!close(s)
  /\ UNCHANGED <<strand, accepted, wire>>
-----------------------------------------------------------------------------
(* The socket. *)

SocketReads(raw) ==
  /\ IsPending(session.reads)
  /\ session' = [session EXCEPT !.reads =
       << [Head(@) EXCEPT !.status = "done", !.raw = raw] >> \o Tail(@)]
  /\ UNCHANGED <<strand, accepted, wire>>

SocketReadFails ==
  /\ IsPending(session.reads)
  /\ session' = [session EXCEPT !.reads =
       << [Head(@) EXCEPT !.status = "failed"] >> \o Tail(@)]
  /\ UNCHANGED <<strand, accepted, wire>>

SocketWrites ==
  /\ IsPending(session.writes)
  /\ session' = [session EXCEPT !.writes =
       << [Head(@) EXCEPT !.status = "done"] >> \o Tail(@)]
  /\ wire' = Append(wire, Head(session.writes).raw)
  /\ UNCHANGED <<strand, accepted>>

SocketWriteFails ==
  /\ IsPending(session.writes)
  /\ session' = [session EXCEPT !.writes =
       << [Head(@) EXCEPT !.status = "failed"] >> \o Tail(@)]
  /\ UNCHANGED <<strand, accepted, wire>>
-----------------------------------------------------------------------------
User ==
  \/ \E set \in BOOLEAN : SetReadHandler(set)
  \/ StartReading
  \/ StopReading
  \/ \E frame \in Message : Send(frame)
  \/ Close
  \/ \E enable_can_fd \in EnableCanFd, succeeds \in BOOLEAN :
       Open(enable_can_fd, succeeds)

Completion == OnRead \/ ReadHandlerReturns \/ OnWrite

Socket ==
  \/ \E raw \in Incoming \cup {NoFrame} : SocketReads(raw)
  \/ SocketReadFails
  \/ SocketWrites
  \/ SocketWriteFails

Next == User \/ Completion \/ Socket

Spec == Init /\ [][Next]_vars

(* Queued completions are run, read handlers return, and a write does not  *)
(* stay pending for ever.  Nobody makes the bus bring anything.            *)
Fairness ==
  /\ SF_vars(OnRead)
  /\ SF_vars(OnWrite)
  /\ WF_vars(ReadHandlerReturns)
  /\ WF_vars(SocketWrites \/ SocketWriteFails)

FairSpec == Spec /\ Fairness
-----------------------------------------------------------------------------
(* Properties. *)

(* A session closes only because its user closes it, because the socket    *)
(* failed or brought no frame, or because a frame cannot be encoded and    *)
(* all frames accepted before that one have gone out.                      *)
SocketFailed ==
  \/ strand = "after_error"
  \/ /\ IsComplete(session.reads)
     /\ Head(session.reads).status # "done" \/ Head(session.reads).raw = NoFrame
  \/ IsComplete(session.writes) /\ Head(session.writes).status # "done"

Refused(frame) == ~can_encode(frame, session.enable_can_fd)
RefusesInTurn ==
  \/ Len(accepted) > Len(wire) /\ Refused(accepted[Len(wire) + 1])
  \/ /\ Len(accepted) = Len(wire)
     /\ \E frame \in Message : Refused(frame) /\ Send(frame)

ClosesForAReason ==
  [][ ~session.closed /\ session'.closed =>
        Close \/ SocketFailed \/ RefusesInTurn ]_vars

(* Sending, as seen by whoever decodes what is on the wire, is an in-order *)
(* link (FifoLink) that carries well-formed frames unaltered.              *)
Link == INSTANCE FifoLink
          WITH sent <- [i \in DOMAIN wire |-> decode_frame(wire[i])],
               shut <- session.closed
IsFifoLink == Link!Spec

(* Every accepted frame goes out, unless the session is closed first. *)
AcceptedIsWritten ==
  \A k \in 1 .. MaxSends :
    Len(accepted) >= k ~> Len(wire) >= k \/ session.closed
=============================================================================
