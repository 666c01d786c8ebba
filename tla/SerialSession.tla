--------------------------- MODULE SerialSession ---------------------------
(***************************************************************************)
(* A serial port session (transport/serial/serial_session.hpp) on top of   *)
(* the core of AsyncTransportSession, together with the port it drives.    *)
(*                                                                         *)
(* Every public operation is dispatched to the session's strand, so its    *)
(* body runs alone: either as a handler of its own, or inline, when the    *)
(* caller is already on the strand, that is, inside the read handler.  The *)
(* variable strand says which.  While a read completion is calling the     *)
(* read handler, strand holds what that completion still has to do when    *)
(* the handler returns; the operations the handler calls take place in     *)
(* between, in any number and order.                                       *)
(*                                                                         *)
(* The order in which calls from other threads reach the strand is         *)
(* arbitrary, so a call is one step, taken when its handler runs.  The     *)
(* port completes an outstanding operation at any time; the completion     *)
(* handler runs later, and other handlers may run in between.              *)
(*                                                                         *)
(* The strand orders the handlers, not the port: when several threads run  *)
(* the io_context, one of them may carry out an outstanding operation      *)
(* while another is inside a handler.  The handlers touch what an          *)
(* operation uses only in close(), which frees the queue before it closes  *)
(* the port; with SeveralThreads these are two steps, and session.closing  *)
(* says that the strand is between them.                                   *)
(***************************************************************************)
EXTENDS SessionState, AsyncOperations, Naturals

CONSTANTS
  Message,       \* what can be sent
  Freed,         \* what the port reads through a pointer to a freed message
  BufferSize,    \* the read buffer sizes used, in bytes
  Mode,          \* the duplex modes used
  MaxSends,      \* bound: messages accepted in a behavior
  SeveralThreads,\* does more than one thread run the io_context?
  Reopens,       \* may open() be called again on the session?
  LiveConfig     \* may apply_config() be called on the running session?

ASSUME SerialAssumption ==
  /\ Freed \notin Message
  /\ BufferSize \subseteq Nat \ {0}
  /\ Mode \subseteq {"full_duplex", "half_duplex"}
  /\ MaxSends \in Nat
  /\ SeveralThreads \in BOOLEAN
  /\ Reopens \in BOOLEAN
  /\ LiveConfig \in BOOLEAN

VARIABLES
  session,       \* the session object and its outstanding operations
  strand,        \* "idle", or the rest of the read completion in progress
  accepted,      \* history: messages put in the send queue
  wire,          \* history: messages the port has written out
  unreported     \* history: bytes the port read that no handler was given

vars == <<session, strand, accepted, wire, unreported>>

DuplexMode == {"full_duplex", "half_duplex"}
ReadOp     == [status : Status, room : Nat, bytes : Nat]
WriteOp    == [status : Status, message : Message]
Config     == [duplex_mode : Mode, read_buffer_size : BufferSize \cup {0}]

Session ==
  [read_handler : BOOLEAN, write_queue : Seq(Message), read_enabled : BOOLEAN,
   read_in_progress : BOOLEAN, write_in_progress : BOOLEAN, closed : BOOLEAN,
   duplex_mode : DuplexMode, read_buffer : Nat, read_pause_for_write : BOOLEAN,
   closing : BOOLEAN,
   is_open : BOOLEAN, reads : Seq(ReadOp), writes : Seq(WriteOp)]

TypeOK ==
  /\ session \in Session
  /\ strand \in {"idle", "after_data", "after_error"}
  /\ accepted \in Seq(Message)
  /\ wire \in Seq(Message \cup {Freed})
  /\ unreported \in Nat
-----------------------------------------------------------------------------
(* The serial_port object, as the session uses it.  An operation started   *)
(* on a port that is not open fails.                                       *)

async_read_some(s) ==
  [s EXCEPT !.reads = Append(@,
     [status |-> IF s.is_open THEN "pending" ELSE "failed",
      room |-> s.read_buffer, bytes |-> 0])]

async_write(s, m) ==
  [s EXCEPT !.writes = Append(@,
     [status |-> IF s.is_open THEN "pending" ELSE "failed", message |-> m])]

cancel(s) == [s EXCEPT !.reads = Aborted(@), !.writes = Aborted(@)]
-----------------------------------------------------------------------------
(* Member functions of SerialSession. *)

can_start_read_unturned(s) ==
  s.read_enabled /\ ~s.read_in_progress /\ ~s.closed
can_start_read(s) ==
  /\ s.read_enabled /\ ~s.read_in_progress /\ ~s.closed
  /\ s.duplex_mode = "half_duplex" =>
       ~s.write_in_progress /\ ~has_pending_writes(s)

can_start_write_unturned(s) ==
  ~s.write_in_progress /\ has_pending_writes(s) /\ ~s.closed
can_start_write(s) ==
  /\ ~s.write_in_progress /\ has_pending_writes(s) /\ ~s.closed
  /\ s.duplex_mode = "half_duplex" =>
       ~s.read_in_progress /\ ~s.read_pause_for_write

do_read(s) ==
  async_read_some([mark_read_started(s) EXCEPT !.read_pause_for_write = FALSE])

do_write(s) ==
  IF ~has_pending_writes(s) THEN s
  ELSE IF s.duplex_mode = "half_duplex" /\ s.read_in_progress
    THEN cancel([s EXCEPT !.read_pause_for_write = TRUE])
    ELSE async_write(mark_write_started(s), current_write(s))

close_transport_truncated(s) == [cancel(s) EXCEPT !.closing = FALSE]
close_transport(s) == [cancel(s) EXCEPT !.is_open = FALSE, !.closing = FALSE]

(* How close() reaches close_transport: at once, or as a step of its own.  *)
to_close_transport(s) ==
  IF SeveralThreads THEN [s EXCEPT !.closing = TRUE] ELSE close_transport(s)

Core == INSTANCE AsyncTransportSession
          WITH close_transport <- to_close_transport

Schedule(s) == Core!schedule_operations(s)

CloseSession(s) == Core!close(s)

set_duplex_mode(s, mode) == Schedule([s EXCEPT !.duplex_mode = mode])

set_read_buffer_size_unchecked(s, size) ==
  IF size = 0 THEN s ELSE [s EXCEPT !.read_buffer = size]
set_read_buffer_size(s, size) ==
  IF s.read_in_progress \/ size = 0 THEN s ELSE [s EXCEPT !.read_buffer = size]

(* succeeds: whether the port accepts its device path and its options. *)
apply_config(s, config, succeeds) ==
  IF ~s.is_open \/ ~succeeds \/ config.read_buffer_size = 0 THEN s
  ELSE [s EXCEPT !.duplex_mode = config.duplex_mode,
                 !.read_buffer = config.read_buffer_size]

open(s, config, succeeds) ==
  IF s.is_open \/ ~succeeds \/ config.read_buffer_size = 0 THEN s
  ELSE apply_config([s EXCEPT !.is_open = TRUE], config, succeeds)

default_read_buffer_size == 1024

NewSession ==
  [read_handler |-> FALSE, write_queue |-> << >>, read_enabled |-> FALSE,
   read_in_progress |-> FALSE, write_in_progress |-> FALSE, closed |-> FALSE,
   duplex_mode |-> "full_duplex", read_buffer |-> default_read_buffer_size,
   read_pause_for_write |-> FALSE, closing |-> FALSE,
   is_open |-> FALSE, reads |-> << >>, writes |-> << >>]

(* create() hands out the session only when open() succeeded. *)
Init ==
  /\ \E config \in Config :
       /\ session = open(NewSession, config, TRUE)
       /\ session.is_open
  /\ strand = "idle"
  /\ accepted = << >>
  /\ wire = << >>
  /\ unreported = 0
-----------------------------------------------------------------------------
(* Operations of the user: on the idle strand, or inline in the handler. *)

CanDispatch == ~session.closing

SetReadHandler(set) ==
  /\ CanDispatch
  /\ session' = set_read_handler(session, set)
  /\ UNCHANGED <<strand, accepted, wire, unreported>>

StartReading ==
  /\ CanDispatch
  /\ session' = Core!start_reading(session)
  /\ UNCHANGED <<strand, accepted, wire, unreported>>

StopReading ==
  /\ CanDispatch
  /\ session' = stop_reading(session)
  /\ UNCHANGED <<strand, accepted, wire, unreported>>

Send(m) ==
  /\ CanDispatch
  /\ Len(accepted) < MaxSends
  /\ session' = Core!enqueue_write(session, m)
  /\ accepted' = IF session.closed THEN accepted ELSE Append(accepted, m)
  /\ UNCHANGED <<strand, wire, unreported>>

Close ==
  /\ CanDispatch
  /\ session' = CloseSession(session)
  /\ UNCHANGED <<strand, accepted, wire, unreported>>

SetDuplexMode(mode) ==
  /\ CanDispatch
  /\ session' = set_duplex_mode(session, mode)
  /\ UNCHANGED <<strand, accepted, wire, unreported>>

SetReadBufferSize(size) ==
  /\ CanDispatch
  /\ session' = set_read_buffer_size(session, size)
  /\ UNCHANGED <<strand, accepted, wire, unreported>>

(* Public operations that do not go through the strand. *)
Open(config, succeeds) ==
  /\ Reopens
  /\ session' = open(session, config, succeeds)
  /\ UNCHANGED <<strand, accepted, wire, unreported>>

ApplyConfig(config, succeeds) ==
  /\ LiveConfig
  /\ session' = apply_config(session, config, succeeds)
  /\ UNCHANGED <<strand, accepted, wire, unreported>>
-----------------------------------------------------------------------------
(* Completion handlers, which run on the idle strand. *)

CanComplete == strand = "idle" /\ ~session.closing

(* The tail of the read completion, after the read handler. *)
AfterRead(s, continuation) ==
  IF continuation = "after_data" THEN Schedule(s) ELSE CloseSession(s)

(* How many bytes the completion copies out of the buffer for notify_read. *)
notified_unbounded(op) == op.room
notified(op) == op.bytes

OnRead ==
  /\ CanComplete
  /\ session.reads # << >>
  /\ Head(session.reads).status # "pending"
  /\ LET op   == Head(session.reads)
         s    == mark_read_finished([session EXCEPT !.reads = Tail(@)])
         rest == IF op.status = "done" THEN "after_data" ELSE "after_error"
     IN  IF s.read_pause_for_write /\ op.status = "aborted"
         THEN /\ session' = Schedule(s)
              /\ UNCHANGED <<strand, unreported>>
         ELSE /\ session' = IF s.read_handler THEN s ELSE AfterRead(s, rest)
              /\ strand' = IF s.read_handler THEN rest ELSE "idle"
              /\ unreported' = unreported - notified(op)
  /\ UNCHANGED <<accepted, wire>>

ReadHandlerReturns ==
  /\ strand # "idle"
  /\ ~session.closing
  /\ session' = AfterRead(session, strand)
  /\ strand' = "idle"
  /\ UNCHANGED <<accepted, wire, unreported>>

OnWrite ==
  /\ CanComplete
  /\ session.writes # << >>
  /\ Head(session.writes).status # "pending"
  /\ LET s == mark_write_finished([session EXCEPT !.writes = Tail(@)])
     IN  session' = IF Head(session.writes).status = "done"
                    THEN Schedule(consume_write(s))
                    ELSE CloseSession(s)
  /\ UNCHANGED <<strand, accepted, wire, unreported>>

CloseTransport ==
  /\ session.closing
  /\ session' = close_transport(session)
  /\ UNCHANGED <<strand, accepted, wire, unreported>>
-----------------------------------------------------------------------------
(* The port. *)

ReadPending  == session.reads # << >> /\ Head(session.reads).status = "pending"
WritePending == session.writes # << >> /\ Head(session.writes).status = "pending"

PortReads ==
  /\ ReadPending
  /\ \E n \in 1 .. Head(session.reads).room :
       /\ session' = [session EXCEPT !.reads =
            << [Head(@) EXCEPT !.status = "done", !.bytes = n] >> \o Tail(@)]
       /\ unreported' = unreported + n
  /\ UNCHANGED <<strand, accepted, wire>>

PortReadFails ==
  /\ ReadPending
  /\ session' = [session EXCEPT !.reads =
       << [Head(@) EXCEPT !.status = "failed"] >> \o Tail(@)]
  /\ UNCHANGED <<strand, accepted, wire, unreported>>

(* The operation holds a pointer to the message, not a copy: what goes out *)
(* is what the pointer leads to, the message while it is in the queue.     *)
Referenced(op) ==
  IF has_pending_writes(session) /\ current_write(session) = op.message
  THEN op.message ELSE Freed

PortWrites ==
  /\ WritePending
  /\ session' = [session EXCEPT !.writes =
       << [Head(@) EXCEPT !.status = "done"] >> \o Tail(@)]
  /\ wire' = Append(wire, Referenced(Head(session.writes)))
  /\ UNCHANGED <<strand, accepted, unreported>>

PortWriteFails ==
  /\ WritePending
  /\ session' = [session EXCEPT !.writes =
       << [Head(@) EXCEPT !.status = "failed"] >> \o Tail(@)]
  /\ UNCHANGED <<strand, accepted, wire, unreported>>
-----------------------------------------------------------------------------
User ==
  \/ \E set \in BOOLEAN : SetReadHandler(set)
  \/ StartReading
  \/ StopReading
  \/ \E m \in Message : Send(m)
  \/ Close
  \/ \E mode \in Mode : SetDuplexMode(mode)
  \/ \E size \in BufferSize \cup {0} : SetReadBufferSize(size)
  \/ \E config \in Config, succeeds \in BOOLEAN : Open(config, succeeds)
  \/ \E config \in Config, succeeds \in BOOLEAN : ApplyConfig(config, succeeds)

Completion == OnRead \/ ReadHandlerReturns \/ OnWrite \/ CloseTransport

Port == PortReads \/ PortReadFails \/ PortWrites \/ PortWriteFails

Next == User \/ Completion \/ Port

Spec == Init /\ [][Next]_vars

(* The strand runs its handlers in order of arrival, so a completion that  *)
(* was queued is run even when others keep the strand busy; read handlers  *)
(* return; and a write does not stay pending on the port for ever.  Nobody *)
(* makes the other end of the line talk.                                   *)
Fairness ==
  /\ SF_vars(OnRead)
  /\ SF_vars(OnWrite)
  /\ WF_vars(ReadHandlerReturns)
  /\ WF_vars(CloseTransport)
  /\ WF_vars(PortWrites \/ PortWriteFails)

FairSpec == Spec /\ Fairness
-----------------------------------------------------------------------------
(* Properties. *)

(* Each in-progress flag is up exactly while the one operation it stands   *)
(* for is outstanding: no handler path forgets to lower a flag, and no two *)
(* reads share the read buffer, no two writes the port.                    *)
FlagsMatchOperations ==
  /\ Len(session.reads)  = IF session.read_in_progress  THEN 1 ELSE 0
  /\ Len(session.writes) = IF session.write_in_progress THEN 1 ELSE 0

(* The message a write reads from stays at the front of the queue until    *)
(* the port is done with it, whatever is queued, closed or completed       *)
(* meanwhile: the operation holds only a pointer.                          *)
WriteBufferLive ==
  \A i \in DOMAIN session.writes :
    session.writes[i].status = "pending" =>
      /\ has_pending_writes(session)
      /\ current_write(session) = session.writes[i].message

(* While the session is open every accepted message is either on the wire  *)
(* or waiting in the queue, in one unbroken order: none is skipped, written*)
(* twice, or popped without having been written.                           *)
WriteDone == session.writes # << >> /\ Head(session.writes).status = "done"
Unwritten == IF WriteDone THEN Tail(session.write_queue) ELSE session.write_queue
NothingLostWhileOpen == ~session.closed => accepted = wire \o Unwritten

(* No lost wakeup: whenever the strand is idle, nothing that could be      *)
(* started has been left waiting for a later event to start it.            *)
WorkConserving ==
  strand = "idle" => ~can_start_write(session) /\ ~can_start_read(session)

(* The read buffer is not resized under an outstanding read, so what the   *)
(* port stores fits it and what the completion copies out is inside it.    *)
ReadBufferStable ==
  \A i \in DOMAIN session.reads :
    /\ session.reads[i].room = session.read_buffer
    /\ session.reads[i].bytes <= session.read_buffer

(* What an operation outstanding points to stays where it is: no call and  *)
(* no completion of another operation moves or resizes it.                 *)
BuffersStable == WriteBufferLive /\ ReadBufferStable

(* Every byte the port read is passed to notify_read exactly once, also    *)
(* when the session is stopped or closed between the read and its          *)
(* completion handler.                                                     *)
EveryByteReported ==
  unreported = IF session.reads = << >> THEN 0 ELSE Head(session.reads).bytes

(* A closed session has released its port, or is just about to. *)
ClosedPortIsClosed == session.closed => ~session.is_open \/ session.closing

(* What goes out on the line are messages, never memory that was freed     *)
(* under the operation.                                                    *)
WireCarriesMessages == wire \in Seq(Message)

(* do_write's branch that cancels a read to make way for a write is never  *)
(* taken: can_start_write refuses while a read is in progress.             *)
ReadNeverPaused == ~session.read_pause_for_write

(* In half duplex no step brings a read and a write together: both are in  *)
(* progress only when the mode was changed while they already were.        *)
HalfDuplexTurns ==
  [][ /\ session'.duplex_mode = "half_duplex"
      /\ session'.read_in_progress /\ session'.write_in_progress
      => session.read_in_progress /\ session.write_in_progress ]_vars

(* Closing is final: afterwards no step, not even the rest of a handler    *)
(* that was under way, queues a message or starts an operation.            *)
CloseIsFinal ==
  [][ session.closed =>
        /\ session'.closed
        /\ session'.write_queue = << >>
        /\ Len(session'.reads) <= Len(session.reads)
        /\ Len(session'.writes) <= Len(session.writes) ]_vars

(* Sending, as its user sees it, is an in-order link (FifoLink). *)
Link == INSTANCE FifoLink WITH sent <- wire, shut <- session.closed
IsFifoLink == Link!Spec

(* Every accepted message goes out, unless the session is closed first. *)
AcceptedIsWritten ==
  \A k \in 1 .. MaxSends :
    Len(accepted) >= k ~> Len(wire) >= k \/ session.closed

(* The same, if the other end of the line sends something whenever a read  *)
(* waits for it: in half duplex the turn then comes round.                 *)
WrittenIfAnswered == WF_vars(PortReads) => AcceptedIsWritten

(* And with no help from the other end, as long as the session stays in    *)
(* full duplex.                                                            *)
WrittenInFullDuplex ==
  \A k \in 1 .. MaxSends :
    Len(accepted) >= k ~>
      Len(wire) >= k \/ session.closed \/ session.duplex_mode = "half_duplex"

(* A closed session lets go: its last completions run, after which nothing *)
(* outstanding holds a reference to it.                                    *)
CloseDrains ==
  session.closed ~>
    /\ strand = "idle"
    /\ session.reads = << >>
    /\ session.writes = << >>
    /\ ~session.is_open
=============================================================================
