-------------------------- MODULE WebSocketSession -------------------------
(***************************************************************************)
(* The traffic of a WebSocket session on top of the core: the client's     *)
(* (transport/websocket/websocket_session.hpp) and, from the end of its    *)
(* handshake on, the server's (websocket_server_session.hpp), whose reads  *)
(* and writes are the same code.  The strand is as in SerialSession, and   *)
(* one thread runs the io_context.                                         *)
(*                                                                         *)
(* What differs from the other transports is the stream.  It writes a      *)
(* message in pieces, the next one started by a handler on the session's   *)
(* strand once the last has gone out, so that a close() may run in the     *)
(* middle of a message.  A client masks what it sends, that is, it copies  *)
(* each piece out of the message when the piece is started; a server hands *)
(* the message's own memory to the socket.  And the connection may be lost *)
(* without the session being told: an operation on it then fails, if there *)
(* is one.                                                                 *)
(***************************************************************************)
EXTENDS SessionState, AsyncOperations, Naturals

CONSTANTS
  Role,          \* the kinds of session
  Message,       \* the messages that can be sent
  Pieces,        \* in how many pieces the stream sends each
  Freed,         \* what the memory of a message holds when it is freed
  MaxSends       \* bound: messages accepted in a behavior

ASSUME WebSocketSessionAssumption ==
  /\ Role \subseteq {"client", "server"}
  /\ Pieces \in [Message -> Nat \ {0}]
  /\ Freed \notin Message
  /\ MaxSends \in Nat

VARIABLES
  session,       \* the session object and its outstanding operations
  strand,        \* "idle", or the rest of the read completion in progress
  accepted,      \* history: messages taken by the send queue
  wire           \* history: what the stream has sent, counting whole messages

vars == <<session, strand, accepted, wire>>

(* A write: how many pieces are still to be started, and what the pieces   *)
(* so far were taken from.                                                 *)
ReadOp  == [status : Status]
WriteOp ==
  [status : Status, left : Nat, sources : SUBSET (Message \cup {Freed})]

Session ==
  [role : {"client", "server"}, read_handler : BOOLEAN,
   write_queue : Seq(Message), read_enabled : BOOLEAN,
   read_in_progress : BOOLEAN, write_in_progress : BOOLEAN,
   closed : BOOLEAN, is_open : BOOLEAN, connected : BOOLEAN,
   reads : Seq(ReadOp), writes : Seq(WriteOp)]

(* A stream allows one read and one write at a time. *)
TypeOK ==
  /\ session \in Session
  /\ Len(session.reads) <= 1 /\ Len(session.writes) <= 1
  /\ strand \in {"idle", "after_data", "after_error"}
  /\ accepted \in Seq(Message)
  /\ wire \in Seq(Message \cup {Freed})
-----------------------------------------------------------------------------
(* The stream. *)

InitialStatus(s) == IF s.is_open THEN "pending" ELSE "failed"

(* What the pointer into the queue that a write keeps leads to.  A client  *)
(* follows it when it starts a piece, a server when the piece goes out.    *)
Front(s)    == IF has_pending_writes(s) THEN current_write(s) ELSE Freed
Copies(s)   == IF s.role = "client" THEN {Front(s)} ELSE {}
Gathers(s)  == IF s.role = "server" THEN {Front(s)} ELSE {}

async_read(s) == [s EXCEPT !.reads = Append(@, [status |-> InitialStatus(s)])]

async_write(s, message) ==
  [s EXCEPT !.writes = Append(@,
     [status |-> InitialStatus(s), left |-> Pieces[message] - 1,
      sources |-> Copies(s)])]

HasMore(op) == op.status = "done" /\ op.left > 0

next_piece(s) ==
  [s EXCEPT !.writes =
     << [status |-> InitialStatus(s), left |-> Head(@).left - 1,
         sources |-> Head(@).sources \cup Copies(s)] >>]
-----------------------------------------------------------------------------
(* Member functions of WebSocketSession and WebSocketServerSession.  The   *)
(* server's close_transport() also calls the close handler: see            *)
(* WebSocketServer.                                                        *)

can_start_read(s)  == s.read_enabled /\ ~s.read_in_progress /\ ~s.closed

can_start_write_overlapping(s) == has_pending_writes(s) /\ ~s.closed
can_start_write(s) == ~s.write_in_progress /\ has_pending_writes(s) /\ ~s.closed

close_transport(s) ==
  [s EXCEPT !.is_open = FALSE, !.connected = FALSE,
            !.reads = Aborted(@), !.writes = Aborted(@)]

do_read(s) == async_read(mark_read_started(s))

do_write(s) ==
  IF has_pending_writes(s) THEN async_write(mark_write_started(s), current_write(s))
                           ELSE s

Core == INSTANCE AsyncTransportSession

NewSession(role) ==
  [role |-> role, read_handler |-> FALSE, write_queue |-> << >>,
   read_enabled |-> FALSE, read_in_progress |-> FALSE,
   write_in_progress |-> FALSE, closed |-> FALSE,
   is_open |-> FALSE, connected |-> FALSE,
   reads |-> << >>, writes |-> << >>]

(* create() hands out a client that has connected and shaken hands, the    *)
(* server's session handler a session that has; the user of neither sees   *)
(* one whose opening failed.                                               *)
Init ==
  /\ \E role \in Role :
       session = [NewSession(role) EXCEPT !.is_open = TRUE, !.connected = TRUE]
  /\ strand = "idle"
  /\ accepted = << >>
  /\ wire = << >>
-----------------------------------------------------------------------------
(* Operations of the user: on the idle strand, or inline in the handler.   *)

SetReadHandler(set) ==
  /\ session' = set_read_handler(session, set)
  /\ UNCHANGED <<strand, accepted, wire>>

StartReading ==
  /\ session' = Core!start_reading(session)
  /\ UNCHANGED <<strand, accepted, wire>>

StopReading ==
  /\ session' = stop_reading(session)
  /\ UNCHANGED <<strand, accepted, wire>>

Send(message) ==
  /\ Len(accepted) < MaxSends
  /\ session' = Core!enqueue_write(session, message)
  /\ accepted' = IF session.closed THEN accepted ELSE Append(accepted, message)
  /\ UNCHANGED <<strand, wire>>

Close ==
  /\ session' = Core!close(session)
  /\ UNCHANGED <<strand, accepted, wire>>
-----------------------------------------------------------------------------
(* Completion handlers, which run on the idle strand. *)

AfterRead_unclosed(s, continuation) == Core!schedule_operations(s)
AfterRead(s, continuation) ==
  IF continuation = "after_data" THEN Core!schedule_operations(s)
                                 ELSE Core!close(s)

OnRead ==
  /\ strand = "idle"
  /\ IsComplete(session.reads)
  /\ LET s    == mark_read_finished([session EXCEPT !.reads = Tail(@)])
         rest == IF Head(session.reads).status = "done"
                 THEN "after_data" ELSE "after_error"
     IN  /\ session' = IF s.read_handler THEN s ELSE AfterRead(s, rest)
         /\ strand' = IF s.read_handler THEN rest ELSE "idle"
  /\ UNCHANGED <<accepted, wire>>

ReadHandlerReturns ==
  /\ strand # "idle"
  /\ session' = AfterRead(session, strand)
  /\ strand' = "idle"
  /\ UNCHANGED <<accepted, wire>>

(* The stream's own handler between two pieces of a message. *)
OnPiece ==
  /\ strand = "idle"
  /\ IsComplete(session.writes)
  /\ HasMore(Head(session.writes))
  /\ session' = next_piece(session)
  /\ UNCHANGED <<strand, accepted, wire>>

OnWrite ==
  /\ strand = "idle"
  /\ IsComplete(session.writes)
  /\ ~HasMore(Head(session.writes))
  /\ LET s == mark_write_finished([session EXCEPT !.writes = Tail(@)])
     IN  session' = IF Head(session.writes).status = "done"
                    THEN Core!schedule_operations(consume_write(s))
                    ELSE Core!close(s)
  /\ UNCHANGED <<strand, accepted, wire>>
-----------------------------------------------------------------------------
(* The connection. *)

StreamReads ==
  /\ session.connected
  /\ IsPending(session.reads)
  /\ session' = [session EXCEPT !.reads = << [status |-> "done"] >>]
  /\ UNCHANGED <<strand, accepted, wire>>

(* The peer closed the connection, it was lost, or a message was too big.  *)
StreamReadFails ==
  /\ IsPending(session.reads)
  /\ session' = [session EXCEPT !.reads = << [status |-> "failed"] >>]
  /\ UNCHANGED <<strand, accepted, wire>>

(* With its last piece a message is whole, if all came from one message.   *)
StreamWrites ==
  /\ session.connected
  /\ IsPending(session.writes)
  /\ LET op      == Head(session.writes)
         sources == op.sources \cup Gathers(session)
     IN  /\ session' = [session EXCEPT !.writes =
              << [op EXCEPT !.status = "done", !.sources = sources] >>]
         /\ wire' = IF op.left > 0 THEN wire
                    ELSE Append(wire, IF \E m \in Message : sources = {m}
                                      THEN CHOOSE m \in sources : TRUE
                                      ELSE Freed)
  /\ UNCHANGED <<strand, accepted>>

StreamWriteFails ==
  /\ IsPending(session.writes)
  /\ session' = [session EXCEPT !.writes = << [Head(@) EXCEPT !.status = "failed"] >>]
  /\ UNCHANGED <<strand, accepted, wire>>

(* Nobody tells the session. *)
ConnectionLost ==
  /\ session.connected
  /\ session' = [session EXCEPT !.connected = FALSE]
  /\ UNCHANGED <<strand, accepted, wire>>
-----------------------------------------------------------------------------
User ==
  \/ \E set \in BOOLEAN : SetReadHandler(set)
  \/ StartReading
  \/ StopReading
  \/ \E message \in Message : Send(message)
  \/ Close

Completion == OnRead \/ ReadHandlerReturns \/ OnPiece \/ OnWrite

Connection ==
  \/ StreamReads \/ StreamReadFails
  \/ StreamWrites \/ StreamWriteFails
  \/ ConnectionLost

Next == User \/ Completion \/ Connection

Spec == Init /\ [][Next]_vars

(* Queued handlers are run, read handlers return, the peer takes what is   *)
(* sent to it or the write fails, and a read on a lost connection fails.   *)
(* No peer has to send anything.                                           *)
Fairness ==
  /\ SF_vars(OnRead)
  /\ SF_vars(OnPiece \/ OnWrite)
  /\ WF_vars(ReadHandlerReturns)
  /\ WF_vars(StreamWrites \/ StreamWriteFails)
  /\ WF_vars(~session.connected /\ StreamReadFails)

FairSpec == Spec /\ Fairness
-----------------------------------------------------------------------------
(* Properties. *)

(* A write takes no piece from a message that is not there any more.  This *)
(* is what current_write() promises, "the data to be written".             *)
PiecesAreLive ==
  \A i \in DOMAIN session.writes : Freed \notin session.writes[i].sources

(* Sending is an in-order link (FifoLink): messages go out whole, each the *)
(* one that was accepted, although the stream sends them in pieces; one    *)
(* that close() cut off is not delivered.                                  *)
Link == INSTANCE FifoLink WITH sent <- wire, shut <- session.closed
IsFifoLink == Link!Spec

(* Every accepted message goes out, also to a peer that says nothing and   *)
(* whether or not the user reads, unless the session is closed.            *)
AcceptedIsWritten ==
  \A k \in 1 .. MaxSends :
    Len(accepted) >= k ~> Len(wire) >= k \/ session.closed

(* A session that loses its connection closes, if an operation is pending  *)
(* then or started later.  (One that neither reads nor writes does not:    *)
(* nothing in the code looks.)                                             *)
LossIsNoticed ==
  ~session.connected /\ (IsPending(session.reads) \/ IsPending(session.writes))
    ~> session.closed
=============================================================================
