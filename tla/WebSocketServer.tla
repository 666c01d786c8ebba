-------------------------- MODULE WebSocketServer --------------------------
(***************************************************************************)
(* The WebSocket server (transport/websocket/websocket_server.hpp) and the *)
(* life of its sessions (websocket_server_session.hpp) from the accepted   *)
(* connection over the handshake to the close handler.  What a session     *)
(* sends and receives is left out: a session that is up may close at any   *)
(* time, because its user closes it or because a read or a write failed.   *)
(*                                                                         *)
(* The server has a strand and so has each session, and they call each     *)
(* other: the server creates, starts and closes sessions, a session tells  *)
(* the server through the handlers given to start() and                    *)
(* set_close_handler(), each of which dispatches to the server's strand.   *)
(* A function dispatched to a strand runs inline if the caller is on that  *)
(* strand, and also if the strand has nothing to do, and is queued         *)
(* otherwise.  What a session dispatches to the server goes to inbox here; *)
(* that it may run at once is the case of its being taken from there in    *)
(* the next step.  What is dispatched from the server's own strand runs    *)
(* inline, in the middle of the server's handler.                          *)
(*                                                                         *)
(* While the server's strand is calling the user's session handler,        *)
(* callback holds what is left to do when that returns; the user may call  *)
(* the server and the sessions from there.                                 *)
(***************************************************************************)
EXTENDS AsyncOperations, Naturals

CONSTANTS
  Connection,    \* the connections that may be made
  MaxStarts      \* bound: how often start() may take effect

ASSUME WebSocketServerAssumption == MaxStarts \in Nat

VARIABLES
  server,        \* the server object and its outstanding accepts
  callback,      \* "none", or the rest of the handler that made it
  inbox,         \* what sessions have dispatched to the server's strand
  sessions,      \* the session objects, by connection
  reports,       \* history: how often each connection was reported
  starts         \* history: how often start() took effect

vars == <<server, callback, inbox, sessions, reports, starts>>

AcceptOp == [status : Status, connections : SUBSET Connection]

Server ==
  [started : BOOLEAN, acceptor_open : BOOLEAN, session_handler : BOOLEAN,
   active_sessions : SUBSET Connection, accepts : Seq(AcceptOp)]

Task == [do : {"erase", "report"}, connection : Connection, succeeded : BOOLEAN]

ServerSession ==
  [handshake : {"none", "pending", "done", "failed", "over"},
   up : BOOLEAN, known : BOOLEAN, closed : BOOLEAN, close_notified : BOOLEAN,
   close_queued : BOOLEAN]

TypeOK ==
  /\ server \in Server
  /\ callback \in {"none", "return", "do_accept"}
  /\ inbox \in Seq(Task)
  /\ sessions \in [Connection -> ServerSession]
  /\ reports \in [Connection -> 0 .. 1]
  /\ starts \in 0 .. MaxStarts

NewSession ==
  [handshake |-> "none", up |-> FALSE, known |-> FALSE, closed |-> FALSE,
   close_notified |-> FALSE, close_queued |-> FALSE]

(* create() hands out a server that listens. *)
Init ==
  /\ server = [started |-> FALSE, acceptor_open |-> TRUE,
               session_handler |-> FALSE,
               active_sessions |-> {}, accepts |-> << >>]
  /\ callback = "none"
  /\ inbox = << >>
  /\ sessions = [c \in Connection |-> NewSession]
  /\ reports = [c \in Connection |-> 0]
  /\ starts = 0

StrandIdle == callback = "none"
-----------------------------------------------------------------------------
(* The server's member functions, on the server record. *)

do_accept_forgotten(v) == v
do_accept(v) ==
  [v EXCEPT !.accepts = Append(@,
     [status |-> IF v.acceptor_open THEN "pending" ELSE "failed",
      connections |-> {}])]

erase(v, c)  == [v EXCEPT !.active_sessions = @ \ {c}]
insert(v, c) == [v EXCEPT !.active_sessions = @ \cup {c}]

start(v) ==
  IF v.started THEN v ELSE do_accept([v EXCEPT !.started = TRUE])

(* The part of stop() before its loop. *)
stop_accepting(v) ==
  [v EXCEPT !.started = FALSE, !.acceptor_open = FALSE, !.accepts = Aborted(@)]
-----------------------------------------------------------------------------
(* The sessions' member functions. *)

close_transport(s) == [s EXCEPT !.close_notified = TRUE]

(* close(), on the strand of the session. *)
close(s) ==
  IF s.closed THEN s ELSE close_transport([s EXCEPT !.closed = TRUE])

(* Whether a call that takes s to t called the close handler. *)
NotifiesClose(s, t) == ~s.close_notified /\ t.close_notified

Erase(c)      == [do |-> "erase", connection |-> c, succeeded |-> TRUE]
Report(c, ok) == [do |-> "report", connection |-> c, succeeded |-> ok]
-----------------------------------------------------------------------------
(* Calls of the user, on the server's strand: idle, or in the callback. *)

SetSessionHandler(set) ==
  /\ server' = [server EXCEPT !.session_handler = set]
  /\ UNCHANGED <<callback, inbox, sessions, reports, starts>>

Start ==
  /\ server.started \/ starts < MaxStarts
  /\ server' = start(server)
  /\ starts' = IF server.started THEN starts ELSE starts + 1
  /\ UNCHANGED <<callback, inbox, sessions, reports>>

(* The loop over active_sessions_ calls close() on each session.  Where    *)
(* the session's strand is free that runs inline, and with it the close    *)
(* handler, which erases the session from the set under the loop; from     *)
(* there on the iteration is undefined, and any of the other sessions may  *)
(* be closed or left out.                                                  *)
Stop ==
  /\ \E inline, queued \in SUBSET server.active_sessions :
       /\ inline \cap queued = {}
       /\ \A c \in inline : ~sessions[c].closed
       /\ inline = {} => queued = server.active_sessions
       /\ sessions' = [c \in Connection |->
            IF c \in inline THEN close(sessions[c])
            ELSE IF c \in queued THEN [sessions[c] EXCEPT !.close_queued = TRUE]
            ELSE sessions[c]]
       /\ server' = [stop_accepting(server) EXCEPT !.active_sessions = @ \ inline]
  /\ UNCHANGED <<callback, inbox, reports, starts>>
-----------------------------------------------------------------------------
(* Handlers on the server's strand. *)

(* Calls the session handler, if there is one, and then does what is left. *)
CallSessionHandler(v, rest) ==
  /\ callback' = IF v.session_handler THEN rest ELSE "none"
  /\ server' = IF ~v.session_handler /\ rest = "do_accept" THEN do_accept(v) ELSE v

CallbackReturns ==
  /\ callback # "none"
  /\ callback' = "none"
  /\ server' = IF callback = "do_accept" THEN do_accept(server) ELSE server
  /\ UNCHANGED <<inbox, sessions, reports, starts>>

Popped == [server EXCEPT !.accepts = Tail(@)]

OnAcceptStopped ==
  /\ StrandIdle
  /\ IsComplete(server.accepts)
  /\ ~server.started
  /\ server' = Popped
  /\ UNCHANGED <<callback, inbox, sessions, reports, starts>>

OnAcceptError ==
  /\ StrandIdle
  /\ IsComplete(server.accepts)
  /\ server.started
  /\ Head(server.accepts).status # "done"
  /\ CallSessionHandler(Popped,
       IF Head(server.accepts).status = "aborted" THEN "return" ELSE "do_accept")
  /\ UNCHANGED <<inbox, sessions, reports, starts>>

(* Creates the session and starts it, inline: its strand is new.  If a     *)
(* socket option is refused the session closes its transport and reports,  *)
(* all inline, before the next accept is started.                          *)
OnAccept ==
  /\ StrandIdle
  /\ IsComplete(server.accepts)
  /\ server.started
  /\ Head(server.accepts).status = "done"
  /\ \E c \in Head(server.accepts).connections :
       \/ /\ sessions' = [sessions EXCEPT ![c] =
               [NewSession EXCEPT !.handshake = "pending"]]
          /\ server' = do_accept(Popped)
          /\ UNCHANGED <<callback, reports>>
       \/ /\ sessions' = [sessions EXCEPT ![c] =
               close_transport([NewSession EXCEPT !.handshake = "over"])]
          /\ reports' = [reports EXCEPT ![c] = @ + 1]
          /\ CallSessionHandler(erase(Popped, c), "do_accept")
  /\ UNCHANGED <<inbox, starts>>

(* What a session has dispatched: the erasure of its close handler, or the *)
(* insertion and the report of its start handler.                          *)
RunErase ==
  /\ StrandIdle
  /\ inbox # << >> /\ Head(inbox).do = "erase"
  /\ server' = erase(server, Head(inbox).connection)
  /\ inbox' = Tail(inbox)
  /\ UNCHANGED <<callback, sessions, reports, starts>>

RunReport ==
  /\ StrandIdle
  /\ inbox # << >> /\ Head(inbox).do = "report"
  /\ LET c  == Head(inbox).connection
         ok == Head(inbox).succeeded
     IN  /\ CallSessionHandler(IF ok THEN insert(server, c) ELSE server, "return")
         /\ sessions' = [sessions EXCEPT ![c].known = ok /\ server.session_handler]
         /\ reports' = [reports EXCEPT ![c] = @ + 1]
  /\ inbox' = Tail(inbox)
  /\ UNCHANGED starts
-----------------------------------------------------------------------------
(* Handlers on a session's strand. *)

(* The handshake completes: on failure the transport is closed, which      *)
(* calls the close handler, and then the start handler is called.          *)
HandshakeTasks_repeated(c, ok) == <<Report(c, ok), Report(c, ok)>>
HandshakeTasks_unreported(c, ok) == IF ok THEN << >> ELSE <<Erase(c)>>
HandshakeTasks(c, ok) ==
  IF ok THEN <<Report(c, TRUE)>> ELSE <<Erase(c), Report(c, FALSE)>>

OnHandshake(c) ==
  /\ sessions[c].handshake \in {"done", "failed"}
  /\ LET ok == sessions[c].handshake = "done"
         s  == [sessions[c] EXCEPT !.handshake = "over", !.up = ok]
     IN  /\ sessions' = [sessions EXCEPT ![c] = IF ok THEN s ELSE close_transport(s)]
         /\ inbox' = inbox \o HandshakeTasks(c, ok)
  /\ UNCHANGED <<server, callback, reports, starts>>

(* The session closes, on its own strand: its user or stop() asked for it, *)
(* or a read or a write failed.  Only users that were given the session    *)
(* can close it or have it read.                                           *)
CloseTasks_forgotten(c, s) == << >>
CloseTasks(c, s) == IF NotifiesClose(s, close(s)) THEN <<Erase(c)>> ELSE << >>

SessionCloses(c) ==
  /\ sessions[c].known \/ sessions[c].close_queued
  /\ sessions' = [sessions EXCEPT ![c] =
       [close(sessions[c]) EXCEPT !.close_queued = FALSE]]
  /\ inbox' = inbox \o CloseTasks(c, sessions[c])
  /\ UNCHANGED <<server, callback, reports, starts>>

(* The user closes a session inside the server's callback: inline, down to *)
(* the erasure, unless the session's strand is busy.                       *)
CloseInCallback(c) ==
  /\ callback # "none"
  /\ sessions[c].known
  /\ sessions' = [sessions EXCEPT ![c] = close(sessions[c])]
  /\ server' = IF NotifiesClose(sessions[c], close(sessions[c]))
               THEN erase(server, c) ELSE server
  /\ UNCHANGED <<callback, inbox, reports, starts>>

CloseLater(c) ==
  /\ callback # "none"
  /\ sessions[c].known
  /\ sessions' = [sessions EXCEPT ![c].close_queued = TRUE]
  /\ UNCHANGED <<server, callback, inbox, reports, starts>>
-----------------------------------------------------------------------------
(* The acceptor and the peers. *)

Connect(c) ==
  /\ IsPending(server.accepts)
  /\ sessions[c] = NewSession
  /\ \A i \in DOMAIN server.accepts : c \notin server.accepts[i].connections
  /\ server' = [server EXCEPT !.accepts =
       << [status |-> "done", connections |-> {c}] >> \o Tail(@)]
  /\ UNCHANGED <<callback, inbox, sessions, reports, starts>>

AcceptFails ==
  /\ IsPending(server.accepts)
  /\ server' = [server EXCEPT !.accepts =
       << [Head(@) EXCEPT !.status = "failed"] >> \o Tail(@)]
  /\ UNCHANGED <<callback, inbox, sessions, reports, starts>>

(* The peer completes the handshake or not, or it takes too long. *)
HandshakeEnds(c) ==
  /\ sessions[c].handshake = "pending"
  /\ \E result \in {"done", "failed"} :
       sessions' = [sessions EXCEPT ![c].handshake = result]
  /\ UNCHANGED <<server, callback, inbox, reports, starts>>
-----------------------------------------------------------------------------
User ==
  \/ \E set \in BOOLEAN : SetSessionHandler(set)
  \/ Start
  \/ Stop
  \/ \E c \in Connection : CloseInCallback(c) \/ CloseLater(c)

ServerStrand ==
  \/ OnAcceptStopped \/ OnAcceptError \/ OnAccept
  \/ RunErase \/ RunReport
  \/ CallbackReturns

SessionStrand == \E c \in Connection : OnHandshake(c) \/ SessionCloses(c)

Network ==
  \/ \E c \in Connection : Connect(c) \/ HandshakeEnds(c)
  \/ AcceptFails

Next == User \/ ServerStrand \/ SessionStrand \/ Network

Spec == Init /\ [][Next]_vars

(* The strands run what is queued on them in order, so nothing queued      *)
(* waits for ever; the user's handler returns; and a handshake ends, by    *)
(* the timeout start() sets if by nothing else.  Nobody has to connect.    *)
Fairness ==
  /\ SF_vars(OnAcceptStopped \/ OnAcceptError \/ OnAccept)
  /\ SF_vars(RunErase \/ RunReport)
  /\ WF_vars(CallbackReturns)
  /\ \A c \in Connection :
       /\ WF_vars(HandshakeEnds(c))
       /\ WF_vars(OnHandshake(c))
       /\ WF_vars(sessions[c].close_queued /\ SessionCloses(c))

FairSpec == Spec /\ Fairness
-----------------------------------------------------------------------------
(* Properties. *)

IsQueued(do, c) ==
  \E i \in DOMAIN inbox : inbox[i].do = do /\ inbox[i].connection = c

(* The set of active sessions is what it says, up to what is still queued: *)
(* a session is in it exactly if its handshake succeeded and was reported  *)
(* and its transport has not been closed and erased.  None is inserted     *)
(* after its erasure, none forgotten, whatever order the two strands       *)
(* interleave in.                                                          *)
ActiveIsCurrent ==
  \A c \in Connection :
    c \in server.active_sessions <=>
      /\ sessions[c].up /\ ~IsQueued("report", c)
      /\ sessions[c].close_notified => IsQueued("erase", c)

(* Every session is reported exactly once, to the session handler of the   *)
(* moment if there is one, as soon as its handshake is over: by now, or    *)
(* by what is queued.                                                      *)
ReportedOnce ==
  \A c \in Connection :
    reports[c] + (IF IsQueued("report", c) THEN 1 ELSE 0)
      = IF sessions[c].handshake = "over" THEN 1 ELSE 0

(* The accept handlers to come, and the accept a handler is about to start *)
(* when the user's returns.                                                *)
AcceptsToCome ==
  Len(server.accepts) + (IF callback = "do_accept" THEN 1 ELSE 0)

(* While the server accepts there is exactly one accept outstanding, or    *)
(* about to be started: errors do not end the loop, and nothing starts a   *)
(* second one.  stop() ends it for good.  A start() that comes before the  *)
(* cancelled accept's handler makes that handler go on as a loop beside    *)
(* the new one, but each start makes one loop at most, and on the closed   *)
(* acceptor none of them ever waits for a connection again.                *)
OneAcceptLoop ==
  /\ server.started /\ server.acceptor_open => AcceptsToCome = 1
  /\ ~server.acceptor_open =>
       /\ AcceptsToCome <= starts
       /\ \A i \in DOMAIN server.accepts : server.accepts[i].status # "pending"

(* Every session the server created is reported, also when the server is   *)
(* stopped meanwhile.  (A connection whose accept completed before stop()  *)
(* has no session yet, and its handler drops it.)                          *)
AcceptedIsReported ==
  \A c \in Connection : sessions[c].handshake = "pending" ~> reports[c] = 1
=============================================================================
