------------------------- MODULE WebSocketBenchmark -------------------------
(***************************************************************************)
(* example/websocket_benchmark.cpp: a client session that sends requests,  *)
(* and an echo server in the same process (as in websocket_server.cpp),    *)
(* each with a thread and an io_context of its own.  Two sessions are      *)
(* composed here, by the messages they exchange: what one stream has sent  *)
(* whole, the other may read.  The session this module extends is the      *)
(* client's; the server's is an instance of the same module.               *)
(*                                                                         *)
(* Client and server have connected.  On the server's side the session     *)
(* handler still has to attach the echo to its session; what the server    *)
(* does besides is WebSocketServer's.                                      *)
(***************************************************************************)
EXTENDS WebSocketSession, BenchmarkClient

ASSUME WebSocketBenchmarkAssumption ==
  /\ Message = 0 .. Samples - 1
  /\ Role = {"client"}

VARIABLES
  server, serverStrand, serverAccepted, serverWire,
  clientRead,        \* how many messages the client's stream has read
  serverRead,        \* and the server's
  attach,            \* what attach_echo_behavior still has to call
  shutdown           \* how far main is in ending the server

clientVars == <<vars, clientRead>>
serverVars ==
  <<server, serverStrand, serverAccepted, serverWire, serverRead, attach>>
allVars    == <<bench, clientVars, serverVars, shutdown>>

Server == INSTANCE WebSocketSession
  WITH Role <- {"server"}, session <- server, strand <- serverStrand,
       accepted <- serverAccepted, wire <- serverWire

BenchmarkInit ==
  /\ bench = Started
  /\ Init
  /\ Server!Init
  /\ clientRead = 0
  /\ serverRead = 0
  /\ attach = "set_read_handler"
  /\ shutdown = "up"
-----------------------------------------------------------------------------
(* Handlers of the client's io_context. *)

ClientIdle == strand = "idle" /\ UNCHANGED clientRead

SetsReadHandler ==
  /\ ClientIdle
  /\ Startup("set_read_handler", "start_reading")
  /\ SetReadHandler(TRUE)

StartsReading ==
  ClientIdle /\ Startup("start_reading", "send") /\ StartReading

SendsFirst == ClientIdle /\ Startup("send", "done") /\ Send(0)

Closes == ClientIdle /\ PostedClose /\ Close

ClientCompletes ==
  /\ ClientIdle
  /\ Running
  /\ OnRead \/ OnPiece \/ OnWrite
  /\ UNCHANGED bench

(* The read handler, whose calls run inline, and the rest of the           *)
(* completion that called it.                                              *)
ClientReturns(s, b) ==
  /\ session' = AfterRead(s, strand)
  /\ strand' = "idle"
  /\ bench' = b
  /\ UNCHANGED <<wire, clientRead>>

ClientGivesUp ==
  /\ ClientReturns(Core!close(session), give_up(bench))
  /\ UNCHANGED accepted

HandlesError == strand = "after_error" /\ ClientGivesUp

(* The last message read is in the read buffer. *)
HandlesMessage ==
  /\ strand = "after_data"
  /\ LET counted == count_sample(bench)
         next    == send_next(counted)
     IN  IF serverWire[clientRead] # bench.expected_sequence
         THEN ClientGivesUp
         ELSE IF counted.received_count >= Samples
         THEN /\ ClientReturns(Core!close(session), finish(counted))
              /\ UNCHANGED accepted
         ELSE IF next.sent_count = bench.sent_count
         THEN ClientReturns(session, next) /\ UNCHANGED accepted
         ELSE /\ ClientReturns(
                   Core!enqueue_write(session, next.expected_sequence), next)
              /\ accepted' =
                   IF session.closed THEN accepted
                   ELSE Append(accepted, next.expected_sequence)

ClientHandlers ==
  \/ SetsReadHandler \/ StartsReading \/ SendsFirst \/ Closes
  \/ ClientCompletes \/ HandlesError \/ HandlesMessage
-----------------------------------------------------------------------------
(* Handlers of the server's io_context. *)

ServerRuns == shutdown # "over"

ServerIdle == ServerRuns /\ serverStrand = "idle" /\ UNCHANGED serverRead

Attaches(step, next) ==
  ServerIdle /\ attach = step /\ attach' = next /\ UNCHANGED shutdown

AttachesHandler ==
  /\ Attaches("set_read_handler", "start_reading")
  /\ Server!SetReadHandler(TRUE)

AttachesReading == Attaches("start_reading", "done") /\ Server!StartReading

(* server->stop(), on its strand, closes the session. *)
ServerStops ==
  /\ ServerIdle
  /\ shutdown = "stop_posted"
  /\ shutdown' = "stop_run"
  /\ Server!Close
  /\ UNCHANGED attach

ServerCompletes ==
  /\ ServerIdle
  /\ Server!OnRead \/ Server!OnPiece \/ Server!OnWrite
  /\ UNCHANGED <<attach, shutdown>>

ServerReturns(s) ==
  /\ ServerRuns
  /\ server' = AfterRead(s, serverStrand)
  /\ serverStrand' = "idle"
  /\ UNCHANGED <<serverWire, serverRead, attach, shutdown>>

EchoesError ==
  /\ serverStrand = "after_error"
  /\ ServerReturns(Core!close(server))
  /\ UNCHANGED serverAccepted

EchoesMessage ==
  /\ serverStrand = "after_data"
  /\ LET message == wire[serverRead]
     IN  /\ ServerReturns(Core!enqueue_write(server, message))
         /\ serverAccepted' = IF server.closed THEN serverAccepted
                              ELSE Append(serverAccepted, message)

ServerHandlers ==
  \/ AttachesHandler \/ AttachesReading \/ ServerStops
  \/ ServerCompletes \/ EchoesError \/ EchoesMessage
-----------------------------------------------------------------------------
(* The two ends of the connection. *)

ClientReads ==
  /\ Running
  /\ clientRead < Len(serverWire)
  /\ StreamReads
  /\ clientRead' = clientRead + 1

ClientConnection ==
  /\ Running
  /\ \/ StreamWrites \/ StreamWriteFails
     \/ StreamReadFails \/ ConnectionLost
  /\ UNCHANGED clientRead

ServerReads ==
  /\ ServerRuns
  /\ serverRead < Len(wire)
  /\ Server!StreamReads
  /\ serverRead' = serverRead + 1
  /\ UNCHANGED attach

ServerConnection ==
  /\ ServerRuns
  /\ \/ Server!StreamWrites \/ Server!StreamWriteFails
     \/ Server!StreamReadFails \/ Server!ConnectionLost
  /\ UNCHANGED <<serverRead, attach>>
-----------------------------------------------------------------------------
(* The rest of main. *)

OutOfWork ==
  /\ strand = "idle"
  /\ bench.startup = "done"
  /\ ~bench.close_posted
  /\ session.reads = << >>
  /\ session.writes = << >>

Main ==
  \/ strand = "idle" /\ RunReturns(OutOfWork)
  \/ MainCompletes
  \/ MainJoins

(* server->stop(), then after a short sleep server_io_context.stop().  The *)
(* sleep does not make sure that the posted stop has run.                  *)
ShutsDown ==
  \/ Exited /\ shutdown = "up" /\ shutdown' = "stop_posted"
  \/ shutdown \in {"stop_posted", "stop_run"} /\ shutdown' = "over"
-----------------------------------------------------------------------------
ClientStep    == ClientHandlers /\ UNCHANGED <<serverVars, shutdown>>
ServerStep    == ServerHandlers /\ UNCHANGED <<bench, clientVars>>
MainStep      == Main /\ UNCHANGED <<clientVars, serverVars, shutdown>>
TimerStep     == Timer /\ UNCHANGED <<clientVars, serverVars, shutdown>>
ClockStep     == TimePasses /\ UNCHANGED <<clientVars, serverVars, shutdown>>
ShutdownStep  == ShutsDown /\ UNCHANGED <<bench, clientVars, serverVars>>

ConnectionStep ==
  \/ /\ ClientReads \/ ClientConnection
     /\ UNCHANGED <<bench, serverVars, shutdown>>
  \/ /\ ServerReads \/ ServerConnection
     /\ UNCHANGED <<bench, clientVars, shutdown>>

BenchmarkNext ==
  \/ ClientStep \/ ServerStep \/ ConnectionStep
  \/ MainStep \/ TimerStep \/ ClockStep \/ ShutdownStep

BenchmarkSpec == BenchmarkInit /\ [][BenchmarkNext]_allVars

(* Threads run, and an io_context executes what is queued.  Time may stand *)
(* still.                                                                  *)
BenchmarkFairness ==
  /\ WF_allVars(ClientStep)
  /\ WF_allVars(ServerStep)
  /\ WF_allVars(MainStep)
  /\ WF_allVars(TimerStep)
  /\ WF_allVars(ShutdownStep)

FairBenchmark == BenchmarkSpec /\ BenchmarkFairness
-----------------------------------------------------------------------------
(* Properties. *)

(* The round trip through both sessions is an in-order link (FifoLink):    *)
(* what the server has sent back is what the client's session accepted, in *)
(* order, each message once and whole.  It does not shut: what the server  *)
(* has taken it may send back after the client has closed.                 *)
RoundTrip == INSTANCE FifoLink
  WITH sent <- serverWire, shut <- FALSE
EchoIsFifoLink == RoundTrip!Spec

(* A run that exits with 0 has measured every sample.  (Nothing comes back *)
(* here before all of a request has gone out, so the case that             *)
(* SerialBenchmark's SuccessIsComplete excepts cannot arise.)              *)
SuccessIsComplete == Succeeded => bench.received_count = Samples

(* Every sample is measured unless the time is over first, the connection  *)
(* is lost, or one of the two sessions closes itself: the echo may be      *)
(* attached after the first request has come.                              *)
Answers ==
  /\ WF_allVars(ClientReads /\ UNCHANGED <<bench, serverVars, shutdown>>)
  /\ WF_allVars(ServerReads /\ UNCHANGED <<bench, clientVars, shutdown>>)
  /\ WF_allVars(StreamWrites /\ ConnectionStep)
  /\ WF_allVars(Server!StreamWrites /\ ConnectionStep)
MeasuresAll ==
  Answers =>
    <>(\/ bench.received_count = Samples
       \/ bench.elapsed \/ ~session.connected \/ ~server.connected)
=============================================================================
