---------------------- MODULE SerialBenchmarkTheorems -----------------------
(***************************************************************************)
(* Proofs about the serial benchmark, for any number of requests of any    *)
(* size: its types, that a run that exits with 0 has measured everything   *)
(* or lost a write, and that a sample is an echo.  The session keeps its   *)
(* own invariant IInv; the invariant here adds what the program knows of   *)
(* the session, what the counters and flags say, and where the bytes of    *)
(* the request last sent are.                                              *)
(***************************************************************************)
EXTENDS SerialBenchmark, SerialSessionTheorems

(* The session as this program configures and drives it: full duplex, a    *)
(* buffer of the size of a request, and a write in progress whenever there *)
(* is something to write.                                                  *)
Driven(s) ==
  /\ s \in Session
  /\ SessionInv(s)
  /\ s.duplex_mode = "full_duplex"
  /\ s.read_buffer = PayloadSize
  /\ Fits(s)
  /\ ~s.closed /\ s.write_queue # << >> => s.writes # << >>

(* How far the first three calls are, and what they have done. *)
StartupInv ==
  /\ bench.startup # "set_read_handler" => session.read_handler
  /\ bench.startup \in {"set_read_handler", "start_reading"} =>
       /\ session.reads = << >>
       /\ session.writes = << >>
       /\ ~session.read_enabled
       /\ strand = "idle"
  /\ bench.startup \in {"send", "done"} /\ ~session.closed =>
       session.read_enabled

(* Nothing is left to measure, or the exit code is not 0. *)
Settled == bench.failed \/ bench.received_count = Samples

(* The flags: who says that the run is over, and what that means. *)
FlagsOfRun ==
  /\ bench.timer \in {"complete", "close", "stop"} => bench.failed
  /\ bench.close_posted => bench.failed
  /\ bench.stopped /\ bench.main = "run" => Settled
  /\ bench.received_count = Samples => strand = "idle" /\ bench.stopped

(* The counters: what was sent was counted before, and a session that has  *)
(* closed without anybody being told is short of a write.                  *)
CountersInv ==
  /\ bench.sent_count > 0
  /\ Len(accepted) + (IF bench.startup = "done" THEN 0 ELSE 1)
       <= bench.sent_count
  /\ session.closed \/ bench.main # "run" =>
       Settled \/ Len(wire) < bench.sent_count

(* What a completed read brought is kept until the read handler has used   *)
(* it, and a write that is over has left nothing half out.                 *)
ChunkInv ==
  /\ strand # "idle" => session.reads = << >>
  /\ data # << >> =>
       \/ strand = "after_data"
       \/ session.reads # << >> /\ Head(session.reads).status = "done"
  /\ ~WritePending => out = 0 \/ session.closed

(* The bytes that are back or on their way, and the request last sent. *)
Underway == pending_response \o (data \o line)
Current  == make_payload(bench.sent_count - 1)

(* g bytes of the current request have gone out: they are all that is      *)
(* under way, in order, or else some byte is missing for good.             *)
GoneOut(g) ==
  /\ Underway = SubSeq(Current, 1, g) \/ Len(Underway) < g
  /\ Len(session.write_queue) = 1 /\ WritePending => g = out
  /\ Len(session.write_queue) = 2 =>
       g = 0 /\ (WritePending => out = PayloadSize)

(* The current request is the last in the queue while it is there, and at  *)
(* most one other is before it: that one has come back, but the port has   *)
(* yet to say so.                                                          *)
EchoInv ==
  /\ Len(session.write_queue) <= 2
  /\ session.write_queue # << >> =>
       session.write_queue[Len(session.write_queue)] = bench.sent_count - 1
  /\ bench.startup # "done" =>
       /\ bench.sent_count = 1
       /\ session.write_queue = << >>
       /\ Underway = << >>
  /\ \E g \in 0 .. PayloadSize : GoneOut(g)

BInv ==
  /\ IInv
  /\ BenchmarkTypeOK
  /\ Driven(session)
  /\ WorkConserving
  /\ StartupInv
  /\ FlagsOfRun
  /\ CountersInv
  /\ ChunkInv
  /\ faulty # "stale" => EchoInv

(* Once everything is measured the session is closed and reads nothing, so *)
(* that no handler that still runs after stop() can count another sample.  *)
OverInv ==
  bench.received_count = Samples =>
    session.closed /\ ~session.read_in_progress
-----------------------------------------------------------------------------
(* The session, driven. *)

(* What holds of the session between the calls of a handler, too.          *)
Configured(s) ==
  /\ s \in Session
  /\ SessionInv(s)
  /\ s.duplex_mode = "full_duplex"
  /\ s.read_buffer = PayloadSize
  /\ Fits(s)

(* A request has bytes, and a read buffer of its size is a buffer. *)
LEMMA Sizes ==
  /\ PayloadSize \in Nat \ {0} /\ HeaderSize \in 1 .. PayloadSize
  /\ Samples \in Nat \ {0} /\ Message = 0 .. Samples - 1
  /\ ~SeveralThreads
BY SerialAssumption, SerialBenchmarkAssumption, SamplesAssumption

(* schedule_operations leaves nothing to start, and with nothing to wait   *)
(* for in full duplex a queued message is being written.                   *)
LEMMA DrivenSchedule ==
  ASSUME NEW s, Configured(s), NEW t, t = Schedule(s)
  PROVE  /\ Driven(t) /\ NoStart(t)
         /\ SameBut(s, t)
         /\ SameRead(s, t) \/ ReadStarted(s, t)
         /\ SameWrite(s, t) \/ WriteStarted(s, t)
<1>1. /\ s \in Session /\ SessionInv(s) /\ Fits(s)
      /\ s.duplex_mode = "full_duplex" /\ s.read_buffer = PayloadSize
  BY DEF Configured
<1>2. Scheduled(s, t)
  BY <1>1, ScheduleEffect
<1>3. t \in Session /\ SessionInv(t) /\ SameBut(s, t) /\ NoStart(t)
  BY <1>1, <1>2, ScheduleKeeps DEF Scheduled, OpsStarted, NoStart
<1>4. Fits(t)
  <2>1. CASE SameRead(s, t)
    BY <1>1, <1>3, <2>1 DEF SameBut, SameRead, Fits
  <2>2. CASE ReadStarted(s, t)
    BY <1>1, <1>3, <2>2 DEF SameBut, ReadStarted, Fits, Session
  <2> QED BY <1>2, <2>1, <2>2 DEF Scheduled, OpsStarted
<1>5. ~t.closed /\ t.write_queue # << >> => t.writes # << >>
  <2>1. t.duplex_mode = "full_duplex"
    BY <1>1, <1>3 DEF SameBut
  <2>2. ~t.closed /\ t.write_queue # << >> => t.write_in_progress
    BY <1>3, <2>1 DEF NoStart, can_start_write, has_pending_writes
  <2>3. t.write_in_progress => Len(t.writes) = 1
    BY <1>3 DEF SessionInv, FlagsInv
  <2> QED BY <2>2, <2>3, EmptySeq
<1> QED
  BY <1>1, <1>2, <1>3, <1>4, <1>5
     DEF Driven, Scheduled, OpsStarted, SameBut

(* close() leaves a closed session with nothing pending and nothing queued.*)
LEMMA DrivenClose ==
  ASSUME NEW s, Configured(s), NEW t, t = CloseSession(s)
  PROVE  /\ Driven(t) /\ NoStart(t) /\ t.closed
         /\ t.read_handler = s.read_handler
         /\ t.write_queue = << >>
         /\ t.reads = s.reads \/ t.reads = Aborted(s.reads)
         /\ t.writes # << >> => Head(t.writes).status # "pending"
<1>1. /\ s \in Session /\ SessionInv(s) /\ Fits(s)
      /\ s.duplex_mode = "full_duplex" /\ s.read_buffer = PayloadSize
  BY DEF Configured
<1>2. /\ t \in Session /\ SessionInv(t) /\ t.closed
      /\ t.reads = s.reads \/ t.reads = Aborted(s.reads)
      /\ t.read_buffer = s.read_buffer
  BY <1>1, CloseEffect, CloseFlags
<1>3. t.read_handler = s.read_handler /\ t.duplex_mode = s.duplex_mode
  <2>1. CASE s.closed
    BY <1>1, <2>1, CloseEffect
  <2>2. CASE ~s.closed
    <3>1. /\ Shutting(s) \in Session
          /\ Shutting(s).read_handler = s.read_handler
          /\ Shutting(s).duplex_mode = s.duplex_mode
      BY <1>1, EmptySeq DEF Shutting, Session
    <3>2. t = close_transport(Shutting(s))
      BY <2>2, Sizes
         DEF CloseSession, Core!close, Shutting, to_close_transport
    <3>3. Released(Shutting(s), t)
      BY <3>1, <3>2, CloseTransportEffect
    <3> QED BY <3>1, <3>3 DEF Released
  <2> QED BY <2>1, <2>2
<1>4. Fits(t)
  <2>1. s.reads \in Seq(ReadOp)
    BY <1>1 DEF Session
  <2> QED BY <1>1, <1>2, <2>1, AbortedReads DEF Fits
<1>5. t.write_queue = << >>
  BY <1>2 DEF SessionInv, FlagsInv
<1>6. t.writes # << >> => Head(t.writes).status # "pending"
  <2>1. \A i \in DOMAIN t.writes : t.writes[i].status # "pending"
    BY <1>2, Sizes DEF SessionInv, PortInv
  <2>2. t.writes \in Seq(WriteOp)
    BY <1>2 DEF Session
  <2>3. t.writes # << >> =>
          Head(t.writes) = t.writes[1] /\ 1 \in DOMAIN t.writes
    BY <2>2
  <2> QED BY <2>1, <2>3
<1>7. NoStart(t)
  BY <1>2, ClosedCannotStart
<1> QED
  BY <1>1, <1>2, <1>3, <1>4, <1>5, <1>6, <1>7 DEF Driven

(* On a session that is driven, scheduling once more starts no write.      *)
LEMMA DrivenAgain ==
  ASSUME NEW s, Driven(s)
  PROVE  ~can_start_write(s)
<1>1. s.writes # << >> => s.write_in_progress
  BY EmptySeq DEF Driven, SessionInv, FlagsInv, Session
<1> QED
  BY <1>1 DEF Driven, can_start_write, has_pending_writes
-----------------------------------------------------------------------------
(* The handlers that run() executes.  First, what most of them do to each  *)
(* part of the invariant: nothing.                                         *)

(* The invariant of the benchmark gives that of its session. *)
LEMMA Parts ==
  ASSUME BInv
  PROVE  /\ session \in Session /\ SessionInv(session)
         /\ Configured(session)
         /\ bench \in Benchmark
         /\ accepted \in Seq(Message)
         /\ wire \in Seq(Message \cup {Freed})
BY DEF BInv, IInv, TypeOK, BenchmarkTypeOK, Driven, Configured

(* The session is closed or left alone, and no byte moves but from one     *)
(* place under way to another.                                             *)
LEMMA EchoStays ==
  ASSUME EchoInv,
         bench'.sent_count = bench.sent_count,
         bench'.startup # "done" => bench.startup # "done",
         out' = out, Underway' = Underway,
         \/ session'.write_queue = << >>
         \/ /\ session'.write_queue = session.write_queue
            /\ WritePending' => WritePending
  PROVE  EchoInv'
<1>1. Current' = Current
  BY DEF Current
<1>2. CASE /\ session'.write_queue = session.write_queue
           /\ WritePending' => WritePending
  <2>1. ASSUME NEW g \in 0 .. PayloadSize, GoneOut(g) PROVE GoneOut(g)'
    BY <1>1, <1>2, <2>1 DEF GoneOut
  <2> QED BY <1>1, <1>2, <2>1 DEF EchoInv
<1>3. CASE session'.write_queue = << >>
  <2>1. Len(session'.write_queue) = 0
    BY <1>3
  <2>2. ASSUME NEW g \in 0 .. PayloadSize, GoneOut(g) PROVE GoneOut(g)'
    BY <1>1, <2>1, <2>2 DEF GoneOut
  <2> QED BY <1>1, <1>3, <2>1, <2>2 DEF EchoInv
<1> QED BY <1>2, <1>3

(* In particular when none moves. *)
LEMMA EchoQuiet ==
  ASSUME EchoInv,
         bench'.sent_count = bench.sent_count,
         bench'.startup # "done" => bench.startup # "done",
         UNCHANGED <<out, line, data, pending_response>>,
         \/ session'.write_queue = << >>
         \/ /\ session'.write_queue = session.write_queue
            /\ WritePending' => WritePending
  PROVE  EchoInv'
<1>1. Underway' = Underway
  BY DEF Underway
<1> QED BY <1>1, EchoStays

(* A step of the session that leaves the counters and flags, or only       *)
(* advances the startup.                                                   *)
LEMMA FlagsQuiet ==
  ASSUME BInv,
         bench' \in Benchmark,
         bench'.timer = bench.timer, bench'.failed = bench.failed,
         bench'.stopped = bench.stopped, bench'.main = bench.main,
         bench'.received_count = bench.received_count,
         bench'.close_posted => bench.close_posted,
         bench.received_count = Samples => strand' = "idle"
  PROVE  FlagsOfRun' /\ (Settled => Settled')
BY DEF BInv, FlagsOfRun, Settled

(* Aborting reads leaves one that is done as it is. *)
LEMMA DoneStays ==
  ASSUME NEW s, Configured(s), NEW t,
         t.reads = s.reads \/ t.reads = Aborted(s.reads)
  PROVE  /\ s.reads # << >> /\ Head(s.reads).status = "done" =>
              t.reads # << >> /\ Head(t.reads).status = "done"
         /\ s.reads = << >> => t.reads = << >>
<1>1. s.reads \in Seq(ReadOp)
  BY DEF Configured, Session
<1>2. CASE t.reads = Aborted(s.reads)
  <2>1. /\ t.reads \in Seq(ReadOp) /\ Len(t.reads) = Len(s.reads)
        /\ \A i \in DOMAIN t.reads :
             t.reads[i].status = "done" <=> s.reads[i].status = "done"
    BY <1>1, <1>2, AbortedReads
  <2>2. s.reads = << >> => t.reads = << >>
    BY <1>1, <2>1, EmptySeq
  <2>3. s.reads # << >> => 
          /\ t.reads # << >> /\ 1 \in DOMAIN t.reads
          /\ Head(s.reads) = s.reads[1] /\ Head(t.reads) = t.reads[1]
    BY <1>1, <2>1, EmptySeq
  <2> QED BY <2>1, <2>2, <2>3
<1> QED BY <1>2

(* The first posted call sets the read handler. *)
LEMMA SetsReadHandlerInv ==
  ASSUME BInv, SetsReadHandler
  PROVE  BInv'
<1>1. /\ SetReadHandler(TRUE)
      /\ session' = [session EXCEPT !.read_handler = TRUE]
      /\ strand = "idle" /\ UNCHANGED <<strand, accepted, wire>>
      /\ UNCHANGED <<out, line, data, pending_response, faulty>>
      /\ bench.startup = "set_read_handler"
      /\ bench' = [bench EXCEPT !.startup = "start_reading"]
  BY DEF SetsReadHandler, Idle, lineVars, Startup, SetReadHandler,
         set_read_handler
<1>2. IInv'
  BY <1>1, SetReadHandlerStep DEF BInv
<1>3. /\ session \in Session /\ bench \in Benchmark
      /\ session.reads = << >> /\ session.writes = << >>
      /\ ~session.read_enabled
  BY <1>1, Parts DEF BInv, StartupInv
<1>4. /\ session'.read_handler
      /\ session'.duplex_mode = session.duplex_mode
      /\ session'.read_buffer = session.read_buffer
      /\ session'.reads = session.reads /\ session'.writes = session.writes
      /\ session'.write_queue = session.write_queue
      /\ session'.read_enabled = session.read_enabled
      /\ session'.read_in_progress = session.read_in_progress
      /\ session'.write_in_progress = session.write_in_progress
      /\ session'.closed = session.closed
      /\ session'.read_pause_for_write = session.read_pause_for_write
  BY <1>1, <1>3 DEF Session
<1>5. /\ bench' \in Benchmark /\ bench'.startup = "start_reading"
      /\ bench'.timer = bench.timer /\ bench'.failed = bench.failed
      /\ bench'.stopped = bench.stopped /\ bench'.main = bench.main
      /\ bench'.received_count = bench.received_count
      /\ bench'.close_posted = bench.close_posted
      /\ bench'.sent_count = bench.sent_count
  BY <1>1, <1>3 DEF Benchmark
<1>6. Driven(session)'
  BY <1>2, <1>4 DEF BInv, IInv, TypeOK, Driven, Fits
<1>7. WorkConserving'
  BY <1>1, <1>4
     DEF BInv, WorkConserving, can_start_read, can_start_write,
         has_pending_writes
<1>8. BenchmarkTypeOK'
  BY <1>1, <1>5 DEF BInv, BenchmarkTypeOK
<1>9. StartupInv'
  BY <1>1, <1>3, <1>4, <1>5 DEF StartupInv
<1>10. FlagsOfRun' /\ (Settled => Settled')
  BY <1>1, <1>5, FlagsQuiet
<1>11. CountersInv'
  BY <1>1, <1>4, <1>5, <1>10 DEF BInv, CountersInv
<1>12. ChunkInv'
  BY <1>1, <1>3, <1>4 DEF BInv, ChunkInv, WritePending
<1>13. faulty' # "stale" => EchoInv'
  BY <1>1, <1>4, <1>5, EchoQuiet DEF BInv, WritePending
<1> QED
  BY <1>2, <1>6, <1>7, <1>8, <1>9, <1>10, <1>11, <1>12, <1>13 DEF BInv

(* The second one starts to read. *)
LEMMA StartsReadingInv ==
  ASSUME BInv, StartsReading
  PROVE  BInv'
<1> DEFINE t == [session EXCEPT !.read_enabled = TRUE]
<1>1. /\ StartReading
      /\ strand = "idle" /\ UNCHANGED <<strand, accepted, wire>>
      /\ UNCHANGED <<out, line, data, pending_response, faulty>>
      /\ bench.startup = "start_reading"
      /\ bench' = [bench EXCEPT !.startup = "send"]
      /\ session' = IF session.closed THEN session ELSE Schedule(t)
  BY DEF StartsReading, Idle, lineVars, Startup, StartReading,
         Core!start_reading, Schedule
<1>2. IInv'
  BY <1>1, StartReadingStep DEF BInv
<1>3. /\ session \in Session /\ SessionInv(session) /\ bench \in Benchmark
      /\ session.reads = << >> /\ session.writes = << >>
      /\ session.read_handler
  BY <1>1, Parts DEF BInv, StartupInv
<1>4. /\ t \in Session /\ SameRead(session, t) /\ SameWrite(session, t)
      /\ t.read_enabled
      /\ t.read_handler = session.read_handler
      /\ t.duplex_mode = session.duplex_mode
      /\ t.read_buffer = session.read_buffer
      /\ t.write_queue = session.write_queue
      /\ t.closed = session.closed
      /\ Tweaked(session, t)
  BY <1>3 DEF Session, SameRead, SameWrite, Tweaked
<1>5. Configured(t)
  BY <1>3, <1>4, TweakedKeeps
     DEF BInv, Driven, Configured, Fits, SameRead
<1> HIDE DEF t
<1>6. /\ Driven(session') /\ session'.read_handler
      /\ session'.closed = session.closed
      /\ session'.write_queue = session.write_queue
      /\ ~session.closed => session'.read_enabled
      /\ session.write_queue = << >> => session'.writes = session.writes
      /\ NoStart(session')
  <2>1. CASE session.closed
    BY <1>1, <1>3, <2>1, ClosedCannotStart DEF BInv
  <2>2. CASE ~session.closed
    <3>1. /\ Driven(session') /\ NoStart(session') /\ SameBut(t, session')
          /\ SameWrite(t, session') \/ WriteStarted(t, session')
      BY <1>1, <1>5, <2>2, DrivenSchedule
    <3>2. session.write_queue = << >> => ~WriteStarted(t, session')
      BY <1>4 DEF WriteStarted, can_start_write, has_pending_writes
    <3> QED
      BY <1>3, <1>4, <2>2, <3>1, <3>2 DEF SameBut, SameWrite
  <2> QED BY <2>1, <2>2
<1>7. /\ bench' \in Benchmark /\ bench'.startup = "send"
      /\ bench'.timer = bench.timer /\ bench'.failed = bench.failed
      /\ bench'.stopped = bench.stopped /\ bench'.main = bench.main
      /\ bench'.received_count = bench.received_count
      /\ bench'.close_posted = bench.close_posted
      /\ bench'.sent_count = bench.sent_count
  BY <1>1, <1>3 DEF Benchmark
<1>8. WorkConserving'
  BY <1>6 DEF WorkConserving, NoStart
<1>9. BenchmarkTypeOK'
  BY <1>1, <1>7 DEF BInv, BenchmarkTypeOK
<1>10. StartupInv'
  BY <1>6, <1>7 DEF StartupInv
<1>11. FlagsOfRun' /\ (Settled => Settled')
  BY <1>1, <1>7, FlagsQuiet
<1>12. CountersInv'
  BY <1>1, <1>6, <1>7, <1>11 DEF BInv, CountersInv
<1>13. ChunkInv'
  BY <1>1, <1>3 DEF BInv, ChunkInv, WritePending
<1>14. faulty' # "stale" => EchoInv'
  <2>1. ASSUME faulty' # "stale" PROVE EchoInv'
    <3>1. EchoInv /\ session.write_queue = << >>
      BY <1>1, <2>1 DEF BInv, EchoInv
    <3> QED BY <1>1, <1>6, <1>7, <3>1, EchoQuiet DEF WritePending
  <2> QED BY <2>1
<1> QED
  BY <1>2, <1>6, <1>8, <1>9, <1>10, <1>11, <1>12, <1>13, <1>14 DEF BInv

(* The close() that the timer posted. *)
LEMMA ClosesInv ==
  ASSUME BInv, Closes
  PROVE  BInv'
<1>1. /\ Close /\ session' = CloseSession(session)
      /\ strand = "idle" /\ UNCHANGED <<strand, accepted, wire>>
      /\ UNCHANGED <<out, line, data, pending_response, faulty>>
      /\ bench.startup = "done" /\ bench.close_posted
      /\ bench' = [bench EXCEPT !.close_posted = FALSE]
  BY DEF Closes, Idle, lineVars, PostedClose, Close
<1>2. IInv'
  BY <1>1, CloseStep DEF BInv
<1>3. Configured(session) /\ bench \in Benchmark /\ bench.failed
  BY <1>1, Parts DEF BInv, FlagsOfRun
<1>4. /\ Driven(session') /\ NoStart(session') /\ session'.closed
      /\ session'.read_handler = session.read_handler
      /\ session'.write_queue = << >>
      /\ session'.reads = session.reads \/ session'.reads = Aborted(session.reads)
      /\ session'.writes # << >> => Head(session'.writes).status # "pending"
  BY <1>1, <1>3, DrivenClose
<1>5. /\ bench' \in Benchmark /\ bench'.startup = "done"
      /\ bench'.timer = bench.timer /\ bench'.failed = bench.failed
      /\ bench'.stopped = bench.stopped /\ bench'.main = bench.main
      /\ bench'.received_count = bench.received_count
      /\ ~bench'.close_posted
      /\ bench'.sent_count = bench.sent_count
  BY <1>1, <1>3 DEF Benchmark
<1>6. WorkConserving'
  BY <1>4 DEF WorkConserving, NoStart
<1>7. BenchmarkTypeOK'
  BY <1>1, <1>5 DEF BInv, BenchmarkTypeOK
<1>8. StartupInv'
  BY <1>1, <1>4, <1>5 DEF BInv, StartupInv
<1>9. FlagsOfRun' /\ Settled'
  BY <1>1, <1>3, <1>5, FlagsQuiet DEF Settled
<1>10. CountersInv'
  BY <1>1, <1>5, <1>9 DEF BInv, CountersInv
<1>11. ChunkInv'
  BY <1>1, <1>4, <1>3, DoneStays DEF BInv, ChunkInv, WritePending
<1>12. faulty' # "stale" => EchoInv'
  BY <1>1, <1>4, <1>5, EchoQuiet DEF BInv, WritePending
<1> QED
  BY <1>2, <1>4, <1>6, <1>7, <1>8, <1>9, <1>10, <1>11, <1>12 DEF BInv

(* A request is a sequence of PayloadSize bytes. *)
LEMMA PayloadType ==
  ASSUME NEW sequence \in 0 .. Samples - 1
  PROVE  /\ make_payload(sequence) \in Seq(Byte)
         /\ Len(make_payload(sequence)) = PayloadSize
<1> DEFINE p == make_payload(sequence)
<1>1. \A i \in 1 .. PayloadSize :
        i <= HeaderSize => SequenceBytes[sequence][i] \in Byte
  <2>1. SequenceBytes \in [0 .. Samples - 1 -> [1 .. HeaderSize -> 0 .. 255]]
    BY SerialBenchmarkAssumption
  <2>2. SequenceBytes[sequence] \in [1 .. HeaderSize -> 0 .. 255]
    BY <2>1
  <2>3. \A i \in 1 .. PayloadSize : i <= HeaderSize => i \in 1 .. HeaderSize
    BY Sizes
  <2> QED BY <2>2, <2>3 DEF Byte
<1>2. \A i \in 1 .. PayloadSize : (i - 1) % 256 \in Byte
  BY Sizes DEF Byte
<1>3. p \in [1 .. PayloadSize -> Byte]
  BY <1>1, <1>2 DEF make_payload
<1>4. p \in Seq(Byte)
  BY <1>3, Sizes, SeqDef
<1> HIDE DEF p
<1>5. Len(p) = PayloadSize
  BY <1>3, <1>4, Sizes, LenProperties
<1> QED BY <1>4, <1>5 DEF p
-----------------------------------------------------------------------------
(* Sending. *)

Queued(s, m) == [s EXCEPT !.write_queue = Append(s.write_queue, m)]

(* A message queued on an open session that is driven is written at once   *)
(* if nothing is, and waits behind the others otherwise.                   *)
LEMMA Enqueued ==
  ASSUME NEW s, Driven(s), ~s.closed, NEW m \in Message,
         NEW t, t = Core!enqueue_write(s, m)
  PROVE  /\ Driven(t) /\ NoStart(t) /\ ~t.closed
         /\ SameHistory(Queued(s, m), t)
         /\ t.read_handler = s.read_handler
         /\ t.read_enabled = s.read_enabled
         /\ t.write_queue = Append(s.write_queue, m)
         /\ s.writes # << >> => t.writes = s.writes
         /\ s.reads # << >> => t.reads = s.reads
         /\ t.reads # << >> /\ s.reads = << >> =>
              Head(t.reads).status = "pending"
<1> DEFINE q == Queued(s, m)
           w == Append(s.write_queue, m)
<1>1. t = Schedule(q)
  BY DEF Core!enqueue_write, Schedule, Queued
<1>2. q \in Session /\ SessionInv(q) /\ ~q.closed
  BY EnqueueEffect DEF Driven, Queued
<1>3. /\ q.write_queue = w /\ q.duplex_mode = s.duplex_mode
      /\ q.read_handler = s.read_handler /\ q.read_enabled = s.read_enabled
      /\ q.read_buffer = s.read_buffer
      /\ q.reads = s.reads /\ q.writes = s.writes
      /\ q.write_in_progress = s.write_in_progress
      /\ q.read_in_progress = s.read_in_progress
  <2> HIDE DEF w
  <2>1. q = [s EXCEPT !.write_queue = w]
    BY DEF Queued, w
  <2> QED BY <2>1 DEF Driven, Session
<1> HIDE DEF q, w
<1>4. Configured(q)
  BY <1>2, <1>3 DEF Driven, Configured, Fits
<1>5. /\ Driven(t) /\ NoStart(t) /\ SameBut(q, t)
      /\ SameRead(q, t) \/ ReadStarted(q, t)
      /\ SameWrite(q, t) \/ WriteStarted(q, t)
  BY <1>1, <1>4, DrivenSchedule
<1>6. SameHistory(q, t)
  BY <1>1, <1>2, ScheduleKeeps
<1>7. s.writes # << >> => s.write_in_progress
  BY EmptySeq DEF Driven, SessionInv, FlagsInv, Session
<1>8. s.reads # << >> => s.read_in_progress
  BY EmptySeq DEF Driven, SessionInv, FlagsInv, Session
<1>9. s.writes # << >> => t.writes = s.writes
  BY <1>3, <1>5, <1>7 DEF SameWrite, WriteStarted, can_start_write
<1>10. /\ s.reads # << >> => t.reads = s.reads
       /\ t.reads # << >> /\ s.reads = << >> =>
            Head(t.reads).status = "pending"
  BY <1>3, <1>5, <1>8 DEF SameRead, ReadStarted, can_start_read
<1> QED
  BY <1>2, <1>3, <1>5, <1>6, <1>9, <1>10 DEF SameBut, w, q

(* One more message may be queued. *)
LEMMA LongerQueue ==
  ASSUME NEW q \in Seq(Message), NEW m \in Message
  PROVE  LET r == Append(q, m)
         IN  r # << >> /\ Len(r) = Len(q) + 1 /\ r[Len(r)] = m
OBVIOUS

(* Where the bytes are is a matter of sequences of bytes. *)
LEMMA Bytestreams ==
  ASSUME BenchmarkTypeOK, bench.sent_count \in 1 .. Samples
  PROVE  /\ Underway \in Seq(Byte) /\ Response \in Seq(Byte)
         /\ data \o line \in Seq(Byte)
         /\ Len(Underway) = Len(pending_response) + Len(data) + Len(line)
         /\ Len(Response) = Len(pending_response) + Len(data)
         /\ Underway = Response \o line
         /\ Current \in Seq(Byte) /\ Len(Current) = PayloadSize
<1>1. /\ pending_response \in Seq(Byte) /\ data \in Seq(Byte)
      /\ line \in Seq(Byte)
  BY DEF BenchmarkTypeOK
<1>2. data \o line \in Seq(Byte) /\ Len(data \o line) = Len(data) + Len(line)
  BY <1>1, ConcatProperties
<1>3. /\ Underway \in Seq(Byte)
      /\ Len(Underway) = Len(pending_response) + Len(data \o line)
  BY <1>1, <1>2, ConcatProperties DEF Underway
<1>4. /\ Response \in Seq(Byte)
      /\ Len(Response) = Len(pending_response) + Len(data)
  BY <1>1, ConcatProperties DEF Response
<1>5. Underway = Response \o line
  BY <1>1, ConcatAssociative DEF Underway, Response
<1>6. Current \in Seq(Byte) /\ Len(Current) = PayloadSize
  <2>1. bench.sent_count - 1 \in 0 .. Samples - 1
    BY Sizes
  <2> QED BY <2>1, PayloadType DEF Current
<1> QED BY <1>1, <1>2, <1>3, <1>4, <1>5, <1>6

(* The third posted call sends the first request. *)
LEMMA SendsFirstInv ==
  ASSUME BInv, SendsFirst
  PROVE  BInv'
<1>1. /\ Send(0) /\ session' = Core!enqueue_write(session, 0)
      /\ strand = "idle" /\ UNCHANGED <<strand, wire>>
      /\ accepted' = IF session.closed THEN accepted ELSE Append(accepted, 0)
      /\ UNCHANGED <<out, line, data, pending_response, faulty>>
      /\ bench.startup = "send"
      /\ bench' = [bench EXCEPT !.startup = "done"]
  BY DEF SendsFirst, Idle, lineVars, Startup, Send
<1>2. 0 \in Message
  BY Sizes
<1>3. IInv'
  BY <1>1, <1>2, SendStep DEF BInv
<1>4. /\ Configured(session) /\ Driven(session) /\ bench \in Benchmark
      /\ session \in Session /\ SessionInv(session)
      /\ accepted \in Seq(Message) /\ wire \in Seq(Message \cup {Freed})
  BY Parts DEF BInv
<1>5. /\ Driven(session') /\ NoStart(session')
      /\ session'.closed = session.closed
      /\ session'.read_handler = session.read_handler
      /\ session'.read_enabled = session.read_enabled
      /\ session.closed => session' = session
      /\ session.reads # << >> => session'.reads = session.reads
      /\ session.writes # << >> => session'.writes = session.writes
      /\ ~session.closed =>
           session'.write_queue = Append(session.write_queue, 0)
  <2>1. CASE session.closed
    <3>1. session' = session
      BY <1>1, <2>1 DEF Core!enqueue_write
    <3> QED BY <1>4, <2>1, <3>1, ClosedCannotStart
  <2>2. CASE ~session.closed
    <3>1. session' \in Session
      BY <1>3 DEF IInv, TypeOK
    <3>2. /\ Driven(session') /\ NoStart(session') /\ ~session'.closed
          /\ session'.read_handler = session.read_handler
          /\ session'.read_enabled = session.read_enabled
          /\ session'.write_queue = Append(session.write_queue, 0)
          /\ session.writes # << >> => session'.writes = session.writes
          /\ session.reads # << >> => session'.reads = session.reads
      BY <1>1, <1>2, <1>4, <2>2, Enqueued
    <3>3. session'.closed = session.closed
      BY <1>4, <2>2, <3>1, <3>2 DEF Session
    <3> QED BY <2>2, <3>2, <3>3
  <2> QED BY <2>1, <2>2
<1>6. /\ bench' \in Benchmark /\ bench'.startup = "done"
      /\ bench'.timer = bench.timer /\ bench'.failed = bench.failed
      /\ bench'.stopped = bench.stopped /\ bench'.main = bench.main
      /\ bench'.received_count = bench.received_count
      /\ bench'.close_posted = bench.close_posted
      /\ bench'.sent_count = bench.sent_count
  BY <1>1, <1>4 DEF Benchmark
<1>7. WorkConserving'
  BY <1>5 DEF WorkConserving, NoStart
<1>8. BenchmarkTypeOK'
  BY <1>1, <1>6 DEF BInv, BenchmarkTypeOK
<1>9. StartupInv'
  BY <1>1, <1>5, <1>6 DEF BInv, StartupInv
<1>10. FlagsOfRun' /\ (Settled => Settled')
  BY <1>1, <1>6, FlagsQuiet
<1>11. CountersInv'
  <2>1. Len(accepted') <= Len(accepted) + 1 /\ Len(accepted) \in Nat
        /\ Len(accepted') \in Nat
    BY <1>1, <1>2, <1>4
  <2>2. Len(accepted) + 1 <= bench.sent_count /\ bench.sent_count \in Nat
    BY <1>1, <1>4 DEF BInv, CountersInv, Benchmark
  <2> QED BY <1>1, <1>5, <1>6, <1>10, <2>1, <2>2 DEF BInv, CountersInv
<1>12. ChunkInv'
  <2>1. ~session.closed => session'.writes # << >>
    BY <1>2, <1>4, <1>5, LongerQueue DEF Driven, Session
  <2> QED BY <1>1, <1>5, <2>1 DEF BInv, ChunkInv, WritePending
<1>13. faulty' # "stale" => EchoInv'
  <2>1. ASSUME faulty' # "stale", session.closed PROVE EchoInv'
    <3>1. EchoInv /\ session' = session
      BY <1>1, <1>5, <2>1 DEF BInv
    <3> QED BY <1>1, <1>6, <3>1, EchoQuiet DEF WritePending
  <2>2. ASSUME faulty' # "stale", ~session.closed PROVE EchoInv'
    <3>1. /\ session.write_queue = << >> /\ bench.sent_count = 1
          /\ Underway = << >>
      BY <1>1, <2>2 DEF BInv, EchoInv
    <3>2. session.writes = << >>
      BY <1>4, <2>2, <3>1, EmptySeq DEF SessionInv, PortInv, Session
    <3>3. out = 0
      BY <2>2, <3>2 DEF BInv, ChunkInv, WritePending
    <3>4. session'.write_queue = << 0 >>
      BY <1>5, <2>2, <3>1
    <3>5. Underway' = << >> /\ SubSeq(Current', 1, 0) = << >>
      BY <1>1, <3>1, SubSeqEmpty DEF Underway
    <3>6. GoneOut(0)'
      BY <1>1, <3>3, <3>4, <3>5 DEF GoneOut
    <3>7. 0 \in 0 .. PayloadSize
      BY Sizes
    <3> QED BY <1>6, <3>1, <3>4, <3>6, <3>7 DEF EchoInv
  <2> QED BY <2>1, <2>2
<1> QED
  BY <1>3, <1>5, <1>7, <1>8, <1>9, <1>10, <1>11, <1>12, <1>13 DEF BInv
-----------------------------------------------------------------------------
(* Completions. *)

(* The fields a completed read, taken off, leaves alone. *)
LEMMA ReadOff ==
  ASSUME NEW s, Driven(s), s.reads # << >>,
         NEW t, t = mark_read_finished([s EXCEPT !.reads = Tail(s.reads)])
  PROVE  /\ Driven(t) /\ t.reads = << >>
         /\ t.closed = s.closed
         /\ t.read_handler = s.read_handler
         /\ t.read_enabled = s.read_enabled
         /\ t.write_queue = s.write_queue
         /\ t.writes = s.writes
<1> DEFINE r == Tail(s.reads)
<1>1. /\ t \in Session /\ SessionInv(t) /\ t.reads = << >>
      /\ t.closed = s.closed
  BY ReadFinished DEF Driven
<1>2. t = [[s EXCEPT !.reads = r] EXCEPT !.read_in_progress = FALSE]
  BY DEF mark_read_finished
<1> HIDE DEF r
<1>3. /\ t.read_handler = s.read_handler
      /\ t.read_enabled = s.read_enabled
      /\ t.write_queue = s.write_queue
      /\ t.writes = s.writes
      /\ t.duplex_mode = s.duplex_mode
      /\ t.read_buffer = s.read_buffer
  BY <1>2 DEF Driven, Session
<1>4. Fits(t)
  BY <1>1, EmptySeq DEF Fits
<1> QED BY <1>1, <1>3, <1>4 DEF Driven

(* The read completion calls the read handler, always: nothing is read     *)
(* before the handler is set.                                              *)
LEMMA ReadCompletesInv ==
  ASSUME BInv, OverInv, ReadCompletes
  PROVE  BInv'
<1> DEFINE s == mark_read_finished(
                  [session EXCEPT !.reads = Tail(session.reads)])
           rest == IF Head(session.reads).status = "done"
                   THEN "after_data" ELSE "after_error"
<1>1. /\ OnRead /\ strand = "idle" /\ session.reads # << >>
      /\ UNCHANGED <<accepted, wire, bench>>
      /\ UNCHANGED <<out, line, data, pending_response, faulty>>
  BY DEF ReadCompletes, lineVars, OnRead, CanComplete
<1>2. IInv'
  BY <1>1, OnReadStep DEF BInv
<1>3. /\ Driven(session) /\ session.read_handler /\ bench \in Benchmark
      /\ session \in Session /\ SessionInv(session)
      /\ bench.startup \in {"send", "done"}
  BY <1>1, Parts DEF BInv, StartupInv, Benchmark
<1>4. /\ Driven(s) /\ s.reads = << >>
      /\ s.closed = session.closed
      /\ s.read_handler = session.read_handler
      /\ s.read_enabled = session.read_enabled
      /\ s.write_queue = session.write_queue
      /\ s.writes = session.writes
  BY <1>1, <1>3, ReadOff
<1>5. ~s.read_pause_for_write
  BY <1>1, <1>3, ReadFinished
<1>6. session' = s /\ strand' = rest
  BY <1>3, <1>4, <1>5 DEF OnRead, ReadCompletes
<1> HIDE DEF s
<1>7. strand' # "idle"
  BY <1>6
<1>8. WorkConserving'
  BY <1>7 DEF WorkConserving
<1>9. BenchmarkTypeOK'
  BY <1>1 DEF BInv, BenchmarkTypeOK
<1>10. StartupInv'
  BY <1>1, <1>3, <1>4, <1>6 DEF BInv, StartupInv
<1>11. FlagsOfRun'
  <2>1. session.read_in_progress
    BY <1>1, <1>3, EmptySeq DEF SessionInv, FlagsInv
  <2> QED BY <1>1, <2>1 DEF BInv, OverInv, FlagsOfRun, Settled
<1>12. CountersInv'
  BY <1>1, <1>4, <1>6 DEF BInv, CountersInv, Settled
<1>13. ChunkInv'
  BY <1>1, <1>4, <1>6 DEF BInv, ChunkInv, WritePending
<1>14. faulty' # "stale" => EchoInv'
  BY <1>1, <1>4, <1>6, EchoQuiet DEF BInv, WritePending
<1> QED
  BY <1>2, <1>4, <1>6, <1>8, <1>9, <1>10, <1>11, <1>12, <1>13, <1>14 DEF BInv

(* The fields a completed write, taken off, leaves alone. *)
LEMMA WriteOff ==
  ASSUME NEW s, Driven(s), s.writes # << >>,
         NEW t, t = mark_write_finished([s EXCEPT !.writes = Tail(s.writes)])
  PROVE  /\ Configured(t) /\ t.writes = << >>
         /\ t.closed = s.closed
         /\ t.read_handler = s.read_handler
         /\ t.read_enabled = s.read_enabled
         /\ t.write_queue = s.write_queue
         /\ SameRead(s, t)
<1> DEFINE w == Tail(s.writes)
<1>1. /\ t \in Session /\ SessionInv(t) /\ t.writes = << >>
      /\ t.closed = s.closed /\ t.write_queue = s.write_queue
  BY WriteFinished DEF Driven
<1>2. t = [[s EXCEPT !.writes = w] EXCEPT !.write_in_progress = FALSE]
  BY DEF mark_write_finished
<1> HIDE DEF w
<1>3. /\ t.read_handler = s.read_handler
      /\ t.read_enabled = s.read_enabled
      /\ t.duplex_mode = s.duplex_mode
      /\ t.read_buffer = s.read_buffer
      /\ SameRead(s, t)
  BY <1>2 DEF Driven, Session, SameRead
<1>4. Fits(t)
  BY <1>3 DEF Driven, Fits, SameRead
<1> QED BY <1>1, <1>3, <1>4 DEF Driven, Configured

(* consume_write, once the write is over. *)
LEMMA WriteConsumed ==
  ASSUME NEW s, Configured(s), s.writes = << >>,
         NEW t, t = consume_write(s)
  PROVE  /\ Configured(t)
         /\ t.closed = s.closed
         /\ t.read_handler = s.read_handler
         /\ t.read_enabled = s.read_enabled
         /\ s.write_queue = << >> => t.write_queue = << >>
         /\ s.write_queue # << >> => t.write_queue = Tail(s.write_queue)
         /\ SameRead(s, t)
<1>1. t \in Session /\ SessionInv(t) /\ t.closed = s.closed
  BY ConsumeEffect DEF Configured
<1>2. CASE s.write_queue = << >>
  BY <1>2 DEF consume_write, has_pending_writes, SameRead
<1>3. CASE s.write_queue # << >>
  <2> DEFINE q == Tail(s.write_queue)
  <2>1. t = [s EXCEPT !.write_queue = q]
    BY <1>3 DEF consume_write, has_pending_writes
  <2> HIDE DEF q
  <2>2. /\ t.read_handler = s.read_handler
        /\ t.read_enabled = s.read_enabled
        /\ t.duplex_mode = s.duplex_mode
        /\ t.read_buffer = s.read_buffer
        /\ t.write_queue = q
        /\ SameRead(s, t)
    BY <2>1 DEF Configured, Session, SameRead
  <2>3. Fits(t)
    BY <2>2 DEF Configured, Fits, SameRead
  <2> QED BY <1>1, <1>3, <2>2, <2>3 DEF Configured, q
<1> QED BY <1>2, <1>3

(* While the session is open, the queue holds what was accepted and is not *)
(* yet out.                                                                *)
LEMMA ShortOfAWrite ==
  ASSUME BInv, ~session.closed, session.writes # << >>,
         Head(session.writes).status # "done"
  PROVE  Len(wire) < bench.sent_count
<1>1. /\ accepted = wire \o session.write_queue
      /\ session.write_queue # << >>
  <2>1. session.writes \in Seq(WriteOp) /\ 1 \in DOMAIN session.writes
    BY Parts, EmptySeq DEF Session
  <2>2. session.write_queue # << >>
    BY <2>1, Parts DEF SessionInv, PortInv
  <2> QED
    BY <2>2 DEF BInv, IInv, NothingLostWhileOpen, Unwritten, WriteDone
<1>2. /\ wire \in Seq(Message \cup {Freed})
      /\ session.write_queue \in Seq(Message)
      /\ Len(session.write_queue) \in Nat \ {0}
  BY <1>1, Parts, EmptySeq DEF Session
<1>3. session.write_queue \in Seq(Message \cup {Freed})
  BY <1>2
<1>4. Len(accepted) = Len(wire) + Len(session.write_queue)
  BY <1>1, <1>2, <1>3, ConcatProperties
<1>5. Len(accepted) <= bench.sent_count /\ bench.sent_count \in Nat
  <2>1. bench.sent_count \in Nat /\ Len(accepted) \in Nat
    BY Parts DEF Benchmark
  <2> QED BY <2>1 DEF BInv, CountersInv
<1> QED BY <1>2, <1>4, <1>5

(* The front leaves a queue of one message, or of two. *)
LEMMA ShorterQueue ==
  ASSUME NEW q \in Seq(Message)
  PROVE  /\ Len(q) \in Nat
         /\ Len(q) = 0 => q = << >>
         /\ Len(q) = 1 => q # << >> /\ Tail(q) = << >>
         /\ Len(q) = 2 =>
              /\ q # << >> /\ Tail(q) \in Seq(Message) /\ Len(Tail(q)) = 1
              /\ Tail(q)[1] = q[2]
<1>1. \A r \in Seq(Message) : Len(r) \in Nat /\ (Len(r) = 0 => r = << >>)
  BY EmptySeq
<1>2. CASE q = << >>
  <2>1. Len(q) = 0
    BY <1>2
  <2> QED BY <1>2, <2>1
<1>3. CASE q # << >>
  <2>1. /\ Tail(q) \in Seq(Message) /\ Len(Tail(q)) = Len(q) - 1
        /\ \A i \in 1 .. Len(Tail(q)) : Tail(q)[i] = q[i + 1]
    BY <1>3, HeadTailProperties
  <2>2. Len(q) = 1 => Tail(q) = << >>
    <3>1. Tail(q) \in Seq(Message) /\ (Len(q) = 1 => Len(Tail(q)) = 0)
      BY <2>1
    <3>2. Len(Tail(q)) = 0 => Tail(q) = << >>
      BY <1>1, <3>1
    <3> QED BY <3>1, <3>2
  <2>3. Len(q) = 2 => Tail(q)[1] = q[2]
    BY <1>1, <2>1
  <2> QED BY <1>1, <1>3, <2>1, <2>2, <2>3
<1> QED BY <1>2, <1>3

(* When the port is done with a write, what the write was of leaves the    *)
(* queue, and the one behind it has not begun to go out.                   *)
LEMMA EchoConsumed ==
  ASSUME BInv, EchoInv, ~WritePending,
         bench' = bench, out' = out, line' = line, data' = data,
         pending_response' = pending_response,
         session.write_queue = << >> => session'.write_queue = << >>,
         session.write_queue # << >> =>
           ~session.closed /\ session'.write_queue = Tail(session.write_queue)
  PROVE  EchoInv'
<1>1. /\ session.write_queue \in Seq(Message) /\ Len(session.write_queue) <= 2
      /\ Underway' = Underway /\ Current' = Current
  BY Parts DEF Session, EchoInv, Underway, Current
<1>2. CASE session'.write_queue = << >>
  BY <1>2, EchoQuiet
<1>3. CASE session'.write_queue # << >>
  <2>1. /\ session.write_queue # << >> /\ ~session.closed
        /\ session'.write_queue = Tail(session.write_queue)
    BY <1>3
  <2>2. Len(session.write_queue) = 2
    <3>1. Len(session.write_queue) \in Nat
          /\ Len(session.write_queue) # 0 /\ Len(session.write_queue) # 1
      BY <1>1, <1>3, <2>1, ShorterQueue
    <3>2. \A n \in Nat : n <= 2 => n = 0 \/ n = 1 \/ n = 2
      OBVIOUS
    <3> QED BY <1>1, <3>1, <3>2
  <2>3. /\ Len(session'.write_queue) = 1
        /\ session'.write_queue[1] = session.write_queue[2]
    BY <1>1, <2>1, <2>2, ShorterQueue
  <2>4. bench.startup = "done" /\ out = 0
    BY <2>1 DEF BInv, ChunkInv, EchoInv
  <2>5. GoneOut(0)
    <3>1. PICK g \in 0 .. PayloadSize : GoneOut(g)
      BY DEF EchoInv
    <3> QED BY <2>2, <3>1 DEF GoneOut
  <2>6. GoneOut(0)'
    BY <1>1, <2>3, <2>4, <2>5 DEF GoneOut
  <2>7. 0 \in 0 .. PayloadSize
    BY Sizes
  <2>8. session'.write_queue[Len(session'.write_queue)] = bench'.sent_count - 1
    <3>1. session.write_queue[2] = bench.sent_count - 1
      BY <2>1, <2>2 DEF EchoInv
    <3> QED BY <2>3, <3>1
  <2> QED BY <2>3, <2>4, <2>6, <2>7, <2>8 DEF EchoInv
<1> QED BY <1>2, <1>3

(* The write completion: the next message, or the session closes itself.   *)
LEMMA WriteCompletesInv ==
  ASSUME BInv, WriteCompletes
  PROVE  BInv'
<1> DEFINE s == mark_write_finished(
                  [session EXCEPT !.writes = Tail(session.writes)])
           c == consume_write(s)
<1>1. /\ OnWrite /\ strand = "idle" /\ strand' = "idle"
      /\ session.writes # << >> /\ Head(session.writes).status # "pending"
      /\ UNCHANGED <<accepted, wire, bench>>
      /\ UNCHANGED <<out, line, data, pending_response, faulty>>
  BY DEF WriteCompletes, lineVars, OnWrite, CanComplete
<1>2. IInv'
  BY <1>1, OnWriteStep DEF BInv
<1>3. /\ Driven(session) /\ Configured(session)
      /\ session \in Session /\ SessionInv(session)
      /\ bench \in Benchmark /\ bench.startup \in {"send", "done"}
  BY <1>1, Parts DEF BInv, StartupInv, Benchmark
<1>4. session' = IF Head(session.writes).status = "done"
                 THEN Schedule(c) ELSE CloseSession(s)
  BY DEF OnWrite, WriteCompletes
<1>5. /\ Configured(s) /\ s.writes = << >>
      /\ s.closed = session.closed
      /\ s.read_handler = session.read_handler
      /\ s.read_enabled = session.read_enabled
      /\ s.write_queue = session.write_queue
      /\ SameRead(session, s)
  BY <1>1, <1>3, WriteOff
<1>6. /\ Configured(c)
      /\ c.closed = session.closed
      /\ c.read_handler = session.read_handler
      /\ c.read_enabled = session.read_enabled
      /\ session.write_queue = << >> => c.write_queue = << >>
      /\ session.write_queue # << >> =>
           c.write_queue = Tail(session.write_queue)
      /\ SameRead(session, c)
  BY <1>5, WriteConsumed DEF SameRead
<1> HIDE DEF s, c
<1>7. /\ Driven(session') /\ NoStart(session')
      /\ session'.read_handler = session.read_handler
      /\ session'.closed \/ /\ session'.closed = session.closed
                            /\ session'.read_enabled = session.read_enabled
      /\ session.reads # << >> /\ Head(session.reads).status = "done" =>
           session'.reads # << >> /\ Head(session'.reads).status = "done"
  <2>1. CASE Head(session.writes).status = "done"
    <3>1. session' = Schedule(c)
      BY <1>4, <2>1
    <3>2. /\ Driven(session') /\ NoStart(session') /\ SameBut(c, session')
          /\ SameRead(c, session') \/ ReadStarted(c, session')
      BY <1>6, <3>1, DrivenSchedule
    <3>3. session.reads # << >> => session.read_in_progress
      BY <1>3, EmptySeq DEF SessionInv, FlagsInv, Session
    <3>4. session.reads # << >> => session'.reads = session.reads
      BY <1>6, <3>2, <3>3 DEF SameRead, ReadStarted, can_start_read
    <3> QED BY <1>6, <3>2, <3>4 DEF SameBut
  <2>2. CASE Head(session.writes).status # "done"
    <3>1. session' = CloseSession(s)
      BY <1>4, <2>2
    <3>2. /\ Driven(session') /\ NoStart(session') /\ session'.closed
          /\ session'.read_handler = s.read_handler
          /\ session'.reads = s.reads \/ session'.reads = Aborted(s.reads)
      BY <1>5, <3>1, DrivenClose
    <3>3. s.reads = session.reads
      BY <1>5 DEF SameRead
    <3> QED BY <1>3, <1>5, <3>2, <3>3, DoneStays
  <2> QED BY <2>1, <2>2
<1>8. WorkConserving'
  BY <1>7 DEF WorkConserving, NoStart
<1>9. BenchmarkTypeOK'
  BY <1>1 DEF BInv, BenchmarkTypeOK
<1>10. StartupInv'
  BY <1>1, <1>3, <1>7 DEF BInv, StartupInv
<1>11. FlagsOfRun'
  BY <1>1 DEF BInv, FlagsOfRun, Settled
<1>12. CountersInv'
  <2>1. session'.closed => session.closed \/ Len(wire) < bench.sent_count
    <3>1. CASE Head(session.writes).status = "done"
      <4>1. session' = Schedule(c)
        BY <1>4, <3>1
      <4>2. SameBut(c, session')
        BY <1>6, <4>1, DrivenSchedule
      <4> QED BY <1>6, <4>2 DEF SameBut
    <3>2. CASE Head(session.writes).status # "done"
      BY <1>1, <3>2, ShortOfAWrite
    <3> QED BY <3>1, <3>2
  <2> QED BY <1>1, <2>1 DEF BInv, CountersInv, Settled
<1>13. ChunkInv'
  <2>1. ~WritePending
    BY <1>1 DEF WritePending
  <2>2. session.closed => session'.closed
    BY <1>3, <1>7 DEF Session
  <2> QED BY <1>1, <1>7, <2>1, <2>2 DEF BInv, ChunkInv
<1>14. faulty' # "stale" => EchoInv'
  <2>1. ASSUME faulty' # "stale" PROVE EchoInv'
    <3>1. EchoInv /\ ~WritePending
      BY <1>1, <2>1 DEF BInv, WritePending
    <3>2. CASE Head(session.writes).status = "done"
      <4>1. session' = Schedule(c)
        BY <1>4, <3>2
      <4>2. SameBut(c, session')
        BY <1>6, <4>1, DrivenSchedule
      <4>3. session'.write_queue = c.write_queue
        BY <4>2 DEF SameBut
      <4>4. session.write_queue # << >> => ~session.closed
        BY <1>3 DEF SessionInv, FlagsInv
      <4> QED BY <1>1, <1>6, <3>1, <4>3, <4>4, EchoConsumed
    <3>3. CASE Head(session.writes).status # "done"
      <4>1. session' = CloseSession(s)
        BY <1>4, <3>3
      <4>2. session'.write_queue = << >>
        BY <1>5, <4>1, DrivenClose
      <4> QED BY <1>1, <3>1, <4>2, EchoQuiet
    <3> QED BY <3>2, <3>3
  <2> QED BY <2>1
<1> QED
  BY <1>2, <1>7, <1>8, <1>9, <1>10, <1>11, <1>12, <1>13, <1>14 DEF BInv
-----------------------------------------------------------------------------
(* The read handler. *)

(* A closed session has nothing more to schedule or to close. *)
LEMMA ClosedAfterRead ==
  ASSUME NEW s, Configured(s), NEW k
  PROVE  AfterRead(CloseSession(s), k) = CloseSession(s)
<1> DEFINE c == CloseSession(s)
<1>1. c \in Session /\ SessionInv(c) /\ c.closed /\ NoStart(c)
  BY DrivenClose DEF Driven
<1>2. CloseSession(c) = c
  BY <1>1, CloseEffect
<1>3. Schedule(c) = c
  BY <1>1 DEF Schedule, Core!schedule_operations, NoStart
<1> QED BY <1>2, <1>3 DEF AfterRead

(* A whole response on a line that held nothing before is the current      *)
(* request, complete: it is all that is under way, and no other request    *)
(* is waiting to go out.                                                   *)
LEMMA WholeResponse ==
  ASSUME BInv, EchoInv, IsWhole(Response)
  PROVE  /\ Response = Current
         /\ Rest \o line = << >>
         /\ GoneOut(PayloadSize)
         /\ Len(session.write_queue) # 2
         /\ bench.startup = "done"
<1>1. BenchmarkTypeOK /\ bench.sent_count \in 1 .. Samples
  BY DEF BInv, CountersInv, BenchmarkTypeOK, Benchmark
<1>2. /\ Underway \in Seq(Byte) /\ Response \in Seq(Byte) /\ line \in Seq(Byte)
      /\ Underway = Response \o line
      /\ Current \in Seq(Byte) /\ Len(Current) = PayloadSize
  BY <1>1, Bytestreams DEF BenchmarkTypeOK
<1>3. /\ Len(Response) \in Nat /\ Len(line) \in Nat /\ Len(Underway) \in Nat
      /\ Len(Underway) = Len(Response) + Len(line)
      /\ Len(Response) >= PayloadSize
  BY <1>2, ConcatProperties DEF IsWhole
<1>4. PICK g \in 0 .. PayloadSize : GoneOut(g)
  BY DEF EchoInv
<1>5. Underway = SubSeq(Current, 1, g)
  BY <1>3, <1>4, Sizes DEF GoneOut
<1>6. Len(Underway) = g
  <2>1. g \in Int /\ (1 <= g => g <= Len(Current))
    BY <1>2, Sizes
  <2>2. Len(SubSeq(Current, 1, g)) = IF 1 <= g THEN g - 1 + 1 ELSE 0
    BY <1>2, <2>1, SubSeqProperties
  <2> QED BY <1>5, <2>2, Sizes
<1>7. g = PayloadSize /\ Len(line) = 0 /\ Len(Response) = PayloadSize
  BY <1>3, <1>6, Sizes
<1>8. line = << >>
  BY <1>2, <1>7, EmptySeq
<1>9. Response = Underway
  BY <1>2, <1>8, ConcatEmptySeq
<1>10. SubSeq(Current, 1, PayloadSize) = Current
  BY <1>2, SubSeqFull
<1>11. Rest = << >>
  BY <1>2, <1>7, Sizes, SubSeqEmpty DEF Rest
<1>12. Rest \o line = << >>
  BY <1>8, <1>11
<1>13. Len(session.write_queue) # 2
  BY <1>4, <1>7, Sizes DEF GoneOut
<1>14. bench.startup = "done"
  <2>1. Underway # << >>
    BY <1>6, <1>7, Sizes, EmptySeq
  <2> QED BY <2>1 DEF EchoInv
<1> QED BY <1>4, <1>5, <1>7, <1>9, <1>10, <1>12, <1>13, <1>14

(* What the read handler finds: no read, and a sample still to come. *)
LEMMA InHandler ==
  ASSUME BInv, strand # "idle"
  PROVE  /\ Driven(session) /\ Configured(session)
         /\ session \in Session /\ SessionInv(session)
         /\ bench \in Benchmark /\ bench.received_count < Samples
         /\ bench.sent_count \in 1 .. Samples
         /\ bench.startup \in {"send", "done"}
         /\ session.reads = << >>
         /\ data # << >> => strand = "after_data"
<1>1. Driven(session) /\ Configured(session) /\ bench \in Benchmark
      /\ session \in Session /\ SessionInv(session)
  BY Parts DEF BInv
<1>2. bench.received_count \in 0 .. Samples /\ bench.received_count # Samples
  BY <1>1 DEF BInv, FlagsOfRun, Benchmark
<1>3. bench.startup \in {"send", "done"}
  BY <1>1 DEF BInv, StartupInv, Benchmark
<1>4. session.reads = << >> /\ (data # << >> => strand = "after_data")
  BY DEF BInv, ChunkInv
<1>5. bench.sent_count \in 1 .. Samples
  BY <1>1 DEF BInv, CountersInv, Benchmark
<1>6. bench.received_count < Samples
  BY <1>2, Sizes
<1> QED BY <1>1, <1>3, <1>4, <1>5, <1>6

(* The handler closes the session: the run has failed, or is complete. *)
LEMMA HandlerCloses ==
  ASSUME BInv, strand # "idle",
         HandlerReturns(CloseSession(session), bench', pending_response'),
         accepted' = accepted,
         pending_response' \in Seq(Byte), Len(pending_response') < PayloadSize,
         bench' \in Benchmark, Settled', bench'.stopped,
         bench.failed => bench'.failed,
         bench'.sent_count = bench.sent_count,
         bench'.startup = bench.startup, bench'.timer = bench.timer,
         bench'.close_posted = bench.close_posted, bench'.main = bench.main,
         EchoInv => \/ Underway' = Underway
                    \/ Underway' = << >>
  PROVE  BInv'
<1>1. /\ session' = CloseSession(session)
      /\ strand' = "idle" /\ data' = << >>
      /\ UNCHANGED <<accepted, wire, unreported, out, line, faulty>>
  BY InHandler, ClosedAfterRead DEF HandlerReturns
<1>2. /\ Driven(session') /\ NoStart(session') /\ session'.closed
      /\ session'.read_handler = session.read_handler
      /\ session'.write_queue = << >>
  BY <1>1, InHandler, DrivenClose
<1>3. IInv'
  BY <1>1, <1>2, InHandler, CloseHistory, QuietStep DEF BInv, Driven
<1>4. BenchmarkTypeOK'
  BY <1>1, EmptySeq, Sizes DEF BInv, BenchmarkTypeOK
<1>5. WorkConserving' /\ StartupInv'
  BY <1>2, InHandler DEF BInv, WorkConserving, NoStart, StartupInv
<1>6. FlagsOfRun' /\ CountersInv'
  BY <1>1 DEF BInv, FlagsOfRun, CountersInv
<1>7. ChunkInv'
  BY <1>1, <1>2 DEF ChunkInv
<1>8. faulty' # "stale" => EchoInv'
  <2>1. ASSUME EchoInv PROVE EchoInv'
    <3>1. CASE Underway' = Underway
      BY <1>1, <1>2, <2>1, <3>1, EchoStays
    <3>2. CASE Underway' = << >>
      <4>1. SubSeq(Current', 1, 0) = << >> /\ 0 \in 0 .. PayloadSize
        BY SubSeqEmpty, Sizes
      <4>2. Len(session'.write_queue) = 0
        BY <1>2
      <4>3. GoneOut(0)'
        BY <3>2, <4>1, <4>2 DEF GoneOut
      <4> QED BY <1>2, <2>1, <3>2, <4>1, <4>2, <4>3 DEF EchoInv
    <3> QED BY <2>1, <3>1, <3>2
  <2> QED BY <1>1, <2>1 DEF BInv
<1> QED
  BY <1>2, <1>3, <1>4, <1>5, <1>6, <1>7, <1>8 DEF BInv

(* What stays pending when a whole response is taken. *)
LEMMA RestType ==
  ASSUME BInv, IsWhole(Response)
  PROVE  Rest \in Seq(Byte) /\ Len(Rest) < PayloadSize
<1>1. BenchmarkTypeOK /\ bench.sent_count \in 1 .. Samples
  BY DEF BInv, CountersInv, BenchmarkTypeOK, Benchmark
<1>2. /\ Response \in Seq(Byte) /\ Len(Response) >= PayloadSize
      /\ Len(Response) = Len(pending_response) + Len(data)
      /\ Len(pending_response) \in Nat /\ Len(pending_response) < PayloadSize
      /\ Len(data) \in Nat /\ Len(data) <= PayloadSize
  BY <1>1, Bytestreams DEF BenchmarkTypeOK, IsWhole
<1>3. PayloadSize \in Nat \ {0} /\ Len(Response) \in Nat
  BY <1>2, Sizes
<1>4. \A i \in PayloadSize + 1 .. Len(Response) : Response[i] \in Byte
  BY <1>2, <1>3
<1>5. /\ Rest \in Seq(Byte)
      /\ Len(Rest) = IF PayloadSize + 1 <= Len(Response)
                     THEN Len(Response) - (PayloadSize + 1) + 1 ELSE 0
  <2>1. PayloadSize + 1 \in Int /\ Len(Response) \in Int
    BY <1>3
  <2> QED BY <1>4, <2>1, SubSeqProperties DEF Rest
<1> QED BY <1>2, <1>3, <1>5

(* A read that failed: the benchmark gives up. *)
LEMMA HandlesErrorInv ==
  ASSUME BInv, HandlesError
  PROVE  BInv'
<1>1. /\ strand = "after_error" /\ accepted' = accepted
      /\ HandlerReturns(CloseSession(session), bench', pending_response')
      /\ bench' = give_up(bench) /\ pending_response' = pending_response
      /\ line' = line /\ data' = << >>
  BY DEF HandlesError, HandlerReturns
<1>2. bench \in Benchmark /\ data = << >>
  BY <1>1, InHandler
<1>3. /\ bench' \in Benchmark /\ bench'.failed /\ bench'.stopped
      /\ bench'.sent_count = bench.sent_count
      /\ bench'.startup = bench.startup /\ bench'.timer = bench.timer
      /\ bench'.close_posted = bench.close_posted /\ bench'.main = bench.main
  BY <1>1, <1>2 DEF Benchmark, give_up
<1>4. Underway' = Underway
  BY <1>1, <1>2 DEF Underway
<1>5. /\ pending_response' \in Seq(Byte) /\ Len(pending_response') < PayloadSize
      /\ Settled'
  BY <1>1, <1>3 DEF BInv, BenchmarkTypeOK, Settled
<1> QED BY <1>1, <1>3, <1>4, <1>5, HandlerCloses

(* The bytes that stay are all that is under way. *)
LEMMA RestUnderway ==
  ASSUME BInv, IsWhole(Response),
         pending_response' = Rest, data' = << >>, line' = line
  PROVE  Underway' = Rest \o line
<1>1. line \in Seq(Byte)
  BY DEF BInv, BenchmarkTypeOK
<1>2. << >> \o line = line
  BY <1>1, ConcatEmptySeq
<1> QED BY <1>2 DEF Underway

(* A response with another sequence number: the benchmark gives up. *)
LEMMA HandlesOtherInv ==
  ASSUME BInv, HandlesOther
  PROVE  BInv'
<1>1. /\ strand = "after_data" /\ accepted' = accepted /\ IsWhole(Response)
      /\ HandlerReturns(CloseSession(session), bench', pending_response')
      /\ bench' = give_up(bench) /\ pending_response' = Rest
      /\ line' = line /\ data' = << >>
  BY DEF HandlesOther, HandlerReturns
<1>2. bench \in Benchmark
  BY <1>1, InHandler
<1>3. /\ bench' \in Benchmark /\ bench'.failed /\ bench'.stopped
      /\ bench'.sent_count = bench.sent_count
      /\ bench'.startup = bench.startup /\ bench'.timer = bench.timer
      /\ bench'.close_posted = bench.close_posted /\ bench'.main = bench.main
  BY <1>1, <1>2 DEF Benchmark, give_up
<1>4. EchoInv => Underway' = << >>
  BY <1>1, RestUnderway, WholeResponse
<1>5. /\ pending_response' \in Seq(Byte) /\ Len(pending_response') < PayloadSize
      /\ Settled'
  BY <1>1, <1>3, RestType DEF Settled
<1> QED BY <1>1, <1>3, <1>4, <1>5, HandlerCloses

(* The handler has counted what it got, if anything, and reads on. *)
LEMMA HandlerGoesOn ==
  ASSUME BInv, strand = "after_data",
         HandlerReturns(session, bench', pending_response'),
         accepted' = accepted,
         pending_response' \in Seq(Byte), Len(pending_response') < PayloadSize,
         bench' \in Benchmark, bench'.received_count < Samples,
         bench'.failed = bench.failed, bench'.stopped = bench.stopped,
         bench'.sent_count = bench.sent_count,
         bench'.startup = bench.startup, bench'.timer = bench.timer,
         bench'.close_posted = bench.close_posted, bench'.main = bench.main,
         EchoInv => \/ Underway' = Underway
                    \/ Underway' = << >> /\ GoneOut(PayloadSize)
  PROVE  BInv'
<1>1. /\ session' = Schedule(session)
      /\ strand' = "idle" /\ data' = << >>
      /\ UNCHANGED <<accepted, wire, unreported, out, line, faulty>>
  BY DEF HandlerReturns, AfterRead
<1>2. /\ Driven(session) /\ Configured(session)
      /\ bench.received_count < Samples /\ bench.startup \in {"send", "done"}
  BY InHandler
<1>3. /\ Driven(session') /\ NoStart(session') /\ SameBut(session, session')
      /\ SameWrite(session, session')
  <2>1. /\ Driven(session') /\ NoStart(session') /\ SameBut(session, session')
        /\ SameWrite(session, session') \/ WriteStarted(session, session')
    BY <1>1, <1>2, DrivenSchedule
  <2> QED BY <1>2, <2>1, DrivenAgain DEF WriteStarted
<1>4. /\ session'.closed = session.closed
      /\ session'.read_handler = session.read_handler
      /\ session'.read_enabled = session.read_enabled
      /\ session'.write_queue = session.write_queue
      /\ session'.writes = session.writes
  BY <1>3 DEF SameBut, SameWrite
<1>5. IInv'
  BY <1>1, <1>2, <1>3, ScheduleKeeps, QuietStep DEF BInv, Driven
<1>6. BenchmarkTypeOK'
  BY <1>1, EmptySeq, Sizes DEF BInv, BenchmarkTypeOK
<1>7. WorkConserving' /\ StartupInv'
  BY <1>2, <1>3, <1>4 DEF BInv, WorkConserving, NoStart, StartupInv
<1>8. bench'.received_count # Samples /\ bench.received_count # Samples
  BY <1>2, Sizes DEF Benchmark
<1>9. FlagsOfRun'
  BY <1>1, <1>8 DEF BInv, FlagsOfRun, Settled
<1>10. CountersInv'
  BY <1>1, <1>4, <1>8 DEF BInv, CountersInv, Settled
<1>11. WritePending' = WritePending
  BY <1>4 DEF WritePending
<1>12. ChunkInv'
  BY <1>1, <1>4, <1>11 DEF BInv, ChunkInv
<1>13. faulty' # "stale" => EchoInv'
  <2>1. ASSUME EchoInv PROVE EchoInv'
    <3>1. CASE Underway' = Underway
      BY <1>1, <1>4, <1>11, <2>1, <3>1, EchoStays
    <3>2. CASE Underway' = << >> /\ GoneOut(PayloadSize)
      <4>1. Len(Underway') < PayloadSize
        BY <3>2, Sizes
      <4>2. GoneOut(PayloadSize)'
        BY <1>1, <1>4, <1>11, <3>2, <4>1 DEF GoneOut
      <4>3. PayloadSize \in 0 .. PayloadSize
        BY Sizes
      <4> QED BY <1>4, <2>1, <3>2, <4>2, <4>3 DEF EchoInv
    <3> QED BY <2>1, <3>1, <3>2
  <2> QED BY <1>1, <2>1 DEF BInv
<1> QED
  BY <1>3, <1>5, <1>6, <1>7, <1>9, <1>10, <1>12, <1>13 DEF BInv

(* Not all of a response yet. *)
LEMMA HandlesPartInv ==
  ASSUME BInv, HandlesPart
  PROVE  BInv'
<1>1. /\ strand = "after_data" /\ accepted' = accepted /\ ~IsWhole(Response)
      /\ HandlerReturns(session, bench', pending_response')
      /\ bench' = bench /\ pending_response' = Response
      /\ line' = line /\ data' = << >>
  BY DEF HandlesPart, HandlerReturns
<1>2. /\ bench \in Benchmark /\ bench.received_count < Samples
      /\ bench.sent_count \in 1 .. Samples
  BY <1>1, InHandler
<1>3. BenchmarkTypeOK
  BY DEF BInv
<1>4. /\ Response \in Seq(Byte) /\ Underway = Response \o line
      /\ line \in Seq(Byte)
  BY <1>2, <1>3, Bytestreams DEF BenchmarkTypeOK
<1>5. Len(Response) < PayloadSize
  BY <1>1, <1>4, Sizes DEF IsWhole
<1>6. Underway' = Underway
  <2>1. << >> \o line = line
    BY <1>4, ConcatEmptySeq
  <2> QED BY <1>1, <1>4, <2>1 DEF Underway
<1> QED BY <1>1, <1>2, <1>4, <1>5, <1>6, HandlerGoesOn

(* The effect of count_sample and send_next on the counters. *)
LEMMA Counting ==
  ASSUME NEW b \in Benchmark, b.received_count < Samples,
         NEW c, c = count_sample(b), NEW n, n = send_next(c)
  PROVE  /\ c \in Benchmark /\ n \in Benchmark
         /\ c.received_count = b.received_count + 1
         /\ n.received_count = b.received_count + 1
         /\ c.failed = b.failed /\ n.failed = b.failed
         /\ c.stopped = b.stopped /\ n.stopped = b.stopped
         /\ c.startup = b.startup /\ n.startup = b.startup
         /\ c.timer = b.timer /\ n.timer = b.timer
         /\ c.close_posted = b.close_posted /\ n.close_posted = b.close_posted
         /\ c.main = b.main /\ n.main = b.main
         /\ c.sent_count = b.sent_count
         /\ \/ n = c
            \/ /\ b.sent_count < Samples
               /\ n.sent_count = b.sent_count + 1
               /\ n.expected_sequence = b.sent_count
<1>1. /\ c \in Benchmark
      /\ c.received_count = b.received_count + 1
      /\ c.failed = b.failed /\ c.stopped = b.stopped
      /\ c.startup = b.startup /\ c.timer = b.timer
      /\ c.close_posted = b.close_posted /\ c.main = b.main
      /\ c.sent_count = b.sent_count
  BY Sizes DEF Benchmark, count_sample
<1>2. CASE c.sent_count >= Samples
  BY <1>1, <1>2 DEF send_next
<1>3. CASE ~(c.sent_count >= Samples)
  <2>1. c.sent_count \in 0 .. Samples - 1 /\ c.sent_count + 1 \in 0 .. Samples
    BY <1>1, <1>3, Sizes DEF Benchmark
  <2>2. n = [c EXCEPT !.expected_sequence = c.sent_count,
                      !.sent_count = c.sent_count + 1]
    BY <1>3 DEF send_next
  <2>3. /\ n \in Benchmark
        /\ n.sent_count = c.sent_count + 1
        /\ n.expected_sequence = c.sent_count
        /\ n.received_count = c.received_count
        /\ n.failed = c.failed /\ n.stopped = c.stopped
        /\ n.startup = c.startup /\ n.timer = c.timer
        /\ n.close_posted = c.close_posted /\ n.main = c.main
    BY <1>1, <2>1, <2>2 DEF Benchmark
  <2> QED BY <1>1, <1>3, <2>1, <2>3, Sizes
<1> QED BY <1>2, <1>3

(* An open session with an empty queue is not writing. *)
LEMMA NothingToWrite ==
  ASSUME NEW s \in Session, SessionInv(s), ~s.closed, s.write_queue = << >>
  PROVE  s.writes = << >>
<1>1. s.writes \in Seq(WriteOp)
  BY DEF Session
<1>2. s.writes # << >> => 1 \in DOMAIN s.writes
  BY <1>1, EmptySeq
<1> QED BY <1>2 DEF SessionInv, PortInv

(* The handler sends the next request: nothing of the last one is under    *)
(* way any more, though its write may still be pending.                    *)
LEMMA HandlerSends ==
  ASSUME BInv, strand = "after_data", IsWhole(Response),
         HandlerReturns(Core!enqueue_write(session, bench.sent_count),
                        bench', pending_response'),
         accepted' = IF session.closed THEN accepted
                     ELSE Append(accepted, bench.sent_count),
         pending_response' = Rest,
         bench' \in Benchmark, bench'.received_count < Samples,
         bench'.failed = bench.failed, bench'.stopped = bench.stopped,
         bench.sent_count < Samples,
         bench'.sent_count = bench.sent_count + 1,
         bench'.startup = bench.startup, bench'.timer = bench.timer,
         bench'.close_posted = bench.close_posted, bench'.main = bench.main
  PROVE  BInv'
<1> DEFINE m == bench.sent_count
           e == Core!enqueue_write(session, m)
<1>1. /\ session' = Schedule(e)
      /\ strand' = "idle" /\ data' = << >> /\ bench.main = "run"
      /\ UNCHANGED <<wire, unreported, out, line, faulty>>
  BY DEF HandlerReturns, AfterRead, Running
<1>2. /\ Driven(session) /\ Configured(session) /\ session \in Session
      /\ bench.received_count < Samples /\ bench.startup \in {"send", "done"}
      /\ m \in Message /\ bench \in Benchmark
  BY InHandler, Sizes
<1>3. /\ pending_response' \in Seq(Byte) /\ Len(pending_response') < PayloadSize
  BY RestType
<1>4. /\ Driven(session') /\ NoStart(session')
      /\ session'.closed = session.closed
      /\ session'.read_handler = session.read_handler
      /\ session.closed => session'.write_queue = << >>
      /\ ~session.closed =>
           /\ session'.read_enabled = session.read_enabled
           /\ SameHistory(Queued(session, m), session')
           /\ session'.write_queue = Append(session.write_queue, m)
           /\ session.writes # << >> => session'.writes = session.writes
  <2>1. CASE session.closed
    <3>1. e = session
      BY <2>1 DEF Core!enqueue_write
    <3>2. NoStart(session)
      BY <1>2, <2>1, ClosedCannotStart
    <3>3. session' = session
      BY <1>1, <3>1, <3>2 DEF Schedule, Core!schedule_operations, NoStart
    <3>4. session.write_queue = << >>
      BY <1>2, <2>1 DEF Driven, SessionInv, FlagsInv
    <3> QED BY <1>2, <2>1, <3>2, <3>3, <3>4
  <2>2. CASE ~session.closed
    <3>1. /\ Driven(e) /\ NoStart(e) /\ ~e.closed
          /\ SameHistory(Queued(session, m), e)
          /\ e.read_handler = session.read_handler
          /\ e.read_enabled = session.read_enabled
          /\ e.write_queue = Append(session.write_queue, m)
          /\ session.writes # << >> => e.writes = session.writes
      BY <1>2, <2>2, Enqueued
    <3> HIDE DEF e
    <3>2. session' = e
      BY <1>1, <3>1 DEF Schedule, Core!schedule_operations, NoStart
    <3>3. session'.closed = session.closed
      BY <1>2, <2>2, <3>1, <3>2 DEF Driven, Session
    <3> QED BY <2>2, <3>1, <3>2, <3>3
  <2> QED BY <2>1, <2>2
<1> HIDE DEF e
<1>5. IInv'
  <2>1. CASE session.closed
    <3>1. session' \in Session /\ SessionInv(session') /\ session'.closed
      BY <1>4, <2>1 DEF Driven
    <3>2. session' = session
      <4>1. e = session
        BY <2>1 DEF Core!enqueue_write, e
      <4>2. NoStart(session)
        BY <1>2, <2>1, ClosedCannotStart
      <4> QED
        BY <1>1, <4>1, <4>2 DEF Schedule, Core!schedule_operations, NoStart
    <3> QED
      BY <1>1, <2>1, <3>1, <3>2, HistoryRefl, QuietStep DEF BInv
  <2>2. CASE ~session.closed
    <3>1. /\ session' \in Session /\ SessionInv(session') /\ ~session'.closed
          /\ SameHistory(Queued(session, m), session')
          /\ accepted' = Append(accepted, m)
      BY <1>4, <2>2 DEF Driven
    <3> QED BY <1>1, <1>2, <2>2, <3>1, QueuedStep DEF BInv, Queued
  <2> QED BY <2>1, <2>2
<1>6. BenchmarkTypeOK'
  BY <1>1, <1>3, EmptySeq, Sizes DEF BInv, BenchmarkTypeOK
<1>7. WorkConserving' /\ StartupInv'
  BY <1>2, <1>4 DEF BInv, WorkConserving, NoStart, StartupInv
<1>8. bench'.received_count # Samples /\ bench.received_count # Samples
  BY <1>2, Sizes DEF Benchmark
<1>9. FlagsOfRun'
  BY <1>1, <1>8 DEF BInv, FlagsOfRun, Settled
<1>10. CountersInv'
  <2>1. bench.sent_count \in Nat /\ bench'.sent_count = bench.sent_count + 1
    BY <1>2 DEF Benchmark
  <2>2. Len(accepted) \in Nat /\ Len(wire) \in Nat
    BY Parts
  <2>3. Len(accepted') \in Nat /\ Len(accepted') <= Len(accepted) + 1
    BY <1>2, Parts
  <2>4. session.closed => bench.failed \/ Len(wire) < bench.sent_count
    BY <1>8 DEF BInv, CountersInv, Settled
  <2>5. session'.closed \/ bench'.main # "run" =>
          Settled' \/ Len(wire') < bench'.sent_count
    BY <1>1, <1>4, <2>1, <2>2, <2>4 DEF Settled
  <2>6. Len(accepted') + (IF bench'.startup = "done" THEN 0 ELSE 1)
          <= bench'.sent_count
    <3>1. CASE bench.startup = "done"
      <4>1. Len(accepted) <= bench.sent_count
        BY <2>1, <2>2, <3>1 DEF BInv, CountersInv
      <4>2. Len(accepted') <= bench'.sent_count
        BY <2>1, <2>2, <2>3, <4>1
      <4> QED BY <2>1, <2>3, <3>1, <4>2
    <3>2. CASE bench.startup # "done"
      <4>1. Len(accepted) + 1 <= bench.sent_count
        BY <2>1, <2>2, <3>2 DEF BInv, CountersInv
      <4>2. Len(accepted') + 1 <= bench'.sent_count
        BY <2>1, <2>2, <2>3, <4>1
      <4> QED BY <2>1, <2>3, <3>2, <4>2
    <3> QED BY <3>1, <3>2
  <2>7. bench'.sent_count > 0
    BY <2>1
  <2> QED BY <2>5, <2>6, <2>7 DEF CountersInv
<1>11. ChunkInv'
  <2>1. session.writes = << >> => out = 0 \/ session.closed
    BY DEF BInv, ChunkInv, WritePending
  <2>2. session.writes # << >> /\ ~session.closed =>
          WritePending' = WritePending
    BY <1>4 DEF WritePending
  <2>3. ~WritePending' => out = 0 \/ session.closed
    BY <2>1, <2>2 DEF BInv, ChunkInv
  <2> QED BY <1>1, <1>4, <2>3 DEF ChunkInv
<1>12. ASSUME EchoInv PROVE EchoInv'
  <2>1. /\ Underway' = << >> /\ GoneOut(PayloadSize)
        /\ Len(session.write_queue) # 2 /\ bench.startup = "done"
    BY <1>1, <1>12, RestUnderway, WholeResponse
  <2>2. SubSeq(Current', 1, 0) = << >> /\ 0 \in 0 .. PayloadSize
    BY SubSeqEmpty, Sizes
  <2>3. CASE session.closed
    <3>1. session'.write_queue = << >> /\ Len(session'.write_queue) = 0
      BY <1>4, <2>3
    <3>2. GoneOut(0)'
      BY <2>1, <2>2, <3>1 DEF GoneOut
    <3> QED BY <2>1, <2>2, <3>1, <3>2 DEF EchoInv
  <2>4. CASE ~session.closed
    <3>1. /\ session.write_queue \in Seq(Message)
          /\ session.writes \in Seq(WriteOp)
      BY <1>2 DEF Session
    <3>2. /\ session'.write_queue = Append(session.write_queue, m)
          /\ Len(session'.write_queue) = Len(session.write_queue) + 1
          /\ session'.write_queue[Len(session'.write_queue)] = m
      BY <1>2, <1>4, <2>4, <3>1, LongerQueue
    <3>3. Len(session.write_queue) = 0 \/ Len(session.write_queue) = 1
      <4>1. \A n \in Nat : n <= 2 => n = 0 \/ n = 1 \/ n = 2
        OBVIOUS
      <4>2. /\ Len(session.write_queue) <= 2
            /\ Len(session.write_queue) \in Nat
            /\ Len(session.write_queue) # 2
        BY <1>12, <2>1, <3>1 DEF EchoInv
      <4> QED BY <4>1, <4>2
    <3>4. Len(session'.write_queue) <= 2 /\ bench'.sent_count - 1 = m
      <4>1. Len(session'.write_queue) <= 2
        BY <3>2, <3>3
      <4>2. bench.sent_count \in Nat
        BY <1>2 DEF Benchmark
      <4> QED BY <4>1, <4>2
    <3>5. GoneOut(0)'
      <4>1. CASE Len(session.write_queue) = 0
        <5>1. session.write_queue = << >> /\ Len(session'.write_queue) = 1
          BY <3>1, <3>2, <4>1, EmptySeq
        <5>2. session.writes = << >>
          BY <1>2, <2>4, <5>1, NothingToWrite DEF Driven
        <5>3. out = 0
          BY <2>4, <5>2 DEF BInv, ChunkInv, WritePending
        <5> QED BY <1>1, <2>1, <2>2, <5>1, <5>3 DEF GoneOut
      <4>2. CASE Len(session.write_queue) = 1
        <5>1. session.write_queue # << >> /\ Len(session'.write_queue) = 2
          BY <3>1, <3>2, <4>2, ShorterQueue
        <5>2. session.writes # << >>
          BY <1>2, <2>4, <5>1 DEF Driven
        <5>3. WritePending' = WritePending
          BY <1>4, <2>4, <5>2 DEF WritePending
        <5>4. WritePending => out = PayloadSize
          BY <2>1, <4>2 DEF GoneOut
        <5> QED BY <1>1, <2>1, <2>2, <5>1, <5>3, <5>4 DEF GoneOut
      <4> QED BY <3>3, <4>1, <4>2
    <3> QED BY <2>1, <2>2, <3>2, <3>4, <3>5 DEF EchoInv
  <2> QED BY <2>3, <2>4
<1> QED
  BY <1>1, <1>4, <1>5, <1>6, <1>7, <1>9, <1>10, <1>11, <1>12 DEF BInv

(* The echo of the request last sent: a sample. *)
LEMMA HandlesEchoInv ==
  ASSUME BInv, HandlesEcho
  PROVE  BInv'
<1> DEFINE c == count_sample(bench)
           n == send_next(c)
<1>1. strand = "after_data" /\ IsWhole(Response)
  BY DEF HandlesEcho
<1>2. \/ /\ c.received_count >= Samples
         /\ HandlerReturns(CloseSession(session), finish(c), Rest)
         /\ accepted' = accepted
      \/ /\ ~(c.received_count >= Samples) /\ n.sent_count = bench.sent_count
         /\ HandlerReturns(session, n, Rest)
         /\ accepted' = accepted
      \/ /\ ~(c.received_count >= Samples) /\ n.sent_count # bench.sent_count
         /\ HandlerReturns(Core!enqueue_write(session, n.expected_sequence),
                           n, Rest)
         /\ accepted' = IF session.closed THEN accepted
                        ELSE Append(accepted, n.expected_sequence)
  BY DEF HandlesEcho
<1>3. /\ bench \in Benchmark /\ bench.received_count < Samples
      /\ bench.sent_count \in 1 .. Samples
  BY <1>1, InHandler
<1>4. /\ c \in Benchmark /\ n \in Benchmark
      /\ c.received_count = bench.received_count + 1
      /\ n.received_count = bench.received_count + 1
      /\ c.failed = bench.failed /\ n.failed = bench.failed
      /\ c.stopped = bench.stopped /\ n.stopped = bench.stopped
      /\ c.startup = bench.startup /\ n.startup = bench.startup
      /\ c.timer = bench.timer /\ n.timer = bench.timer
      /\ c.close_posted = bench.close_posted
      /\ n.close_posted = bench.close_posted
      /\ c.main = bench.main /\ n.main = bench.main
      /\ c.sent_count = bench.sent_count
      /\ \/ n = c
         \/ /\ bench.sent_count < Samples
            /\ n.sent_count = bench.sent_count + 1
            /\ n.expected_sequence = bench.sent_count
  BY <1>3, Counting
<1> HIDE DEF c, n
<1>5. Rest \in Seq(Byte) /\ Len(Rest) < PayloadSize
  BY <1>1, RestType
<1>6. \A b, s : HandlerReturns(s, b, Rest) =>
        /\ bench' = b /\ pending_response' = Rest
        /\ data' = << >> /\ line' = line
        /\ HandlerReturns(s, bench', pending_response')
  BY DEF HandlerReturns
<1>7. ASSUME pending_response' = Rest, data' = << >>, line' = line, EchoInv
      PROVE  Underway' = << >> /\ GoneOut(PayloadSize)
  BY <1>1, <1>7, RestUnderway, WholeResponse
<1>8. CASE /\ c.received_count >= Samples
           /\ HandlerReturns(CloseSession(session), finish(c), Rest)
           /\ accepted' = accepted
  <2>1. /\ bench' = finish(c) /\ pending_response' = Rest
        /\ data' = << >> /\ line' = line
        /\ HandlerReturns(CloseSession(session), bench', pending_response')
    BY <1>6, <1>8
  <2>2. /\ bench' \in Benchmark /\ bench'.stopped
        /\ bench'.received_count = c.received_count
        /\ bench'.failed = c.failed
        /\ bench'.sent_count = c.sent_count
        /\ bench'.startup = c.startup /\ bench'.timer = c.timer
        /\ bench'.close_posted = c.close_posted /\ bench'.main = c.main
    BY <1>4, <2>1 DEF Benchmark, finish
  <2>3. c.received_count = Samples
    BY <1>3, <1>4, <1>8, Sizes DEF Benchmark
  <2>4. Settled'
    BY <2>2, <2>3 DEF Settled
  <2>5. EchoInv => Underway' = << >>
    BY <1>7, <2>1
  <2> QED
    BY <1>1, <1>4, <1>5, <1>8, <2>1, <2>2, <2>4, <2>5, HandlerCloses
<1>9. ASSUME ~(c.received_count >= Samples) PROVE n.received_count < Samples
  BY <1>3, <1>4, <1>9, Sizes DEF Benchmark
<1>10. CASE /\ ~(c.received_count >= Samples)
            /\ n.sent_count = bench.sent_count
            /\ HandlerReturns(session, n, Rest)
            /\ accepted' = accepted
  <2>1. /\ bench' = n /\ pending_response' = Rest
        /\ data' = << >> /\ line' = line
        /\ HandlerReturns(session, bench', pending_response')
    BY <1>6, <1>10
  <2>2. EchoInv => Underway' = << >> /\ GoneOut(PayloadSize)
    BY <1>7, <2>1
  <2>3. bench'.received_count < Samples
    BY <1>9, <1>10, <2>1
  <2> QED
    BY <1>1, <1>4, <1>5, <1>10, <2>1, <2>2, <2>3, HandlerGoesOn
<1>11. CASE /\ ~(c.received_count >= Samples)
            /\ n.sent_count # bench.sent_count
            /\ HandlerReturns(
                 Core!enqueue_write(session, n.expected_sequence), n, Rest)
            /\ accepted' = IF session.closed THEN accepted
                           ELSE Append(accepted, n.expected_sequence)
  <2>1. /\ bench.sent_count < Samples
        /\ n.sent_count = bench.sent_count + 1
        /\ n.expected_sequence = bench.sent_count
    BY <1>4, <1>11
  <2>2. HandlerReturns(Core!enqueue_write(session, bench.sent_count), n, Rest)
    BY <1>11, <2>1
  <2>3. /\ bench' = n /\ pending_response' = Rest
        /\ data' = << >> /\ line' = line
        /\ HandlerReturns(Core!enqueue_write(session, bench.sent_count),
                          bench', pending_response')
    BY <1>6, <2>2
  <2>4. accepted' = IF session.closed THEN accepted
                    ELSE Append(accepted, bench.sent_count)
    BY <1>11, <2>1
  <2>5. bench'.received_count < Samples
    BY <1>9, <1>11, <2>3
  <2> QED
    BY <1>1, <1>4, <2>1, <2>3, <2>4, <2>5, HandlerSends
<1> QED BY <1>2, <1>8, <1>10, <1>11
-----------------------------------------------------------------------------
(* The port and the line. *)

(* One more byte of a request that is going out. *)
LEMMA OneMoreByte ==
  ASSUME NEW p \in Seq(Byte), NEW g \in 0 .. Len(p) - 1
  PROVE  /\ p[g + 1] \in Byte
         /\ SubSeq(p, 1, g + 1) = Append(SubSeq(p, 1, g), p[g + 1])
<1>1. Len(p) \in Nat /\ g + 1 \in 1 .. Len(p) /\ 1 \in 1 .. g + 1
      /\ 1 \in 1 .. Len(p) /\ g \in Int
  OBVIOUS
<1>2. g + 1 \in 1 .. Len(p) /\ p[g + 1] \in Byte
  BY <1>1
<1>3. SubSeq(p, 1, g + 1) = SubSeq(p, 1, g + 1 - 1) \o << p[g + 1] >>
  BY <1>1, <1>2, SubSeqRecursiveSecond
<1>4. g + 1 - 1 = g
  BY <1>1
<1>5. SubSeq(p, 1, g) \in Seq(Byte)
  <2>1. \A i \in 1 .. g : p[i] \in Byte
    BY <1>1
  <2> QED BY <1>1, <2>1, SubSeqProperties
<1>6. Append(SubSeq(p, 1, g), p[g + 1]) = SubSeq(p, 1, g) \o << p[g + 1] >>
  BY <1>2, <1>5, AppendIsConcat
<1> QED BY <1>2, <1>3, <1>4, <1>6

(* A sequence without one of its elements is shorter. *)
LEMMA Removed ==
  ASSUME NEW p \in Seq(Byte), NEW i \in DOMAIN p, NEW q, q = RemoveAt(p, i)
  PROVE  q \in Seq(Byte) /\ Len(q) < Len(p)
<1>1. Len(p) \in Nat /\ i \in 1 .. Len(p)
  OBVIOUS
<1>2. /\ i - 1 \in Int /\ i + 1 \in Int /\ Len(p) \in Int
      /\ \A j \in 1 .. i - 1 : p[j] \in Byte
      /\ \A j \in i + 1 .. Len(p) : p[j] \in Byte
  BY <1>1
<1>3. /\ SubSeq(p, 1, i - 1) \in Seq(Byte)
      /\ Len(SubSeq(p, 1, i - 1)) = IF 1 <= i - 1 THEN i - 1 - 1 + 1 ELSE 0
  BY <1>2, SubSeqProperties
<1>4. /\ SubSeq(p, i + 1, Len(p)) \in Seq(Byte)
      /\ Len(SubSeq(p, i + 1, Len(p)))
           = IF i + 1 <= Len(p) THEN Len(p) - (i + 1) + 1 ELSE 0
  BY <1>2, SubSeqProperties
<1>5. /\ q \in Seq(Byte)
      /\ Len(q) = Len(SubSeq(p, 1, i - 1)) + Len(SubSeq(p, i + 1, Len(p)))
  BY <1>3, <1>4, ConcatProperties DEF RemoveAt
<1>6. Len(SubSeq(p, 1, i - 1)) = i - 1
  BY <1>1, <1>3
<1>7. Len(SubSeq(p, i + 1, Len(p))) = Len(p) - i
  BY <1>1, <1>4
<1> QED BY <1>1, <1>5, <1>6, <1>7

(* A write that is pending is one of an open session, and reads the front  *)
(* of the queue.                                                           *)
LEMMA PendingWrite ==
  ASSUME BInv, WritePending
  PROVE  /\ ~session.closed
         /\ session.writes \in Seq(WriteOp) /\ session.writes # << >>
         /\ Head(session.writes) \in WriteOp
         /\ session.write_queue # << >>
         /\ session.write_queue \in Seq(Message)
         /\ Head(session.writes).message = Head(session.write_queue)
<1>1. /\ session \in Session /\ SessionInv(session)
      /\ session.writes \in Seq(WriteOp) /\ session.writes # << >>
      /\ session.write_queue \in Seq(Message)
  BY Parts DEF WritePending, Session
<1>2. /\ 1 \in DOMAIN session.writes /\ Head(session.writes) = session.writes[1]
      /\ session.writes[1] \in WriteOp
  BY <1>1, EmptySeq
<1>3. ~session.closed
  BY <1>1, <1>2, Sizes DEF SessionInv, PortInv, WritePending
<1>4. /\ session.write_queue # << >>
      /\ Head(session.write_queue) = session.writes[1].message
  BY <1>1, <1>2, <1>3 DEF SessionInv, PortInv
<1> QED BY <1>1, <1>2, <1>3, <1>4

(* The session is not touched. *)
LEMMA SessionApart ==
  ASSUME BInv, UNCHANGED vars
  PROVE  /\ IInv' /\ Driven(session)' /\ WorkConserving'
         /\ session' = session /\ strand' = strand
         /\ accepted' = accepted /\ wire' = wire
         /\ WritePending' = WritePending
<1>1. /\ session' = session /\ strand' = strand
      /\ accepted' = accepted /\ wire' = wire /\ unreported' = unreported
  BY DEF vars
<1>2. IInv'
  BY <1>1, HistoryRefl, QuietStep DEF BInv, IInv, TypeOK
<1> QED
  BY <1>1, <1>2
     DEF BInv, Driven, Fits, WorkConserving, can_start_read, can_start_write,
         has_pending_writes, WritePending

(* A byte goes out and is on its way back. *)
LEMMA ByteGoesOutInv ==
  ASSUME BInv, ByteGoesOut
  PROVE  BInv'
<1> DEFINE b == make_payload(Head(session.writes).message)[out + 1]
<1>1. /\ WritePending /\ out < PayloadSize /\ out' = out + 1
      /\ line' = Append(line, b)
      /\ bench' = bench /\ data' = data
      /\ pending_response' = pending_response /\ faulty' = faulty
      /\ UNCHANGED vars
  BY DEF ByteGoesOut
<1>2. /\ IInv' /\ Driven(session)' /\ WorkConserving'
      /\ session' = session /\ strand' = strand
      /\ accepted' = accepted /\ wire' = wire
      /\ WritePending' = WritePending
  BY <1>1, SessionApart
<1>3. /\ ~session.closed /\ Head(session.writes) \in WriteOp
      /\ session.write_queue # << >> /\ session.write_queue \in Seq(Message)
      /\ Head(session.writes).message = Head(session.write_queue)
  BY <1>1, PendingWrite
<1>4. /\ out \in 0 .. PayloadSize - 1 /\ out + 1 \in 0 .. PayloadSize
      /\ out + 1 \in 1 .. PayloadSize
      /\ line \in Seq(Byte) /\ pending_response \in Seq(Byte)
      /\ data \in Seq(Byte)
  BY <1>1, Sizes DEF BInv, BenchmarkTypeOK
<1>5. b \in Byte
  <2>1. Head(session.writes).message \in 0 .. Samples - 1
    BY <1>3, Sizes DEF WriteOp
  <2> DEFINE p == make_payload(Head(session.writes).message)
  <2>2. p \in Seq(Byte) /\ Len(p) = PayloadSize
    BY <2>1, PayloadType
  <2> HIDE DEF p
  <2>3. p[out + 1] \in Byte
    BY <1>4, <2>2
  <2> QED BY <2>3 DEF p
<1> HIDE DEF b
<1>6. BenchmarkTypeOK'
  <2>1. line' \in Seq(Byte)
    BY <1>1, <1>4, <1>5
  <2> QED BY <1>1, <1>4, <2>1 DEF BInv, BenchmarkTypeOK
<1>7. StartupInv' /\ FlagsOfRun' /\ CountersInv'
  BY <1>1, <1>2 DEF BInv, StartupInv, FlagsOfRun, CountersInv, Settled
<1>8. ChunkInv'
  BY <1>1, <1>2 DEF BInv, ChunkInv
<1>9. ASSUME EchoInv PROVE EchoInv'
  <2>1. /\ Underway \in Seq(Byte) /\ data \o line \in Seq(Byte)
        /\ Current \in Seq(Byte) /\ Len(Current) = PayloadSize
    <3>1. BenchmarkTypeOK /\ bench.sent_count \in 1 .. Samples
      BY DEF BInv, CountersInv, BenchmarkTypeOK, Benchmark
    <3> QED BY <3>1, Bytestreams
  <2>2. Underway' = Append(Underway, b)
    <3>1. data \o Append(line, b) = Append(data \o line, b)
      BY <1>4, <1>5, ConcatAppend
    <3>2. pending_response \o Append(data \o line, b)
            = Append(pending_response \o (data \o line), b)
      BY <1>4, <1>5, <2>1, ConcatAppend
    <3> QED BY <1>1, <3>1, <3>2 DEF Underway
  <2>3. PICK g \in 0 .. PayloadSize : GoneOut(g)
    BY <1>9 DEF EchoInv
  <2>4. Len(session.write_queue) = 1
    <3>1. Len(session.write_queue) # 2
      BY <1>1, <1>4, <2>3 DEF GoneOut
    <3>2. /\ Len(session.write_queue) \in Nat /\ Len(session.write_queue) <= 2
          /\ Len(session.write_queue) # 0
      BY <1>3, <1>9, EmptySeq DEF EchoInv
    <3>3. \A n \in Nat : n <= 2 => n = 0 \/ n = 1 \/ n = 2
      OBVIOUS
    <3> QED BY <3>1, <3>2, <3>3
  <2>5. g = out
    BY <1>1, <2>3, <2>4 DEF GoneOut
  <2>6. b = Current[out + 1]
    <3>1. Head(session.write_queue) = session.write_queue[1]
      BY <1>3
    <3>2. session.write_queue[1] = bench.sent_count - 1
      BY <1>3, <1>9, <2>4 DEF EchoInv
    <3> QED BY <1>3, <3>1, <3>2 DEF b, Current
  <2>7. /\ Current[out + 1] \in Byte
        /\ SubSeq(Current, 1, out + 1)
             = Append(SubSeq(Current, 1, out), Current[out + 1])
    BY <1>4, <2>1, OneMoreByte
  <2>8. \/ Underway' = SubSeq(Current, 1, out + 1)
        \/ Len(Underway') < out + 1
    <3>1. CASE Underway = SubSeq(Current, 1, out)
      BY <2>2, <2>6, <2>7, <3>1
    <3>2. CASE Len(Underway) < out
      <4>1. Len(Underway) \in Nat /\ Len(Underway') = Len(Underway) + 1
        BY <1>5, <2>1, <2>2, AppendProperties
      <4> QED BY <1>4, <3>2, <4>1
    <3> QED BY <2>3, <2>5, <3>1, <3>2 DEF GoneOut
  <2>9. Current' = Current
    BY <1>1 DEF Current
  <2>10. GoneOut(g + 1)'
    <3>1. Len(session'.write_queue) = 1
      BY <1>2, <2>4
    <3>2. out' = g + 1
      BY <1>1, <2>5
    <3>3. \/ Underway' = SubSeq(Current', 1, g + 1)
          \/ Len(Underway') < g + 1
      BY <2>5, <2>8, <2>9
    <3> QED BY <3>1, <3>2, <3>3 DEF GoneOut
  <2>11. g + 1 \in 0 .. PayloadSize
    BY <1>4, <2>5
  <2>12. bench.startup = "done"
    BY <1>3, <1>9 DEF EchoInv
  <2> QED BY <1>1, <1>2, <1>9, <2>10, <2>11, <2>12 DEF EchoInv
<1> QED
  BY <1>1, <1>2, <1>6, <1>7, <1>8, <1>9 DEF BInv

(* A byte is lost. *)
LEMMA ByteIsLostInv ==
  ASSUME BInv, ByteIsLost
  PROVE  BInv'
<1>1. /\ UNCHANGED vars /\ bench' = bench /\ out' = out /\ data' = data
      /\ pending_response' = pending_response
      /\ faulty' = IF faulty = "no" THEN "lossy" ELSE faulty
  BY DEF ByteIsLost, Faulty
<1>2. /\ IInv' /\ Driven(session)' /\ WorkConserving'
      /\ session' = session /\ strand' = strand
      /\ accepted' = accepted /\ wire' = wire
      /\ WritePending' = WritePending
  BY <1>1, SessionApart
<1>3. /\ line \in Seq(Byte) /\ pending_response \in Seq(Byte)
      /\ data \in Seq(Byte) /\ faulty \in {"no", "stale", "lossy", "failed"}
  BY DEF BInv, BenchmarkTypeOK
<1>4. line' \in Seq(Byte) /\ Len(line') < Len(line)
  <2>1. PICK i \in DOMAIN line : line' = RemoveAt(line, i)
    BY DEF ByteIsLost
  <2> QED BY <1>3, <2>1, Removed
<1>5. BenchmarkTypeOK'
  BY <1>1, <1>3, <1>4 DEF BInv, BenchmarkTypeOK
<1>6. StartupInv' /\ FlagsOfRun' /\ CountersInv' /\ ChunkInv'
  BY <1>1, <1>2 DEF BInv, StartupInv, FlagsOfRun, CountersInv, Settled, ChunkInv
<1>7. ASSUME EchoInv PROVE EchoInv'
  <2>1. Current' = Current
    BY <1>1 DEF Current
  <2>2. Len(Underway') < Len(Underway) /\ Len(Underway) \in Nat
        /\ Len(Underway') \in Nat
    <3>1. /\ data \o line \in Seq(Byte)
          /\ Len(data \o line) = Len(data) + Len(line)
          /\ data \o line' \in Seq(Byte)
          /\ Len(data \o line') = Len(data) + Len(line')
      BY <1>3, <1>4, ConcatProperties
    <3>2. /\ Underway \in Seq(Byte)
          /\ Len(Underway) = Len(pending_response) + Len(data \o line)
          /\ Underway' \in Seq(Byte)
          /\ Len(Underway') = Len(pending_response) + Len(data \o line')
      BY <1>1, <1>3, <3>1, ConcatProperties DEF Underway
    <3> QED BY <1>3, <1>4, <3>1, <3>2
  <2>3. PICK g \in 0 .. PayloadSize : GoneOut(g)
    BY <1>7 DEF EchoInv
  <2>4. Len(Underway) <= g
    <3>1. CASE Underway = SubSeq(Current, 1, g)
      <4>1. Current \in Seq(Byte) /\ Len(Current) = PayloadSize
        <5>1. BenchmarkTypeOK /\ bench.sent_count \in 1 .. Samples
          BY DEF BInv, CountersInv, BenchmarkTypeOK, Benchmark
        <5> QED BY <5>1, Bytestreams
      <4>2. g \in Int /\ \A i \in 1 .. g : Current[i] \in Byte
        BY <4>1, Sizes
      <4>3. Len(SubSeq(Current, 1, g)) = IF 1 <= g THEN g - 1 + 1 ELSE 0
        BY <4>2, SubSeqProperties
      <4> QED BY <3>1, <4>3, Sizes
    <3>2. CASE Len(Underway) < g
      BY <2>2, <3>2, Sizes
    <3> QED BY <2>3, <3>1, <3>2 DEF GoneOut
  <2>5. Len(Underway') < g
    BY <2>2, <2>4, Sizes
  <2>6. GoneOut(g)'
    BY <1>1, <1>2, <2>3, <2>5 DEF GoneOut
  <2>7. bench.startup = "done"
    <3>1. Underway # << >>
      BY <2>2
    <3> QED BY <1>7, <3>1 DEF EchoInv
  <2> QED BY <1>1, <1>2, <1>7, <2>6, <2>7 DEF EchoInv
<1> QED
  BY <1>1, <1>2, <1>5, <1>6, <1>7 DEF BInv

(* A completion of the port changes one operation and nothing else of the  *)
(* session.                                                                *)
LEMMA PortKeeps ==
  ASSUME BInv, IInv', bench.main = "run", bench' = bench, strand' = strand,
         session'.read_handler = session.read_handler,
         session'.write_queue = session.write_queue,
         session'.read_enabled = session.read_enabled,
         session'.read_in_progress = session.read_in_progress,
         session'.write_in_progress = session.write_in_progress,
         session'.closed = session.closed,
         session'.duplex_mode = session.duplex_mode,
         session'.read_buffer = session.read_buffer,
         session'.read_pause_for_write = session.read_pause_for_write,
         session.reads = << >> => session'.reads = << >>,
         session.writes = << >> <=> session'.writes = << >>,
         Fits(session'), ~session.closed, accepted' = accepted
  PROVE  /\ Driven(session)' /\ WorkConserving'
         /\ StartupInv' /\ FlagsOfRun' /\ CountersInv'
<1>1. session' \in Session /\ SessionInv(session')
  BY DEF IInv, TypeOK
<1>2. Driven(session)'
  BY <1>1 DEF BInv, Driven
<1>3. WorkConserving'
  BY DEF BInv, WorkConserving, can_start_read, can_start_write,
         has_pending_writes
<1>4. StartupInv'
  BY DEF BInv, StartupInv
<1>5. FlagsOfRun'
  BY DEF BInv, FlagsOfRun, Settled
<1>6. CountersInv'
  BY DEF BInv, CountersInv
<1> QED BY <1>2, <1>3, <1>4, <1>5, <1>6

(* The write in progress ends: written out whole, or failed. *)
LEMMA WriteEndsInv ==
  ASSUME BInv, WriteEnds
  PROVE  BInv'
<1> DEFINE w(status) == << [Head(session.writes) EXCEPT !.status = status] >>
                          \o Tail(session.writes)
<1>1. /\ WritePending /\ bench.main = "run" /\ out' = 0
      /\ bench' = bench /\ line' = line /\ data' = data
      /\ pending_response' = pending_response
      /\ strand' = strand /\ accepted' = accepted /\ unreported' = unreported
      /\ \/ PortWrites /\ faulty' = faulty
         \/ /\ PortWriteFails
            /\ faulty' = IF faulty = "no" THEN "failed" ELSE faulty
  BY DEF WriteEnds, Running, Faulty, PortWrites, PortWriteFails
<1>2. IInv'
  BY <1>1, PortWritesStep, PortWriteFailsStep DEF BInv
<1>3. /\ ~session.closed /\ session.writes # << >>
      /\ session.writes \in Seq(WriteOp)
      /\ session.write_queue # << >>
      /\ session \in Session /\ SessionInv(session)
  BY <1>1, PendingWrite, Parts
<1>4. PICK st \in {"done", "failed"} :
        session' = [session EXCEPT !.writes = w(st)]
  <2>1. CASE PortWrites
    BY <2>1 DEF PortWrites
  <2>2. CASE PortWriteFails
    BY <2>2 DEF PortWriteFails
  <2> QED BY <1>1, <2>1, <2>2
<1> DEFINE op == [Head(session.writes) EXCEPT !.status = st]
<1>5. op.status = st /\ op \in WriteOp
  <2>1. Head(session.writes) \in WriteOp
    BY <1>3
  <2> QED BY <2>1 DEF WriteOp, Status
<1>6. w(st) = << op >>
  <2> HIDE DEF op
  <2>1. Len(session.writes) = 1
    BY <1>3, EmptySeq DEF SessionInv, FlagsInv
  <2>2. << op >> \o Tail(session.writes) = << op >>
    BY <1>3, <1>5, <2>1, ReplacedOne
  <2> QED BY <2>2 DEF op
<1>7. w(st) # << >> /\ Head(w(st)).status = st
  <2> HIDE DEF op, w
  <2>1. \A x \in WriteOp : << x >> # << >> /\ Head(<< x >>) = x
    OBVIOUS
  <2> QED BY <1>5, <1>6, <2>1
<1> HIDE DEF w
<1>8. /\ session'.read_handler = session.read_handler
      /\ session'.write_queue = session.write_queue
      /\ session'.read_enabled = session.read_enabled
      /\ session'.read_in_progress = session.read_in_progress
      /\ session'.write_in_progress = session.write_in_progress
      /\ session'.closed = session.closed
      /\ session'.duplex_mode = session.duplex_mode
      /\ session'.read_buffer = session.read_buffer
      /\ session'.read_pause_for_write = session.read_pause_for_write
      /\ session'.reads = session.reads
      /\ session'.writes = w(st)
  BY <1>3, <1>4 DEF Session
<1>9. ~WritePending'
  BY <1>7, <1>8 DEF WritePending
<1>10. Fits(session')
  BY <1>8 DEF BInv, Driven, Fits
<1>11. /\ Driven(session)' /\ WorkConserving'
       /\ StartupInv' /\ FlagsOfRun' /\ CountersInv'
  BY <1>1, <1>2, <1>3, <1>7, <1>8, <1>10, PortKeeps
<1>12. BenchmarkTypeOK'
  BY <1>1, Sizes DEF BInv, BenchmarkTypeOK
<1>13. ChunkInv'
  BY <1>1, <1>8 DEF BInv, ChunkInv
<1>14. ASSUME EchoInv PROVE EchoInv'
  <2>1. Underway' = Underway /\ Current' = Current
    BY <1>1 DEF Underway, Current
  <2>2. ASSUME NEW g \in 0 .. PayloadSize, GoneOut(g) PROVE GoneOut(g)'
    BY <1>8, <1>9, <2>1, <2>2 DEF GoneOut
  <2> QED BY <1>1, <1>8, <1>14, <2>1, <2>2 DEF EchoInv
<1> QED
  BY <1>1, <1>2, <1>11, <1>12, <1>13, <1>14 DEF BInv

(* While a read is pending nothing that was read before is kept. *)
LEMMA PendingRead ==
  ASSUME BInv, ReadPending
  PROVE  /\ data = << >> /\ strand = "idle"
         /\ session \in Session /\ SessionInv(session)
         /\ session.reads \in Seq(ReadOp) /\ Len(session.reads) = 1
         /\ Head(session.reads) \in ReadOp
         /\ Head(session.reads).room = PayloadSize
         /\ Head(session.reads).bytes <= PayloadSize
         /\ ~session.closed
<1>1. session.reads # << >> /\ Head(session.reads).status = "pending"
  BY DEF ReadPending
<1>2. /\ session \in Session /\ SessionInv(session) /\ Driven(session)
      /\ session.reads \in Seq(ReadOp) /\ Len(session.reads) = 1
  BY <1>1, Parts, EmptySeq DEF BInv, Session, SessionInv, FlagsInv
<1>3. data = << >> /\ strand = "idle"
  BY <1>1 DEF BInv, ChunkInv
<1>4. 1 \in DOMAIN session.reads /\ Head(session.reads) = session.reads[1]
      /\ session.reads[1] \in ReadOp
  BY <1>2
<1>5. /\ session.reads[1].room = PayloadSize
      /\ session.reads[1].bytes <= PayloadSize
  BY <1>2, <1>4 DEF Driven, Fits
<1>6. ~session.closed
  BY <1>1, <1>2, <1>4, Sizes DEF SessionInv, PortInv
<1> QED BY <1>2, <1>3, <1>4, <1>5, <1>6

(* The read in progress ends, with op in its place.                        *)
LEMMA ReadReplaced ==
  ASSUME BInv, IInv', ReadPending, bench.main = "run", bench' = bench,
         strand' = strand, accepted' = accepted, NEW op \in ReadOp,
         op.room = PayloadSize, op.bytes <= PayloadSize,
         session' = [session EXCEPT !.reads = << op >> \o Tail(session.reads)]
  PROVE  /\ Driven(session)' /\ WorkConserving'
         /\ StartupInv' /\ FlagsOfRun' /\ CountersInv'
         /\ session'.closed = session.closed
         /\ session'.write_queue = session.write_queue
         /\ session'.writes = session.writes
         /\ session'.reads # << >> /\ Head(session'.reads) = op
<1> DEFINE r == << op >> \o Tail(session.reads)
<1>1. r = << op >>
  <2>1. session.reads \in Seq(ReadOp) /\ Len(session.reads) = 1
    BY PendingRead
  <2> QED BY <2>1, ReplacedOne
<1> HIDE DEF r
<1>2. session' = [session EXCEPT !.reads = r] /\ session \in Session
  BY Parts DEF r
<1>3. /\ session'.read_handler = session.read_handler
      /\ session'.write_queue = session.write_queue
      /\ session'.read_enabled = session.read_enabled
      /\ session'.read_in_progress = session.read_in_progress
      /\ session'.write_in_progress = session.write_in_progress
      /\ session'.closed = session.closed
      /\ session'.duplex_mode = session.duplex_mode
      /\ session'.read_buffer = session.read_buffer
      /\ session'.read_pause_for_write = session.read_pause_for_write
      /\ session'.writes = session.writes
      /\ session'.reads = r
  BY <1>2 DEF Session
<1>4. r # << >> /\ Head(r) = op /\ \A i \in DOMAIN r : r[i] = op
  BY <1>1
<1>5. Fits(session')
  BY <1>3, <1>4 DEF BInv, Driven, Fits
<1>6. ~session.closed /\ session.reads # << >>
  BY PendingRead DEF ReadPending
<1>7. /\ Driven(session)' /\ WorkConserving'
      /\ StartupInv' /\ FlagsOfRun' /\ CountersInv'
  BY <1>3, <1>5, <1>6, PortKeeps
<1> QED BY <1>3, <1>4, <1>7

(* A read brings the first bytes of the line. *)
LEMMA ReadEndsInv ==
  ASSUME BInv, ReadEnds
  PROVE  BInv'
<1>1. /\ PortReads /\ ReadPending /\ bench.main = "run"
      /\ bench' = bench /\ out' = out
      /\ pending_response' = pending_response /\ faulty' = faulty
      /\ strand' = strand /\ accepted' = accepted
  BY DEF ReadEnds, Running, PortReads
<1>2. IInv'
  BY <1>1, PortReadsStep DEF BInv
<1>3. /\ data = << >> /\ strand = "idle"
      /\ Head(session.reads) \in ReadOp
      /\ Head(session.reads).room = PayloadSize
  BY <1>1, PendingRead
<1>4. PICK n \in 1 .. Head(session.reads).room :
        session' = [session EXCEPT !.reads =
          << [Head(session.reads) EXCEPT !.status = "done", !.bytes = n] >>
             \o Tail(session.reads)]
  BY <1>1 DEF PortReads
<1> DEFINE op == [Head(session.reads) EXCEPT !.status = "done", !.bytes = n]
<1>5. /\ op \in ReadOp /\ op.status = "done" /\ op.bytes = n
      /\ op.room = PayloadSize /\ n \in 1 .. PayloadSize /\ n \in Nat
  <2>1. n \in 1 .. PayloadSize /\ n \in Nat
    BY <1>3, <1>4, Sizes
  <2> QED BY <1>3, <2>1 DEF ReadOp, Status
<1> HIDE DEF op
<1>6. session' = [session EXCEPT !.reads = << op >> \o Tail(session.reads)]
  BY <1>4 DEF op
<1>7. op.bytes <= PayloadSize
  BY <1>5, Sizes
<1>8. /\ Driven(session)' /\ WorkConserving'
      /\ StartupInv' /\ FlagsOfRun' /\ CountersInv'
      /\ session'.closed = session.closed
      /\ session'.write_queue = session.write_queue
      /\ session'.writes = session.writes
      /\ session'.reads # << >> /\ Head(session'.reads) = op
  BY <1>1, <1>2, <1>5, <1>6, <1>7, ReadReplaced
<1>9. /\ n <= Len(line) /\ data' = SubSeq(line, 1, n)
      /\ line' = SubSeq(line, n + 1, Len(line))
  BY <1>5, <1>8 DEF ReadEnds
<1>10. line \in Seq(Byte) /\ pending_response \in Seq(Byte)
  BY DEF BInv, BenchmarkTypeOK
<1>11. /\ data' \in Seq(Byte) /\ Len(data') = n /\ line' \in Seq(Byte)
       /\ data' \o line' = line
  <2>1. /\ Len(line) \in Nat /\ 1 \in 1 .. Len(line) + 1
        /\ n \in 1 - 1 .. Len(line) /\ Len(line) \in n .. Len(line)
        /\ n \in Int /\ n + 1 \in Int
        /\ \A i \in 1 .. n : line[i] \in Byte
        /\ \A i \in n + 1 .. Len(line) : line[i] \in Byte
    BY <1>5, <1>9, <1>10
  <2>2. /\ SubSeq(line, 1, n) \in Seq(Byte)
        /\ Len(SubSeq(line, 1, n)) = IF 1 <= n THEN n - 1 + 1 ELSE 0
        /\ SubSeq(line, n + 1, Len(line)) \in Seq(Byte)
    BY <2>1, SubSeqProperties
  <2>3. SubSeq(line, 1, n) \o SubSeq(line, n + 1, Len(line))
          = SubSeq(line, 1, Len(line))
    BY <1>10, <2>1, ConcatAdjacentSubSeq
  <2>4. SubSeq(line, 1, Len(line)) = line
    BY <1>10, SubSeqFull
  <2>5. Len(SubSeq(line, 1, n)) = n
    BY <1>5, <2>2
  <2> QED BY <1>9, <2>2, <2>3, <2>4, <2>5
<1>12. BenchmarkTypeOK'
  BY <1>1, <1>5, <1>7, <1>11 DEF BInv, BenchmarkTypeOK
<1>13. WritePending' = WritePending
  BY <1>8 DEF WritePending
<1>14. ChunkInv'
  BY <1>1, <1>3, <1>5, <1>8, <1>13 DEF BInv, ChunkInv
<1>15. Underway' = Underway
  <2>1. << >> \o line = line
    BY <1>10, ConcatEmptySeq
  <2> QED BY <1>1, <1>3, <1>11, <2>1 DEF Underway
<1>16. ASSUME EchoInv PROVE EchoInv'
  BY <1>1, <1>8, <1>13, <1>15, <1>16, EchoStays
<1> QED
  BY <1>1, <1>2, <1>8, <1>12, <1>14, <1>16 DEF BInv

(* A read fails. *)
LEMMA ReadFailsInv ==
  ASSUME BInv, ReadFails
  PROVE  BInv'
<1>1. /\ PortReadFails /\ ReadPending /\ bench.main = "run"
      /\ bench' = bench /\ out' = out /\ line' = line /\ data' = data
      /\ pending_response' = pending_response
      /\ faulty' = IF faulty = "no" THEN "failed" ELSE faulty
      /\ strand' = strand /\ accepted' = accepted
  BY DEF ReadFails, Running, PortReadFails, Faulty
<1>2. IInv'
  BY <1>1, PortReadFailsStep DEF BInv
<1>3. /\ data = << >> /\ strand = "idle"
      /\ Head(session.reads) \in ReadOp
      /\ Head(session.reads).room = PayloadSize
      /\ Head(session.reads).bytes <= PayloadSize
  BY <1>1, PendingRead
<1> DEFINE op == [Head(session.reads) EXCEPT !.status = "failed"]
<1>4. op \in ReadOp /\ op.room = PayloadSize /\ op.bytes <= PayloadSize
  BY <1>3 DEF ReadOp, Status
<1> HIDE DEF op
<1>5. session' = [session EXCEPT !.reads = << op >> \o Tail(session.reads)]
  BY <1>1 DEF PortReadFails, op
<1>6. /\ Driven(session)' /\ WorkConserving'
      /\ StartupInv' /\ FlagsOfRun' /\ CountersInv'
      /\ session'.closed = session.closed
      /\ session'.write_queue = session.write_queue
      /\ session'.writes = session.writes
  BY <1>1, <1>2, <1>4, <1>5, ReadReplaced
<1>7. BenchmarkTypeOK'
  BY <1>1 DEF BInv, BenchmarkTypeOK
<1>8. WritePending' = WritePending
  BY <1>6 DEF WritePending
<1>9. ChunkInv'
  BY <1>1, <1>3, <1>6, <1>8 DEF BInv, ChunkInv
<1>10. Underway' = Underway
  BY <1>1 DEF Underway
<1>11. ASSUME EchoInv PROVE EchoInv'
  BY <1>1, <1>6, <1>8, <1>10, <1>11, EchoStays
<1> QED
  BY <1>1, <1>2, <1>6, <1>7, <1>9, <1>11 DEF BInv
-----------------------------------------------------------------------------
(* The main thread and the timer. *)

(* A step of a thread that leaves the session and the line alone.          *)
LEMMA ThreadStep ==
  ASSUME BInv, UNCHANGED <<vars, lineVars>>,
         bench' \in Benchmark, FlagsOfRun',
         bench.failed => bench'.failed,
         bench'.sent_count = bench.sent_count,
         bench'.received_count = bench.received_count,
         bench'.startup = bench.startup,
         bench'.main # "run" =>
           \/ bench.main # "run"
           \/ Settled
           \/ Len(wire) < bench.sent_count
  PROVE  BInv'
<1>1. /\ UNCHANGED vars
      /\ out' = out /\ line' = line /\ data' = data
      /\ pending_response' = pending_response /\ faulty' = faulty
  BY DEF lineVars
<1>2. /\ IInv' /\ Driven(session)' /\ WorkConserving'
      /\ session' = session /\ strand' = strand
      /\ accepted' = accepted /\ wire' = wire
      /\ WritePending' = WritePending
  BY <1>1, SessionApart
<1>3. BenchmarkTypeOK'
  BY <1>1 DEF BInv, BenchmarkTypeOK
<1>4. StartupInv' /\ ChunkInv'
  BY <1>1, <1>2 DEF BInv, StartupInv, ChunkInv
<1>5. CountersInv'
  BY <1>2 DEF BInv, CountersInv, Settled
<1>6. faulty' # "stale" => EchoInv'
  BY <1>1, <1>2, EchoQuiet DEF BInv
<1> QED BY <1>2, <1>3, <1>4, <1>5, <1>6 DEF BInv

(* run() returns because it was stopped, or because nothing is left to wait *)
(* for: an open session would be waiting for a read.                        *)
LEMMA RunReturnsInv ==
  ASSUME BInv, strand = "idle", RunReturns(OutOfWork),
         UNCHANGED <<vars, lineVars>>
  PROVE  BInv'
<1>1. /\ bench.main = "run"
      /\ bench.stopped \/ OutOfWork
      /\ bench' = [bench EXCEPT !.main = "complete", !.stopped = TRUE]
  BY DEF RunReturns
<1>2. bench \in Benchmark /\ session \in Session /\ SessionInv(session)
  BY Parts
<1>3. /\ bench' \in Benchmark /\ bench'.main = "complete" /\ bench'.stopped
      /\ bench'.failed = bench.failed
      /\ bench'.sent_count = bench.sent_count
      /\ bench'.received_count = bench.received_count
      /\ bench'.startup = bench.startup /\ bench'.timer = bench.timer
      /\ bench'.close_posted = bench.close_posted
  BY <1>1, <1>2 DEF Benchmark
<1>4. strand' = strand
  BY DEF vars
<1>5. FlagsOfRun'
  BY <1>3, <1>4 DEF BInv, FlagsOfRun
<1>6. Settled \/ Len(wire) < bench.sent_count
  <2>1. CASE bench.stopped
    BY <1>1, <2>1 DEF BInv, FlagsOfRun
  <2>2. CASE OutOfWork
    <3>1. ~can_start_read(session)
      BY DEF BInv, WorkConserving
    <3>2. ~session.read_in_progress
      BY <1>2, <2>2 DEF OutOfWork, SessionInv, FlagsInv
    <3>3. session.closed
      <4>1. ~session.closed => session.read_enabled
        BY <2>2 DEF BInv, StartupInv, OutOfWork
      <4>2. session.duplex_mode = "full_duplex"
        BY DEF BInv, Driven
      <4> QED BY <3>1, <3>2, <4>1, <4>2 DEF can_start_read
    <3> QED BY <3>3 DEF BInv, CountersInv
  <2> QED BY <1>1, <2>1, <2>2
<1> QED BY <1>3, <1>5, <1>6, ThreadStep

(* main, from the end of run() on. *)
LEMMA MainInv ==
  ASSUME BInv, Apart(Main)
  PROVE  BInv'
<1>1. Main /\ UNCHANGED <<vars, lineVars>> /\ bench \in Benchmark
  BY Parts DEF Apart
<1>2. strand' = strand
  BY <1>1 DEF vars
<1>3. CASE strand = "idle" /\ RunReturns(OutOfWork)
  BY <1>1, <1>3, RunReturnsInv
<1>4. CASE MainCompletes
  <2>1. /\ bench' \in Benchmark /\ bench.main # "run" /\ bench'.main = "join"
        /\ bench'.failed = bench.failed /\ bench'.stopped = bench.stopped
        /\ bench'.sent_count = bench.sent_count
        /\ bench'.received_count = bench.received_count
        /\ bench'.startup = bench.startup /\ bench'.timer = bench.timer
        /\ bench'.close_posted = bench.close_posted
    BY <1>1, <1>4 DEF MainCompletes, Benchmark
  <2>2. FlagsOfRun'
    BY <1>2, <2>1 DEF BInv, FlagsOfRun, Settled
  <2> QED BY <1>1, <2>1, <2>2, ThreadStep
<1>5. CASE MainJoins
  <2>1. /\ bench' \in Benchmark /\ bench.main # "run" /\ bench'.main = "exited"
        /\ bench'.failed = bench.failed /\ bench'.stopped = bench.stopped
        /\ bench'.sent_count = bench.sent_count
        /\ bench'.received_count = bench.received_count
        /\ bench'.startup = bench.startup /\ bench'.timer = bench.timer
        /\ bench'.close_posted = bench.close_posted
    BY <1>1, <1>5 DEF MainJoins, Benchmark
  <2>2. FlagsOfRun'
    BY <1>2, <2>1 DEF BInv, FlagsOfRun, Settled
  <2> QED BY <1>1, <2>1, <2>2, ThreadStep
<1> QED BY <1>1, <1>3, <1>4, <1>5 DEF Main

(* The fields that the timer's steps do not write. *)
TimerLeaves(b, c) ==
  /\ c \in Benchmark
  /\ c.main = b.main
  /\ c.sent_count = b.sent_count
  /\ c.received_count = b.received_count
  /\ c.startup = b.startup

(* The timer thread, step by step: from the first flag it sets on, the run *)
(* has failed.                                                             *)
LEMMA TimerInv ==
  ASSUME BInv, Apart(Timer)
  PROVE  BInv'
<1>1. Timer /\ UNCHANGED <<vars, lineVars>> /\ bench \in Benchmark
  BY Parts DEF Apart
<1>2. strand' = strand
  BY <1>1 DEF vars
<1>3. CASE TimerLoads \/ TimerLooks
  <2>1. /\ TimerLeaves(bench, bench') /\ bench'.failed = bench.failed
        /\ bench'.stopped = bench.stopped
        /\ bench'.close_posted = bench.close_posted
        /\ bench'.timer \notin {"complete", "close", "stop"}
    BY <1>1, <1>3
       DEF TimerLoads, TimerLooks, TimerGoes, Benchmark, TimerLeaves
  <2>2. FlagsOfRun'
    BY <1>2, <2>1 DEF BInv, FlagsOfRun, Settled, TimerLeaves
  <2> QED BY <1>1, <2>1, <2>2, ThreadStep DEF TimerLeaves
<1>4. CASE TimerFails
  <2>1. /\ TimerLeaves(bench, bench') /\ bench'.failed
        /\ bench'.stopped = bench.stopped
    BY <1>1, <1>4 DEF TimerFails, Benchmark, TimerLeaves
  <2>2. FlagsOfRun'
    BY <1>2, <2>1 DEF BInv, FlagsOfRun, Settled, TimerLeaves
  <2> QED BY <1>1, <2>1, <2>2, ThreadStep DEF TimerLeaves
<1>5. CASE TimerCompletes \/ TimerCloses \/ TimerStops
  <2>1. bench.failed
    BY <1>5
       DEF BInv, FlagsOfRun, TimerCompletes, TimerCloses, TimerStops
  <2>2. /\ TimerLeaves(bench, bench') /\ bench'.failed
        /\ bench'.stopped \/ bench'.stopped = bench.stopped
    BY <1>1, <1>5, <2>1
       DEF TimerCompletes, TimerCloses, TimerStops, Benchmark, TimerLeaves
  <2>3. FlagsOfRun'
    BY <1>2, <2>2 DEF BInv, FlagsOfRun, Settled, TimerLeaves
  <2> QED BY <1>1, <2>2, <2>3, ThreadStep DEF TimerLeaves
<1> QED BY <1>1, <1>3, <1>4, <1>5 DEF Timer

(* Time passes, or nothing does. *)
LEMMA TimePassesInv ==
  ASSUME BInv, Apart(TimePasses) \/ UNCHANGED allVars
  PROVE  BInv'
<1>1. /\ UNCHANGED <<vars, lineVars>> /\ bench \in Benchmark
      /\ bench' = bench \/ bench' = [bench EXCEPT !.elapsed = TRUE]
  BY Parts DEF Apart, TimePasses, allVars
<1>2. /\ TimerLeaves(bench, bench') /\ bench'.failed = bench.failed
      /\ bench'.stopped = bench.stopped /\ bench'.timer = bench.timer
      /\ bench'.close_posted = bench.close_posted
  BY <1>1 DEF Benchmark, TimerLeaves
<1>3. strand' = strand
  BY <1>1 DEF vars
<1>4. FlagsOfRun'
  BY <1>2, <1>3 DEF BInv, FlagsOfRun, Settled, TimerLeaves
<1> QED BY <1>1, <1>2, <1>4, ThreadStep DEF TimerLeaves
-----------------------------------------------------------------------------
(* The whole program. *)

(* The program starts with a session that is open and has done nothing.    *)
LEMMA BenchmarkInitInv == BenchmarkInit => BInv
<1> SUFFICES ASSUME BenchmarkInit PROVE BInv
  OBVIOUS
<1> DEFINE config == StartConfig
<1>1. /\ config \in Config
      /\ config.duplex_mode = "full_duplex"
      /\ config.read_buffer_size = PayloadSize /\ PayloadSize # 0
  BY Sizes, SerialBenchmarkAssumption DEF StartConfig, Config
<1>2. session = [NewSession EXCEPT !.is_open = TRUE,
                   !.duplex_mode = "full_duplex",
                   !.read_buffer = PayloadSize]
  <2>1. session = open(NewSession, config, TRUE)
    BY DEF BenchmarkInit
  <2> HIDE DEF config
  <2> QED BY <1>1, <2>1 DEF open, apply_config, NewSession
<1>3. /\ session.is_open /\ ~session.closed /\ ~session.read_handler
      /\ ~session.read_enabled
      /\ session.duplex_mode = "full_duplex"
      /\ session.read_buffer = PayloadSize
      /\ session.reads = << >> /\ session.writes = << >>
      /\ session.write_queue = << >>
  BY <1>2 DEF NewSession
<1>4. Init
  BY <1>1, <1>3 DEF BenchmarkInit, Init
<1>5. IInv
  BY <1>4, InitInv
<1>6. /\ bench \in Benchmark /\ ~bench.failed /\ ~bench.stopped
      /\ bench.sent_count = 1 /\ bench.received_count = 0
      /\ bench.startup = "set_read_handler" /\ bench.main = "run"
      /\ bench.timer = "load" /\ ~bench.close_posted
  <2> DEFINE new == [failed |-> FALSE, completed |-> FALSE, sent_count |-> 0,
                     received_count |-> 0, expected_sequence |-> 0,
                     startup |-> "set_read_handler", close_posted |-> FALSE,
                     stopped |-> FALSE, main |-> "run", timer |-> "load",
                     elapsed |-> FALSE]
  <2>1. 0 \in 0 .. Samples /\ 1 \in 0 .. Samples /\ 0 \in 0 .. Samples - 1
        /\ ~(0 >= Samples) /\ 0 + 1 = 1
    BY Sizes
  <2>2. bench = send_next(new)
    BY DEF BenchmarkInit, Started
  <2>3. /\ new \in Benchmark /\ ~new.failed /\ ~new.stopped
        /\ new.sent_count = 0 /\ new.received_count = 0
        /\ new.startup = "set_read_handler" /\ new.main = "run"
        /\ new.timer = "load" /\ ~new.close_posted
    BY <2>1 DEF Benchmark
  <2> HIDE DEF new
  <2>4. bench = [new EXCEPT !.expected_sequence = 0, !.sent_count = 1]
    BY <2>1, <2>2, <2>3 DEF send_next
  <2> QED BY <2>1, <2>3, <2>4 DEF Benchmark
<1>7. BenchmarkTypeOK
  <2>1. line \in Seq(Byte)
    BY SerialBenchmarkAssumption, EmptySeq DEF BenchmarkInit, Byte
  <2>2. 0 \in 0 .. PayloadSize /\ << >> \in Seq(Byte) /\ Len(<< >>) = 0
        /\ 0 < PayloadSize
    BY EmptySeq, Sizes
  <2> QED BY <1>6, <2>1, <2>2, Sizes DEF BenchmarkInit, BenchmarkTypeOK
<1>8. Driven(session)
  <2>1. session \in Session /\ SessionInv(session)
    BY <1>5 DEF IInv, TypeOK
  <2>2. Fits(session)
    BY <1>3, EmptySeq DEF Fits
  <2> QED BY <1>3, <2>1, <2>2 DEF Driven
<1>9. WorkConserving
  BY <1>3
     DEF WorkConserving, can_start_read, can_start_write, has_pending_writes
<1>10. StartupInv
  BY <1>3, <1>6 DEF StartupInv, BenchmarkInit
<1>11. FlagsOfRun
  BY <1>6, Sizes DEF FlagsOfRun
<1>12. CountersInv
  BY <1>3, <1>6, EmptySeq DEF CountersInv, BenchmarkInit
<1>13. ChunkInv
  BY <1>3 DEF ChunkInv, BenchmarkInit
<1>14. faulty # "stale" => EchoInv
  <2>1. ASSUME faulty # "stale" PROVE EchoInv
    <3>1. line = << >> /\ data = << >> /\ pending_response = << >>
      BY <2>1 DEF BenchmarkInit
    <3>2. Underway = << >>
      BY <3>1, ConcatEmptySeq, EmptySeq DEF Underway
    <3>3. SubSeq(Current, 1, 0) = << >> /\ 0 \in 0 .. PayloadSize
      BY SubSeqEmpty, Sizes
    <3>4. Len(session.write_queue) = 0
      BY <1>3, EmptySeq
    <3>5. GoneOut(0)
      BY <3>2, <3>3, <3>4 DEF GoneOut
    <3> QED BY <1>3, <1>6, <3>2, <3>3, <3>4, <3>5 DEF EchoInv
  <2> QED BY <2>1
<1> QED
  BY <1>5, <1>7, <1>8, <1>9, <1>10, <1>11, <1>12, <1>13, <1>14 DEF BInv

(* Every step of the program keeps its invariant. *)
LEMMA BenchmarkNextInv ==
  BInv /\ OverInv /\ [BenchmarkNext]_allVars => BInv'
<1> SUFFICES ASSUME BInv, OverInv, [BenchmarkNext]_allVars PROVE BInv'
  OBVIOUS
<1>1. CASE Handlers
  <2>1. CASE SetsReadHandler BY <2>1, SetsReadHandlerInv
  <2>2. CASE StartsReading BY <2>2, StartsReadingInv
  <2>3. CASE SendsFirst BY <2>3, SendsFirstInv
  <2>4. CASE Closes BY <2>4, ClosesInv
  <2>5. CASE ReadCompletes BY <2>5, ReadCompletesInv
  <2>6. CASE WriteCompletes BY <2>6, WriteCompletesInv
  <2>7. CASE HandlesError BY <2>7, HandlesErrorInv
  <2>8. CASE HandlesPart BY <2>8, HandlesPartInv
  <2>9. CASE HandlesOther BY <2>9, HandlesOtherInv
  <2>10. CASE HandlesEcho BY <2>10, HandlesEchoInv
  <2> QED
    BY <1>1, <2>1, <2>2, <2>3, <2>4, <2>5, <2>6, <2>7, <2>8, <2>9, <2>10
       DEF Handlers
<1>2. CASE ByteGoesOut BY <1>2, ByteGoesOutInv
<1>3. CASE WriteEnds BY <1>3, WriteEndsInv
<1>4. CASE ReadEnds BY <1>4, ReadEndsInv
<1>5. CASE ReadFails BY <1>5, ReadFailsInv
<1>6. CASE ByteIsLost BY <1>6, ByteIsLostInv
<1>7. CASE Apart(Main) BY <1>7, MainInv
<1>8. CASE Apart(Timer) BY <1>8, TimerInv
<1>9. CASE Apart(TimePasses) \/ UNCHANGED allVars BY <1>9, TimePassesInv
<1> QED
  BY <1>1, <1>2, <1>3, <1>4, <1>5, <1>6, <1>7, <1>8, <1>9 DEF BenchmarkNext

(* The last sample closes the session, in a handler, when no read is in    *)
(* progress.                                                               *)
LEMMA LastSampleCloses ==
  ASSUME BInv, HandlesEcho
  PROVE  OverInv'
<1> DEFINE c == count_sample(bench)
           n == send_next(c)
<1>1. strand # "idle"
  BY DEF HandlesEcho
<1>2. /\ Configured(session) /\ session \in Session /\ SessionInv(session)
      /\ session.reads = << >>
      /\ bench \in Benchmark /\ bench.received_count < Samples
      /\ bench.sent_count \in 1 .. Samples
  BY <1>1, InHandler
<1>3. c.received_count \in Nat /\ n.received_count = c.received_count
  <2>1. /\ c.received_count = bench.received_count + 1
        /\ n.received_count = bench.received_count + 1
    BY <1>2, Counting
  <2> QED BY <1>2, <2>1 DEF Benchmark
<1>4. \/ /\ c.received_count >= Samples
         /\ HandlerReturns(CloseSession(session), finish(c), Rest)
      \/ ~(c.received_count >= Samples) /\ bench' = n
  BY DEF HandlesEcho, HandlerReturns
<1> HIDE DEF c, n
<1>5. CASE HandlerReturns(CloseSession(session), finish(c), Rest)
  <2>1. session' = CloseSession(session)
    BY <1>2, <1>5, ClosedAfterRead DEF HandlerReturns
  <2>2. session'.closed /\ (session'.read_in_progress => session.read_in_progress)
    BY <1>2, <2>1, CloseFlags
  <2>3. ~session.read_in_progress
    BY <1>2, EmptySeq DEF SessionInv, FlagsInv
  <2> QED BY <2>2, <2>3 DEF OverInv
<1>6. CASE ~(c.received_count >= Samples) /\ bench' = n
  BY <1>3, <1>6, Sizes DEF OverInv
<1> QED BY <1>4, <1>5, <1>6

(* The session's steps are those of its specification, and a closed session*)
(* starts nothing.                                                         *)
LEMMA OverStays ==
  ASSUME BInv, OverInv, [Next]_vars,
         bench'.received_count = bench.received_count
  PROVE  OverInv'
<1>1. CASE session.closed
  <2>1. Fewer(session, session')
    BY <1>1, FinalStep DEF BInv
  <2> QED BY <1>1, <2>1 DEF OverInv, Fewer
<1>2. CASE ~session.closed
  BY <1>2 DEF OverInv
<1> QED BY <1>1, <1>2

(* Nothing follows the last sample. *)
LEMMA OverNext == BInv /\ OverInv /\ [BenchmarkNext]_allVars => OverInv'
<1> SUFFICES ASSUME BInv, OverInv, [BenchmarkNext]_allVars PROVE OverInv'
  OBVIOUS
<1>1. bench \in Benchmark
  BY Parts
<1>2. CASE strand = "idle" /\ Handlers
  <2>1. \/ SetReadHandler(TRUE) \/ StartReading \/ Send(0) \/ Close
        \/ OnRead \/ OnWrite
    BY <1>2
       DEF Handlers, SetsReadHandler, StartsReading, SendsFirst, Closes,
           ReadCompletes, WriteCompletes, HandlesError, HandlesPart,
           HandlesOther, HandlesEcho
  <2>2. Next
    <3>1. 0 \in Message
      BY Sizes
    <3>2. CASE SetReadHandler(TRUE) \/ StartReading \/ Send(0) \/ Close
      BY <3>1, <3>2, Zenon DEF Next, User
    <3>3. CASE OnRead \/ OnWrite
      BY <3>3 DEF Next, Completion
    <3> QED BY <2>1, <3>2, <3>3
  <2>3. bench'.received_count = bench.received_count
    BY <1>1, <1>2
       DEF Handlers, SetsReadHandler, StartsReading, SendsFirst, Closes,
           ReadCompletes, WriteCompletes, HandlesError, HandlesPart,
           HandlesOther, HandlesEcho, Startup, PostedClose, Benchmark
  <2> QED BY <2>2, <2>3, OverStays
<1>3. CASE strand # "idle" /\ Handlers
  <2>1. CASE HandlesEcho
    BY <2>1, LastSampleCloses
  <2>2. CASE HandlesError \/ HandlesPart \/ HandlesOther
    <3>1. bench.received_count < Samples
      BY <1>3, InHandler
    <3>2. bench'.received_count = bench.received_count
      BY <1>1, <2>2
         DEF HandlesError, HandlesPart, HandlesOther, HandlerReturns, give_up,
             Benchmark
    <3> QED BY <1>1, <3>1, <3>2, Sizes DEF OverInv, Benchmark
  <2>3. CASE \/ SetsReadHandler \/ StartsReading \/ SendsFirst \/ Closes
             \/ ReadCompletes \/ WriteCompletes
    BY <1>3, <2>3
       DEF SetsReadHandler, StartsReading, SendsFirst, Closes, Idle,
           ReadCompletes, WriteCompletes, OnRead, OnWrite, CanComplete
  <2> QED BY <1>3, <2>1, <2>2, <2>3 DEF Handlers
<1>4. CASE ByteGoesOut \/ WriteEnds \/ ReadEnds \/ ReadFails \/ ByteIsLost
  <2>1. [Next]_vars /\ bench' = bench
    BY <1>4
       DEF ByteGoesOut, WriteEnds, ReadEnds, ReadFails, ByteIsLost, Next, Port
  <2> QED BY <2>1, OverStays
<1>5. CASE Apart(Main) \/ Apart(Timer) \/ Apart(TimePasses) \/ UNCHANGED allVars
  <2>1. UNCHANGED vars
    BY <1>5 DEF Apart, allVars
  <2>2. bench'.received_count = bench.received_count
    BY <1>1, <1>5
       DEF Apart, allVars, Main, RunReturns, MainCompletes, MainJoins, Timer,
           TimerLoads, TimerLooks, TimerGoes, TimerFails, TimerCompletes,
           TimerCloses, TimerStops, TimePasses, Benchmark
  <2> QED BY <2>1, <2>2, OverStays
<1> QED BY <1>2, <1>3, <1>4, <1>5 DEF BenchmarkNext

(* The invariant holds in every reachable state of the program. *)
LEMMA BenchmarkInv == BenchmarkSpec => []BInv
<1>1. BenchmarkInit => OverInv
  <2> SUFFICES ASSUME BenchmarkInit PROVE bench.received_count = 0
    BY Sizes DEF OverInv
  <2> QED BY Sizes DEF BenchmarkInit, Started, send_next
<1> QED
  BY <1>1, BenchmarkInitInv, BenchmarkNextInv, OverNext, PTL
     DEF BenchmarkSpec

(* The program's variables keep their types; in particular what is pending *)
(* stays below one response, so the read handler's loop runs at most once. *)
THEOREM BenchmarkTypeCorrect == BenchmarkSpec => []BenchmarkTypeOK
<1>1. BInv => BenchmarkTypeOK
  BY DEF BInv
<1> QED BY <1>1, BenchmarkInv, PTL

(* A run that exits with 0 has measured every sample, or the write of its  *)
(* last request failed when nobody was left to be told.                    *)
THEOREM SuccessComplete == BenchmarkSpec => []SuccessIsComplete
<1>1. BInv => SuccessIsComplete
  BY DEF BInv, CountersInv, Settled, SuccessIsComplete, Succeeded, Exited
<1> QED BY <1>1, BenchmarkInv, PTL

(* On a line that held nothing before, a sample is counted only when the   *)
(* whole of the request last sent has come back.                           *)
THEOREM SamplesEchoed == BenchmarkSpec => SamplesAreEchoes
<1>1. BInv /\ [BenchmarkNext]_allVars =>
        [ bench'.received_count > bench.received_count /\ faulty # "stale" =>
            IsPrefix(make_payload(bench.sent_count - 1), Response) ]_allVars
  <2> SUFFICES ASSUME BInv, BenchmarkNext,
                      bench'.received_count > bench.received_count,
                      faulty # "stale"
               PROVE  IsPrefix(make_payload(bench.sent_count - 1), Response)
    OBVIOUS
  <2>1. bench \in Benchmark /\ bench.received_count \in Nat
    BY Parts DEF Benchmark
  <2>2. ASSUME bench'.received_count = bench.received_count PROVE FALSE
    BY <2>1, <2>2
  <2>3. HandlesEcho
    <3>1. ASSUME Handlers PROVE HandlesEcho
      <4>1. ~SetsReadHandler /\ ~StartsReading /\ ~SendsFirst /\ ~Closes
        BY <2>1, <2>2
           DEF SetsReadHandler, StartsReading, SendsFirst, Closes, Startup,
               PostedClose, Benchmark
      <4>2. ~ReadCompletes /\ ~WriteCompletes
        BY <2>2 DEF ReadCompletes, WriteCompletes
      <4>3. ~HandlesError /\ ~HandlesPart /\ ~HandlesOther
        BY <2>1, <2>2
           DEF HandlesError, HandlesPart, HandlesOther, HandlerReturns,
               give_up, Benchmark
      <4> QED BY <3>1, <4>1, <4>2, <4>3 DEF Handlers
    <3>2. ~ByteGoesOut /\ ~WriteEnds /\ ~ReadEnds /\ ~ReadFails /\ ~ByteIsLost
      BY <2>2 DEF ByteGoesOut, WriteEnds, ReadEnds, ReadFails, ByteIsLost
    <3>3. ~Main /\ ~TimePasses
      BY <2>1, <2>2
         DEF Main, RunReturns, MainCompletes, MainJoins, TimePasses, Benchmark
    <3>4. ~Timer
      BY <2>1, <2>2
         DEF Timer, TimerLoads, TimerLooks, TimerGoes, TimerFails,
             TimerCompletes, TimerCloses, TimerStops, Benchmark
    <3> QED BY <3>1, <3>2, <3>3, <3>4 DEF BenchmarkNext, Apart
  <2>4. Response = Current
    BY <2>3, WholeResponse DEF HandlesEcho, BInv
  <2>5. Current \in Seq(Byte)
    <3>1. BenchmarkTypeOK /\ bench.sent_count \in 1 .. Samples
      BY <2>1 DEF BInv, CountersInv, Benchmark
    <3> QED BY <3>1, Bytestreams
  <2> QED BY <2>4, <2>5 DEF IsPrefix, Current
<1> QED BY <1>1, BenchmarkInv, PTL DEF BenchmarkSpec, SamplesAreEchoes
=============================================================================
