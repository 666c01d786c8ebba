--------------------- MODULE WebSocketBenchmarkTheorems ---------------------
(***************************************************************************)
(* Proofs about the WebSocket benchmark, for any number of requests, each  *)
(* in any number of pieces: that a run that exits with 0 has measured      *)
(* every sample, and that the round trip through client and server is an   *)
(* in-order link.  Each of the two sessions keeps the invariant of         *)
(* WebSocketSessionTheorems; the invariant here adds what the two programs *)
(* know of their sessions, and what the one knows of the other.            *)
(***************************************************************************)
EXTENDS WebSocketBenchmark, WebSocketSessionTheorems

(* A message has come in, and its handler has not run or not returned.     *)
Arrived(s) == s.reads # << >> /\ Head(s.reads).status = "done"
Unhandled(s, k) == IF k = "after_data" \/ Arrived(s) THEN 1 ELSE 0

(* Nothing is left to measure, or the exit code is not 0. *)
Settled == bench.failed \/ bench.received_count = Samples

(* How far the first three calls are, and what they have done. *)
StartupInv ==
  /\ bench.startup # "set_read_handler" => session.read_handler
  /\ bench.startup \in {"set_read_handler", "start_reading"} =>
       /\ session.reads = << >> /\ strand = "idle"
       /\ ~session.read_enabled /\ ~session.closed
  /\ bench.startup # "done" => accepted = << >>
  /\ bench.startup \in {"send", "done"} /\ ~session.closed =>
       session.read_enabled

(* The flags: who says that the run is over, and what that means. *)
FlagsOfRun ==
  /\ bench.timer \in {"complete", "close", "stop"} => bench.failed
  /\ bench.close_posted => bench.failed
  /\ bench.stopped \/ bench.main # "run" => Settled
  /\ bench.received_count = Samples => bench.stopped /\ strand = "idle"

(* The counters: one request is out at a time, and what was sent was       *)
(* counted before.                                                         *)
CountersInv ==
  /\ bench.received_count < Samples =>
       bench.sent_count = bench.received_count + 1
  /\ Len(accepted) <= bench.sent_count
  /\ Unhandled(session, strand) <= clientRead
  /\ ~bench.failed =>
       clientRead = bench.received_count + Unhandled(session, strand)

(* A session that is closed has told the program, or will: the completion  *)
(* of the read that it cut off brings an error.                            *)
ToldInv ==
  session.closed =>
    \/ Settled
    \/ strand = "after_error"
    \/ session.reads # << >> /\ ~Arrived(session)

ClientInv ==
  /\ IInv
  /\ bench \in Benchmark
  /\ clientRead \in Nat
  /\ strand # "idle" => session.reads = << >>
  /\ StartupInv
  /\ FlagsOfRun
  /\ CountersInv
  /\ ToldInv

(* The echo: the server has taken back what it has read, but for the one   *)
(* message its handler is at.                                              *)
ServerInv ==
  /\ Sound(server, serverStrand, serverAccepted, serverWire)
  /\ serverRead \in Nat
  /\ serverStrand # "idle" => server.reads = << >>
  /\ attach # "set_read_handler" => server.read_handler
  /\ attach # "done" =>
       server.reads = << >> /\ serverStrand = "idle" /\ ~server.read_enabled
  /\ Len(serverAccepted) <= serverRead
  /\ ~server.closed =>
       Len(serverAccepted) + Unhandled(server, serverStrand) = serverRead

(* Neither side reads what the other has not sent, and the server takes    *)
(* the messages in the order in which they came.                           *)
LinkInv ==
  /\ clientRead <= Len(serverWire)
  /\ serverRead <= Len(wire)
  /\ Begins(serverAccepted, wire)

BInv == ClientInv /\ ServerInv /\ LinkInv

(* Once everything is measured the client's session is closed and reads    *)
(* nothing, so that no handler that still runs after stop() can count      *)
(* another sample.                                                         *)
OverInv ==
  bench.received_count = Samples =>
    session.closed /\ ~session.read_in_progress /\ bench.startup = "done"
-----------------------------------------------------------------------------
(* What the operations of a session keep that the programs rely on. *)

(* From s to t no read completes or is taken, and nothing is set up anew.  *)
Kept(s, t) ==
  /\ t.read_handler = s.read_handler
  /\ s.closed => t.closed
  /\ ~t.closed => t.read_enabled = s.read_enabled
  /\ Arrived(t) <=> Arrived(s)
  /\ s.reads # << >> => t.reads # << >>
  /\ ~s.read_enabled /\ s.reads = << >> =>
       ~t.read_enabled /\ t.reads = << >>

(* A session whose flag for reads is right, as it is inside a handler too. *)
Flagged(s) == s \in Session /\ (~s.read_in_progress => s.reads = << >>)

(* The invariant of the session says so. *)
LEMMA SoundFlagged ==
  ASSUME NEW s, SessionInv(s)
  PROVE  Flagged(s)
<1>1. s \in Session /\ s.reads \in Seq(ReadOp)
  BY DEF SessionInv, Session
<1> QED BY <1>1, EmptySeq DEF SessionInv, Flagged

(* What one change keeps and another, both keep. *)
LEMMA KeptTwice ==
  ASSUME NEW s, NEW t, NEW u, Kept(s, t), Kept(t, u), t.closed => u.closed
  PROVE  Kept(s, u)
BY DEF Kept

(* A change of other fields. *)
LEMMA OthersKept ==
  ASSUME NEW s, NEW t,
         t.read_handler = s.read_handler, t.closed = s.closed,
         t.read_enabled = s.read_enabled, t.reads = s.reads
  PROVE  Kept(s, t)
BY DEF Kept, Arrived

(* A write that is started. *)
LEMMA DoWriteKept ==
  ASSUME NEW s, Flagged(s), can_start_write(s)
  PROVE  /\ Kept(s, do_write(s)) /\ Flagged(do_write(s))
         /\ do_write(s).closed = s.closed
<1> DEFINE m  == Head(s.write_queue)
           u  == mark_write_started(s)
           op == [status |-> InitialStatus(u), left |-> Pieces[m] - 1,
                  sources |-> Copies(u)]
           w  == Append(s.writes, op)
           t  == [s EXCEPT !.write_in_progress = TRUE, !.writes = w]
<1>1. /\ s \in Session /\ s.write_queue # << >> /\ has_pending_writes(s)
      /\ s.write_queue \in Seq(Message) /\ s.writes \in Seq(WriteOp)
  BY DEF Flagged, can_start_write, has_pending_writes, Session
<1>2. m \in Message
  BY <1>1, HeadTailProperties
<1>3. Pieces[m] - 1 \in Nat
  BY <1>2, WebSocketSessionAssumption
<1>4. u = [s EXCEPT !.write_in_progress = TRUE]
  BY DEF mark_write_started
<1>5. Copies(u) \in SUBSET (Message \cup {Freed})
  <2>1. u.write_queue = s.write_queue
    BY <1>1, <1>4 DEF Session
  <2> HIDE DEF u
  <2> QED BY <1>2, <2>1 DEF Copies, Front, has_pending_writes, current_write
<1>6. op \in WriteOp
  BY <1>3, <1>5 DEF WriteOp, Status, InitialStatus
<1>7. do_write(s) = t
  <2>1. do_write(s) = async_write(u, m)
    BY <1>1 DEF do_write, current_write
  <2>2. async_write(u, m) = [u EXCEPT !.writes = Append(@, op)]
    BY DEF async_write
  <2>3. u.writes = s.writes
    BY <1>1, <1>4 DEF Session
  <2> HIDE DEF op, u
  <2> QED BY <1>1, <1>4, <2>1, <2>2, <2>3 DEF Session
<1> HIDE DEF op
<1>8. w \in Seq(WriteOp)
  BY <1>1, <1>6
<1> HIDE DEF w
<1>9. /\ t \in Session
      /\ t.read_handler = s.read_handler /\ t.closed = s.closed
      /\ t.read_enabled = s.read_enabled /\ t.reads = s.reads
      /\ t.read_in_progress = s.read_in_progress
  BY <1>1, <1>8 DEF Session
<1> HIDE DEF t
<1> QED BY <1>7, <1>9, OthersKept DEF Flagged

(* A read that is started is not done. *)
LEMMA DoReadKept ==
  ASSUME NEW s, Flagged(s), can_start_read(s)
  PROVE  Kept(s, do_read(s)) /\ do_read(s).closed = s.closed
<1> DEFINE u  == mark_read_started(s)
           op == [status |-> InitialStatus(u)]
           r  == << op >>
           t  == [s EXCEPT !.read_in_progress = TRUE, !.reads = r]
<1>1. s \in Session /\ s.read_enabled /\ ~s.closed /\ s.reads = << >>
  BY DEF Flagged, can_start_read
<1>2. u = [s EXCEPT !.read_in_progress = TRUE]
  BY DEF mark_read_started
<1>3. do_read(s) = t
  <2>1. do_read(s) = [u EXCEPT !.reads = Append(@, op)]
    BY DEF do_read, async_read
  <2>2. u.reads = << >>
    BY <1>1, <1>2 DEF Session
  <2> HIDE DEF op, u
  <2>3. do_read(s) = [u EXCEPT !.reads = r]
    BY <2>1, <2>2
  <2> HIDE DEF r
  <2> QED BY <1>1, <1>2, <2>3 DEF Session
<1>4. op.status # "done"
  BY DEF InitialStatus
<1> HIDE DEF op
<1>5. r # << >> /\ Head(r) = op
  OBVIOUS
<1> HIDE DEF r
<1>6. /\ t.read_handler = s.read_handler /\ t.closed = s.closed
      /\ t.read_enabled = s.read_enabled /\ t.reads = r
  BY <1>1 DEF Session
<1> HIDE DEF t
<1> QED BY <1>1, <1>3, <1>4, <1>5, <1>6 DEF Kept, Arrived

(* So scheduling keeps. *)
LEMMA ScheduleKept ==
  ASSUME NEW s, Flagged(s)
  PROVE  /\ Kept(s, Core!schedule_operations(s))
         /\ Core!schedule_operations(s).closed = s.closed
<1> DEFINE w == IF can_start_write(s) THEN do_write(s) ELSE s
           t == IF can_start_read(w) THEN do_read(w) ELSE w
<1>1. Core!schedule_operations(s) = t
  BY DEF Core!schedule_operations
<1>2. Kept(s, w) /\ Flagged(w) /\ w.closed = s.closed
  <2>1. CASE can_start_write(s)
    BY <2>1, DoWriteKept
  <2>2. CASE ~can_start_write(s)
    BY <2>2, OthersKept
  <2> QED BY <2>1, <2>2
<1> HIDE DEF w
<1>3. Kept(w, t) /\ t.closed = w.closed
  <2>1. CASE can_start_read(w)
    BY <1>2, <2>1, DoReadKept
  <2>2. CASE ~can_start_read(w)
    BY <2>2, OthersKept
  <2> QED BY <2>1, <2>2
<1> HIDE DEF t
<1> QED BY <1>1, <1>2, <1>3, KeptTwice

(* And so does sending. *)
LEMMA EnqueueKept ==
  ASSUME NEW s, SessionInv(s), NEW m \in Message
  PROVE  Kept(s, Core!enqueue_write(s, m))
<1> DEFINE q == Append(s.write_queue, m)
           u == [s EXCEPT !.write_queue = q]
<1>1. Flagged(s) /\ s \in Session
  BY SoundFlagged DEF SessionInv
<1>2. CASE s.closed
  BY <1>2, OthersKept DEF Core!enqueue_write
<1>3. CASE ~s.closed
  <2>1. Core!enqueue_write(s, m) = Core!schedule_operations(u)
    BY <1>3 DEF Core!enqueue_write
  <2>2. q \in Seq(Message)
    BY <1>1 DEF Session
  <2> HIDE DEF q
  <2>3. /\ u \in Session
        /\ u.read_handler = s.read_handler /\ u.closed = s.closed
        /\ u.read_enabled = s.read_enabled /\ u.reads = s.reads
        /\ u.read_in_progress = s.read_in_progress
    BY <1>1, <2>2 DEF Session
  <2> HIDE DEF u
  <2>4. Flagged(u) /\ Kept(s, u)
    BY <1>1, <2>3, OthersKept DEF Flagged
  <2> QED BY <2>1, <2>3, <2>4, ScheduleKept, KeptTwice
<1> QED BY <1>2, <1>3

(* start_reading() enables reading, and completes none. *)
LEMMA StartReadingEffect ==
  ASSUME NEW s, SessionInv(s)
  PROVE  /\ Core!start_reading(s).read_handler = s.read_handler
         /\ Core!start_reading(s).closed = s.closed
         /\ ~s.closed => Core!start_reading(s).read_enabled
         /\ Arrived(Core!start_reading(s)) <=> Arrived(s)
         /\ s.reads # << >> => Core!start_reading(s).reads # << >>
<1> DEFINE u == [s EXCEPT !.read_enabled = TRUE]
<1>1. Flagged(s) /\ s \in Session
  BY SoundFlagged DEF SessionInv
<1>2. CASE s.closed
  BY <1>2 DEF Core!start_reading
<1>3. CASE ~s.closed
  <2>1. Core!start_reading(s) = Core!schedule_operations(u)
    BY <1>3 DEF Core!start_reading
  <2>2. /\ u \in Session /\ u.read_enabled
        /\ u.read_handler = s.read_handler /\ u.closed = s.closed
        /\ u.reads = s.reads
        /\ u.read_in_progress = s.read_in_progress
    BY <1>1 DEF Session
  <2> HIDE DEF u
  <2>3. Flagged(u) /\ (Arrived(u) <=> Arrived(s))
    BY <1>1, <2>2 DEF Flagged, Arrived
  <2>4. /\ Kept(u, Core!schedule_operations(u))
        /\ Core!schedule_operations(u).closed = u.closed
    BY <2>3, ScheduleKept
  <2> QED BY <1>3, <2>1, <2>2, <2>3, <2>4 DEF Kept
<1> QED BY <1>2, <1>3

(* Closing leaves a read that is done to its completion handler.           *)
LEMMA CloseKept ==
  ASSUME NEW s, s \in Session
  PROVE  Kept(s, Core!close(s))
<1> DEFINE r == Aborted(s.reads)
           w == Aborted(s.writes)
           t == [s EXCEPT !.read_enabled = FALSE, !.write_queue = << >>,
                          !.closed = TRUE, !.is_open = FALSE,
                          !.connected = FALSE, !.reads = r, !.writes = w]
<1>1. CASE s.closed
  BY <1>1, OthersKept DEF Core!close
<1>2. CASE ~s.closed
  <2>1. Core!close(s) = t
    BY <1>2 DEF Core!close, close_transport, Session
  <2>2. s.reads \in Seq(ReadOp)
    BY DEF Session
  <2>3. /\ r \in Seq(ReadOp) /\ Len(r) = Len(s.reads)
        /\ DOMAIN r = DOMAIN s.reads
        /\ \A i \in DOMAIN r :
             r[i] = IF s.reads[i].status = "pending"
                    THEN [s.reads[i] EXCEPT !.status = "aborted"]
                    ELSE s.reads[i]
    <3>1. \A op \in ReadOp : [op EXCEPT !.status = "aborted"] \in ReadOp
      BY DEF ReadOp, Status
    <3> HIDE DEF r
    <3> QED BY <2>2, <3>1, AbortedOps DEF r
  <2> HIDE DEF r, w
  <2>4. /\ t.read_handler = s.read_handler /\ t.closed
        /\ ~t.read_enabled /\ t.reads = r
    BY DEF Session
  <2> HIDE DEF t
  <2>5. r = << >> <=> s.reads = << >>
    BY <2>2, <2>3, EmptySeq
  <2>6. ASSUME r # << >>
        PROVE  Head(r).status = "done" <=> Head(s.reads).status = "done"
    <3>1. /\ 1 \in DOMAIN r /\ Head(r) = r[1]
          /\ Head(s.reads) = s.reads[1] /\ s.reads[1] \in ReadOp
      BY <2>2, <2>3, <2>5, <2>6
    <3>2. [s.reads[1] EXCEPT !.status = "aborted"].status = "aborted"
      BY <3>1 DEF ReadOp
    <3> QED BY <2>3, <3>1, <3>2
  <2>7. Arrived(t) <=> Arrived(s)
    BY <2>4, <2>5, <2>6 DEF Arrived
  <2> QED BY <2>1, <2>4, <2>5, <2>7 DEF Kept
<1> QED BY <1>1, <1>2

(* The rest of a read completion. *)
LEMMA AfterReadKept ==
  ASSUME NEW s, SessionInv(s), NEW k
  PROVE  /\ Kept(s, AfterRead(s, k))
         /\ k = "after_data" => AfterRead(s, k).closed = s.closed
<1>1. Flagged(s) /\ s \in Session
  BY SoundFlagged DEF SessionInv
<1>2. CASE k = "after_data"
  BY <1>1, <1>2, ScheduleKept DEF AfterRead
<1>3. CASE k # "after_data"
  BY <1>1, <1>3, CloseKept DEF AfterRead
<1> QED BY <1>2, <1>3

(* What concerns reading is the same. *)
SameReading(s, t) ==
  /\ t.read_handler = s.read_handler /\ t.closed = s.closed
  /\ t.read_enabled = s.read_enabled /\ t.reads = s.reads

(* Nothing that happens to a write concerns it, nor does the silent loss   *)
(* of the connection.                                                      *)
LEMMA WritingSame ==
  ASSUME NEW s, s \in Session, NEW t,
         \/ t = next_piece(s)
         \/ t = PieceOut(s)
         \/ t = [s EXCEPT !.writes = << [Head(@) EXCEPT !.status = "failed"] >>]
         \/ t = [s EXCEPT !.connected = FALSE]
  PROVE  SameReading(s, t) /\ Kept(s, t)
<1>1. ASSUME NEW w, t = [s EXCEPT !.writes = w]
      PROVE  SameReading(s, t)
  BY <1>1 DEF Session, SameReading
<1>2. \/ \E w : t = [s EXCEPT !.writes = w]
      \/ t = [s EXCEPT !.connected = FALSE]
  <2>1. CASE t = next_piece(s)
    BY <2>1 DEF next_piece
  <2>2. CASE t = PieceOut(s)
    BY <2>2 DEF PieceOut
  <2>3. CASE t = [s EXCEPT !.writes =
                      << [Head(@) EXCEPT !.status = "failed"] >>]
    <3> DEFINE w == << [Head(s.writes) EXCEPT !.status = "failed"] >>
    <3>1. t = [s EXCEPT !.writes = w]
      BY <2>3
    <3> QED BY <3>1
  <2> QED BY <2>1, <2>2, <2>3
<1>3. ASSUME t = [s EXCEPT !.connected = FALSE]
      PROVE  SameReading(s, t)
  BY <1>3 DEF Session, SameReading
<1>4. SameReading(s, t)
  BY <1>1, <1>2, <1>3
<1> QED BY <1>4, OthersKept DEF SameReading

(* The completion of a write closes the session only if the write failed.  *)
LEMMA WriteOverKept ==
  ASSUME NEW s, SessionInv(s), s.writes # << >>
  PROVE  /\ Kept(s, WriteOver(s))
         /\ Head(s.writes).status = "done" => WriteOver(s).closed = s.closed
<1> DEFINE w == Tail(s.writes)
           u == WriteTaken(s)
           p == consume_write(u)
<1>1. Flagged(s) /\ s \in Session /\ s.writes \in Seq(WriteOp)
  BY SoundFlagged DEF SessionInv, Session
<1>2. w \in Seq(WriteOp)
  BY <1>1, HeadTailProperties
<1>3. u = [s EXCEPT !.writes = w, !.write_in_progress = FALSE]
  BY <1>1 DEF WriteTaken, mark_write_finished, Session
<1>4. WriteOver(s) = IF Head(s.writes).status = "done"
                     THEN Core!schedule_operations(p) ELSE Core!close(u)
  BY DEF WriteOver
<1>5. p = IF u.write_queue # << >>
          THEN [u EXCEPT !.write_queue = Tail(@)] ELSE u
  BY DEF consume_write, has_pending_writes
<1> HIDE DEF p, u, w
<1>6. /\ u \in Session /\ SameReading(s, u)
      /\ u.read_in_progress = s.read_in_progress
  BY <1>1, <1>2, <1>3 DEF Session, SameReading
<1>7. /\ p \in Session /\ SameReading(s, p)
      /\ p.read_in_progress = s.read_in_progress
  <2>1. CASE u.write_queue # << >>
    <3> DEFINE q == Tail(u.write_queue)
    <3>1. q \in Seq(Message)
      BY <1>6, <2>1, HeadTailProperties DEF Session
    <3>2. p = [u EXCEPT !.write_queue = q]
      BY <1>5, <2>1
    <3> HIDE DEF q
    <3> QED BY <1>6, <3>1, <3>2 DEF Session, SameReading
  <2>2. CASE u.write_queue = << >>
    BY <1>5, <1>6, <2>2
  <2> QED BY <2>1, <2>2
<1>8. Flagged(p) /\ Kept(s, p) /\ Kept(s, u) /\ p.closed = s.closed
  BY <1>1, <1>6, <1>7, OthersKept DEF Flagged, SameReading
<1>9. CASE Head(s.writes).status = "done"
  <2>1. WriteOver(s) = Core!schedule_operations(p)
    BY <1>4, <1>9
  <2>2. Kept(p, WriteOver(s)) /\ WriteOver(s).closed = p.closed
    BY <1>8, <2>1, ScheduleKept
  <2> QED BY <1>8, <2>2, KeptTwice
<1>10. CASE Head(s.writes).status # "done"
  <2>1. WriteOver(s) = Core!close(u)
    BY <1>4, <1>10
  <2>2. Kept(u, WriteOver(s))
    BY <1>6, <2>1, CloseKept
  <2>3. u.closed => WriteOver(s).closed
    BY <2>2 DEF Kept
  <2> QED BY <1>8, <1>10, <2>2, <2>3, KeptTwice
<1> QED BY <1>9, <1>10

(* A read that fails has brought nothing, before or after. *)
LEMMA ReadFailsKept ==
  ASSUME NEW s, s \in Session, IsPending(s.reads),
         NEW t, t = [s EXCEPT !.reads = << [status |-> "failed"] >>]
  PROVE  Kept(s, t) /\ t.closed = s.closed /\ t.reads # << >>
<1> DEFINE op == [status |-> "failed"]
           r == << op >>
<1>1. op.status = "failed"
  OBVIOUS
<1> HIDE DEF op
<1>2. r # << >> /\ Head(r) = op /\ t = [s EXCEPT !.reads = r]
  BY DEF op
<1> HIDE DEF r
<1>3. /\ t.read_handler = s.read_handler /\ t.closed = s.closed
      /\ t.read_enabled = s.read_enabled /\ t.reads = r
  BY <1>2 DEF Session
<1>4. ~Arrived(s) /\ s.reads # << >>
  BY DEF Arrived, IsPending
<1> QED BY <1>1, <1>2, <1>3, <1>4 DEF Kept, Arrived

(* A read that is done was pending. *)
LEMMA ReadDoneEffect ==
  ASSUME NEW s, s \in Session, IsPending(s.reads),
         NEW t, t = [s EXCEPT !.reads = << [status |-> "done"] >>]
  PROVE  /\ t.read_handler = s.read_handler /\ t.closed = s.closed
         /\ t.read_enabled = s.read_enabled
         /\ ~Arrived(s) /\ Arrived(t) /\ s.reads # << >> /\ t.reads # << >>
<1> DEFINE op == [status |-> "done"]
           r == << op >>
<1>1. op.status = "done"
  OBVIOUS
<1> HIDE DEF op
<1>2. r # << >> /\ Head(r) = op /\ t = [s EXCEPT !.reads = r]
  BY DEF op
<1> HIDE DEF r
<1>3. /\ t.read_handler = s.read_handler /\ t.closed = s.closed
      /\ t.read_enabled = s.read_enabled /\ t.reads = r
  BY <1>2 DEF Session
<1>4. ~Arrived(s) /\ s.reads # << >>
  BY DEF Arrived, IsPending
<1> QED BY <1>1, <1>2, <1>3, <1>4 DEF Arrived

(* The completion handler of a read takes it. *)
LEMMA ReadTakenEffect ==
  ASSUME NEW s, SessionInv(s), s.reads # << >>
  PROVE  /\ ReadTaken(s).read_handler = s.read_handler
         /\ ReadTaken(s).closed = s.closed
         /\ ReadTaken(s).read_enabled = s.read_enabled
         /\ ReadTaken(s).reads = << >>
<1>1. ReadTaken(s) = [s EXCEPT !.reads = << >>, !.read_in_progress = FALSE]
  BY ReadTakenKeeps
<1> QED BY <1>1 DEF SessionInv, Session
-----------------------------------------------------------------------------
(* The server's session is an instance of the same module: its operators   *)
(* are those of the client's.                                              *)

(* What its transport does. *)
LEMMA ServerHooks ==
  ASSUME NEW s
  PROVE  /\ Server!can_start_read(s) = can_start_read(s)
         /\ Server!can_start_write(s) = can_start_write(s)
         /\ Server!do_read(s) = do_read(s)
         /\ Server!do_write(s) = do_write(s)
         /\ Server!close_transport(s) = close_transport(s)
<1>1. Server!can_start_read(s) = can_start_read(s)
  BY DEF Server!can_start_read, can_start_read
<1>2. Server!can_start_write(s) = can_start_write(s)
  BY DEF Server!can_start_write, can_start_write,
         Server!has_pending_writes, has_pending_writes
<1>3. Server!do_read(s) = do_read(s)
  BY DEF Server!do_read, do_read, Server!async_read, async_read,
         Server!InitialStatus, InitialStatus,
         Server!mark_read_started, mark_read_started
<1>4. Server!do_write(s) = do_write(s)
  BY DEF Server!do_write, do_write, Server!async_write, async_write,
         Server!InitialStatus, InitialStatus,
         Server!mark_write_started, mark_write_started,
         Server!current_write, current_write,
         Server!has_pending_writes, has_pending_writes,
         Server!Copies, Copies, Server!Front, Front
<1>5. Server!close_transport(s) = close_transport(s)
  BY DEF Server!close_transport, close_transport, Server!Aborted, Aborted
<1> QED BY <1>1, <1>2, <1>3, <1>4, <1>5

(* So its core is the same. *)
LEMMA ServerCore ==
  ASSUME NEW s
  PROVE  /\ Server!Core!schedule_operations(s) = Core!schedule_operations(s)
         /\ Server!Core!close(s) = Core!close(s)
         /\ Server!Core!start_reading(s) = Core!start_reading(s)
<1>1. \A q : Server!Core!schedule_operations(q) = Core!schedule_operations(q)
  BY ServerHooks DEF Server!Core!schedule_operations, Core!schedule_operations
<1>2. Server!Core!close(s) = Core!close(s)
  BY ServerHooks DEF Server!Core!close, Core!close
<1>3. Server!Core!start_reading(s) = Core!start_reading(s)
  BY <1>1 DEF Server!Core!start_reading, Core!start_reading
<1> QED BY <1>1, <1>2, <1>3

(* And so are the completions and the stream. *)
LEMMA ServerStream ==
  ASSUME NEW s
  PROVE  /\ Server!next_piece(s) = next_piece(s)
         /\ Server!mark_read_finished(s) = mark_read_finished(s)
         /\ Server!mark_write_finished(s) = mark_write_finished(s)
         /\ Server!consume_write(s) = consume_write(s)
         /\ \A ops : /\ Server!IsPending(ops) <=> IsPending(ops)
                     /\ Server!IsComplete(ops) <=> IsComplete(ops)
         /\ \A op : Server!HasMore(op) <=> HasMore(op)
<1>1. Server!next_piece(s) = next_piece(s)
  BY DEF Server!next_piece, next_piece, Server!InitialStatus, InitialStatus,
         Server!Copies, Copies, Server!Front, Front,
         Server!current_write, current_write,
         Server!has_pending_writes, has_pending_writes
<1>2. /\ Server!mark_read_finished(s) = mark_read_finished(s)
      /\ Server!mark_write_finished(s) = mark_write_finished(s)
  BY DEF Server!mark_read_finished, mark_read_finished,
         Server!mark_write_finished, mark_write_finished
<1>3. Server!consume_write(s) = consume_write(s)
  BY DEF Server!consume_write, consume_write,
         Server!has_pending_writes, has_pending_writes
<1>4. \A ops : /\ Server!IsPending(ops) <=> IsPending(ops)
               /\ Server!IsComplete(ops) <=> IsComplete(ops)
  BY DEF Server!IsPending, IsPending, Server!IsComplete, IsComplete
<1>5. \A op : Server!HasMore(op) <=> HasMore(op)
  BY DEF Server!HasMore, HasMore
<1> QED BY <1>1, <1>2, <1>3, <1>4, <1>5
-----------------------------------------------------------------------------
(* The steps that do not concern the programs, of either session: what     *)
(* happens to its writes, a read that fails, the loss of the connection.   *)

(* From s to t, with the strand at k; w and x are what has gone out.       *)
Quiet(s, k, w, t, x) ==
  \/ /\ s.writes # << >> /\ HasMore(Head(s.writes))
     /\ t = next_piece(s) /\ x = w
  \/ /\ s.writes # << >> /\ ~HasMore(Head(s.writes)) /\ k = "idle"
     /\ t = WriteOver(s) /\ x = w
  \/ /\ IsPending(s.writes)
     /\ t = PieceOut(s) /\ x = WireAfter(s, w)
  \/ /\ IsPending(s.writes)
     /\ t = [s EXCEPT !.writes = << [Head(@) EXCEPT !.status = "failed"] >>]
     /\ x = w
  \/ /\ IsPending(s.reads)
     /\ t = [s EXCEPT !.reads = << [status |-> "failed"] >>] /\ x = w
  \/ t = [s EXCEPT !.connected = FALSE] /\ x = w

(* They are the client's actions. *)
LEMMA ClientQuietForm ==
  ASSUME \/ OnPiece \/ OnWrite \/ StreamWrites \/ StreamWriteFails
         \/ StreamReadFails \/ ConnectionLost
  PROVE  /\ Quiet(session, strand, wire, session', wire')
         /\ strand' = strand /\ accepted' = accepted
<1>1. CASE OnPiece
  BY <1>1 DEF OnPiece, IsComplete, Quiet
<1>2. CASE OnWrite
  BY <1>2 DEF OnWrite, IsComplete, WriteOver, WriteTaken, Quiet
<1>3. CASE StreamWrites
  BY <1>3, StreamWritesForm DEF Quiet
<1>4. CASE StreamWriteFails
  BY <1>4 DEF StreamWriteFails, Quiet
<1>5. CASE StreamReadFails
  BY <1>5 DEF StreamReadFails, Quiet
<1>6. CASE ConnectionLost
  BY <1>6 DEF ConnectionLost, Quiet
<1> QED BY <1>1, <1>2, <1>3, <1>4, <1>5, <1>6

(* And the server's. *)
LEMMA ServerQuietForm ==
  ASSUME \/ Server!OnPiece \/ Server!OnWrite \/ Server!StreamWrites
         \/ Server!StreamWriteFails \/ Server!StreamReadFails
         \/ Server!ConnectionLost
  PROVE  /\ Quiet(server, serverStrand, serverWire, server', serverWire')
         /\ serverStrand' = serverStrand
         /\ serverAccepted' = serverAccepted
<1>1. CASE Server!OnPiece
  BY <1>1, ServerStream DEF Server!OnPiece, IsComplete, Quiet
<1>2. CASE Server!OnWrite
  BY <1>2, ServerStream, ServerCore
     DEF Server!OnWrite, IsComplete, WriteOver, WriteTaken, Quiet
<1>3. CASE Server!StreamWrites
  <2>1. /\ server' = PieceOut(server)
        /\ serverWire' = WireAfter(server, serverWire)
        /\ UNCHANGED <<serverStrand, serverAccepted>>
    BY <1>3
       DEF Server!StreamWrites, PieceOut, WireAfter, Outgoing,
           Server!Gathers, Gathers, Server!Front, Front,
           Server!current_write, current_write,
           Server!has_pending_writes, has_pending_writes
  <2>2. IsPending(server.writes)
    BY <1>3, ServerStream DEF Server!StreamWrites
  <2> QED BY <2>1, <2>2 DEF Quiet
<1>4. CASE Server!StreamWriteFails
  BY <1>4, ServerStream DEF Server!StreamWriteFails, Quiet
<1>5. CASE Server!StreamReadFails
  BY <1>5, ServerStream DEF Server!StreamReadFails, Quiet
<1>6. CASE Server!ConnectionLost
  BY <1>6 DEF Server!ConnectionLost, Quiet
<1> QED BY <1>1, <1>2, <1>3, <1>4, <1>5, <1>6

(* None of them is a read's; and one that closes the session does so when  *)
(* a message it has accepted has not gone out.                             *)
LEMMA QuietEffect ==
  ASSUME NEW s, NEW k, NEW acc, NEW w, Sound(s, k, acc, w),
         k # "idle" => s.reads = << >>,
         NEW t, NEW x, Quiet(s, k, w, t, x)
  PROVE  /\ Sound(t, k, acc, x)
         /\ Kept(s, t)
         /\ k # "idle" => t.reads = << >>
         /\ t.closed => s.closed \/ (k = "idle" /\ Len(w) < Len(acc))
         /\ x = w \/ \E m \in Message : x = Append(w, m)
<1>1. /\ SessionInv(s) /\ s \in Session /\ acc \in Seq(Message)
      /\ w \in Seq(Message) /\ s.write_queue \in Seq(Message)
  BY DEF Sound, SessionInv, Session
<1>2. CASE /\ s.writes # << >> /\ HasMore(Head(s.writes))
           /\ t = next_piece(s) /\ x = w
  <2>1. Sound(t, k, acc, w)
    BY <1>2, PieceKeeps
  <2>2. SameReading(s, t) /\ Kept(s, t)
    BY <1>1, <1>2, WritingSame
  <2> QED BY <1>2, <2>1, <2>2 DEF SameReading
<1>3. CASE /\ s.writes # << >> /\ ~HasMore(Head(s.writes)) /\ k = "idle"
           /\ t = WriteOver(s) /\ x = w
  <2>1. Sound(t, k, acc, w)
    BY <1>3, WriteOverKeeps
  <2>2. Kept(s, t) /\ (Head(s.writes).status = "done" => t.closed = s.closed)
    BY <1>1, <1>3, WriteOverKept
  <2>3. ASSUME ~s.closed, Head(s.writes).status # "done"
        PROVE  Len(w) < Len(acc)
    <3>1. s.write_queue # << >> /\ acc = w \o s.write_queue
      BY <1>3, <2>3 DEF Sound, SessionInv, Left
    <3>2. Len(acc) = Len(w) + Len(s.write_queue)
      BY <1>1, <3>1, ConcatProperties
    <3>3. Len(w) \in Nat /\ Len(s.write_queue) \in Nat \ {0}
      BY <1>1, <3>1, EmptySeq, LenProperties
    <3> QED BY <3>2, <3>3
  <2> QED BY <1>3, <2>1, <2>2, <2>3
<1>4. CASE /\ IsPending(s.writes)
           /\ t = PieceOut(s) /\ x = WireAfter(s, w)
  <2>1. Sound(t, k, acc, x)
    BY <1>4, PieceOutKeeps
  <2>2. SameReading(s, t) /\ Kept(s, t)
    BY <1>1, <1>4, WritingSame
  <2>3. /\ s.write_queue # << >>
        /\ x = w \/ x = Append(w, Head(s.write_queue))
    BY <1>1, <1>4, PieceOutEffect
  <2>4. Head(s.write_queue) \in Message
    BY <1>1, <2>3, HeadTailProperties
  <2> QED BY <2>1, <2>2, <2>3, <2>4 DEF SameReading
<1>5. CASE /\ IsPending(s.writes)
           /\ t = [s EXCEPT !.writes =
                     << [Head(@) EXCEPT !.status = "failed"] >>]
           /\ x = w
  <2>1. Sound(t, k, acc, w)
    BY <1>5, StreamWriteFailsKeeps
  <2>2. SameReading(s, t) /\ Kept(s, t)
    BY <1>1, <1>5, WritingSame
  <2>3. x = w
    BY <1>5
  <2> QED BY <2>1, <2>2, <2>3 DEF SameReading
<1>6. CASE /\ IsPending(s.reads)
           /\ t = [s EXCEPT !.reads = << [status |-> "failed"] >>] /\ x = w
  <2>1. Sound(t, k, acc, w)
    BY <1>6, StreamReadKeeps
  <2>2. Kept(s, t) /\ t.closed = s.closed
    BY <1>1, <1>6, ReadFailsKept
  <2>3. x = w /\ k = "idle"
    BY <1>6 DEF IsPending
  <2> QED BY <2>1, <2>2, <2>3
<1>7. CASE t = [s EXCEPT !.connected = FALSE] /\ x = w
  <2>1. Sound(t, k, acc, w)
    BY <1>7, CallKeeps
  <2>2. SameReading(s, t) /\ Kept(s, t)
    BY <1>1, <1>7, WritingSame
  <2>3. x = w
    BY <1>7
  <2> QED BY <2>1, <2>2, <2>3 DEF SameReading
<1> QED BY <1>2, <1>3, <1>4, <1>5, <1>6, <1>7 DEF Quiet
-----------------------------------------------------------------------------
(* The client. *)

(* What is used of the invariant time and again. *)
LEMMA ClientParts ==
  ASSUME ClientInv
  PROVE  /\ SessionInv(session) /\ session \in Session
         /\ Sound(session, strand, accepted, wire)
         /\ strand \in {"idle", "after_data", "after_error"}
         /\ accepted \in Seq(Message) /\ wire \in Seq(Message)
         /\ bench \in Benchmark /\ clientRead \in Nat
         /\ Samples \in Nat \ {0} /\ Message = 0 .. Samples - 1
         /\ bench.sent_count \in 0 .. Samples
         /\ bench.received_count \in 0 .. Samples
         /\ bench.expected_sequence \in Message
BY SamplesAssumption, WebSocketBenchmarkAssumption
   DEF ClientInv, IInv, Sound, SessionInv, Benchmark

(* A step that says nothing new about the run.                             *)
LEMMA FlagsStay ==
  ASSUME FlagsOfRun,
         bench'.timer = bench.timer, bench'.failed = bench.failed,
         bench'.stopped = bench.stopped, bench'.main = bench.main,
         bench'.received_count = bench.received_count,
         bench'.close_posted => bench.close_posted,
         bench.received_count = Samples => strand' = "idle"
  PROVE  FlagsOfRun' /\ (Settled' <=> Settled)
BY DEF FlagsOfRun, Settled

(* While a request is on its way out, no answer can have come: all the     *)
(* answers there are have been counted.                                    *)
LEMMA NoAnswerYet ==
  ASSUME BInv, Len(wire) < Len(accepted), ~Settled, strand = "idle"
  PROVE  ~Arrived(session)
<1> SUFFICES ASSUME Arrived(session) PROVE FALSE
  OBVIOUS
<1>1. /\ bench.received_count \in 0 .. Samples /\ Samples \in Nat
      /\ accepted \in Seq(Message) /\ wire \in Seq(Message)
      /\ bench.sent_count \in Nat
  BY ClientParts DEF BInv
<1>2. bench.received_count < Samples /\ ~bench.failed
  BY <1>1 DEF Settled
<1>3. /\ bench.sent_count = bench.received_count + 1
      /\ Len(accepted) <= bench.sent_count
      /\ clientRead = bench.received_count + 1
  BY <1>2 DEF BInv, ClientInv, CountersInv, Unhandled
<1>4. /\ clientRead <= Len(serverWire)
      /\ Len(serverWire) <= Len(serverAccepted)
      /\ Len(serverAccepted) <= serverRead
      /\ serverRead <= Len(wire)
  BY DEF BInv, LinkInv, ServerInv, Sound, Begins
<1>5. /\ Len(serverWire) \in Nat /\ Len(serverAccepted) \in Nat
      /\ Len(wire) \in Nat /\ Len(accepted) \in Nat
      /\ clientRead \in Nat /\ serverRead \in Nat
  BY <1>1, LenProperties DEF BInv, ClientInv, ServerInv, Sound
<1> QED BY <1>1, <1>3, <1>4, <1>5

(* An open session that has started to read, and whose strand rests, has a *)
(* read outstanding.                                                       *)
LEMMA ReadOutstanding ==
  ASSUME ClientInv, strand = "idle", ~session.closed,
         bench.startup \in {"send", "done"}
  PROVE  session.reads # << >>
<1>1. session.read_enabled /\ ~can_start_read(session) /\ SessionInv(session)
  BY DEF ClientInv, StartupInv, IInv, Sound
<1>2. session.read_in_progress
  BY <1>1 DEF can_start_read
<1>3. Len(session.reads) = 1
  BY <1>1, <1>2 DEF SessionInv
<1> QED BY <1>3, EmptySeq

(* The steps that do not concern the program: also one that closes the     *)
(* session has a read left to say so.                                      *)
LEMMA ClientQuietInv ==
  ASSUME BInv, Quiet(session, strand, wire, session', wire'),
         UNCHANGED <<strand, accepted, clientRead, bench>>
  PROVE  ClientInv'
<1>1. /\ ClientInv /\ Sound(session, strand, accepted, wire)
      /\ strand # "idle" => session.reads = << >>
      /\ accepted \in Seq(Message) /\ wire \in Seq(Message)
  BY ClientParts DEF BInv, ClientInv
<1>2. /\ Sound(session', strand, accepted, wire')
      /\ Kept(session, session')
      /\ strand # "idle" => session'.reads = << >>
      /\ session'.closed =>
           \/ session.closed
           \/ strand = "idle" /\ Len(wire) < Len(accepted)
  BY <1>1, QuietEffect
<1>3. Len(wire) < Len(accepted) => bench.startup = "done"
  <2>1. Len(wire) \in Nat /\ Len(<< >>) = 0
    BY <1>1, LenProperties
  <2> QED BY <1>1, <2>1 DEF ClientInv, StartupInv
<1>4. StartupInv'
  BY <1>1, <1>2, <1>3 DEF ClientInv, StartupInv, Kept
<1>5. FlagsOfRun' /\ (Settled' <=> Settled)
  BY <1>1 DEF ClientInv, FlagsOfRun, Settled
<1>6. Arrived(session') <=> Arrived(session)
  BY <1>2 DEF Kept
<1>7. Unhandled(session', strand) = Unhandled(session, strand)
  BY <1>6 DEF Unhandled
<1>8. CountersInv'
  BY <1>1, <1>7 DEF ClientInv, CountersInv
<1>9. ToldInv'
  <2> SUFFICES ASSUME session'.closed, ~Settled
               PROVE  \/ strand = "after_error"
                      \/ session'.reads # << >> /\ ~Arrived(session')
    BY <1>1, <1>5 DEF ToldInv
  <2>1. CASE session.closed
    BY <1>1, <1>2, <1>6, <2>1 DEF ClientInv, ToldInv, Kept
  <2>2. CASE ~session.closed
    <3>1. strand = "idle" /\ Len(wire) < Len(accepted)
      BY <1>2, <2>2
    <3>2. ~Arrived(session)
      BY <3>1, NoAnswerYet
    <3>3. session.reads # << >>
      BY <1>1, <1>3, <2>2, <3>1, ReadOutstanding
    <3> QED BY <1>2, <1>6, <3>2, <3>3 DEF Kept
  <2> QED BY <2>1, <2>2
<1> QED
  BY <1>1, <1>2, <1>4, <1>5, <1>8, <1>9 DEF ClientInv, IInv

(* The first posted call sets the read handler. *)
LEMMA SetsReadHandlerInv ==
  ASSUME BInv, SetsReadHandler
  PROVE  ClientInv'
<1>1. /\ SetReadHandler(TRUE)
      /\ session' = [session EXCEPT !.read_handler = TRUE]
      /\ strand = "idle" /\ UNCHANGED <<strand, accepted, wire, clientRead>>
      /\ bench.startup = "set_read_handler"
      /\ bench' = [bench EXCEPT !.startup = "start_reading"]
      /\ ClientInv
  BY DEF SetsReadHandler, ClientIdle, Startup, SetReadHandler,
         set_read_handler, BInv
<1>2. IInv'
  BY <1>1, CallStep DEF ClientInv
<1>3. session \in Session /\ bench \in Benchmark
  BY <1>1, ClientParts
<1>4. /\ session'.read_handler /\ session'.reads = session.reads
      /\ session'.read_enabled = session.read_enabled
      /\ session'.closed = session.closed
  BY <1>1, <1>3 DEF Session
<1>5. /\ bench' \in Benchmark /\ bench'.startup = "start_reading"
      /\ bench'.timer = bench.timer /\ bench'.failed = bench.failed
      /\ bench'.stopped = bench.stopped /\ bench'.main = bench.main
      /\ bench'.received_count = bench.received_count
      /\ bench'.close_posted = bench.close_posted
      /\ bench'.sent_count = bench.sent_count
  BY <1>1, <1>3 DEF Benchmark
<1>6. /\ session.reads = << >> /\ ~session.read_enabled
      /\ ~session.closed /\ accepted = << >>
  BY <1>1 DEF ClientInv, StartupInv
<1>7. StartupInv' /\ ToldInv'
  BY <1>1, <1>4, <1>5, <1>6 DEF StartupInv, ToldInv
<1>8. FlagsOfRun'
  BY <1>1, <1>5, FlagsStay DEF ClientInv
<1>9. Unhandled(session', strand') = Unhandled(session, strand)
  BY <1>1, <1>4 DEF Unhandled, Arrived
<1>10. CountersInv'
  BY <1>1, <1>5, <1>9 DEF ClientInv, CountersInv
<1> QED
  BY <1>1, <1>2, <1>4, <1>5, <1>7, <1>8, <1>10 DEF ClientInv

(* The second one starts to read. *)
LEMMA StartsReadingInv ==
  ASSUME BInv, StartsReading
  PROVE  ClientInv'
<1>1. /\ StartReading
      /\ session' = Core!start_reading(session)
      /\ strand = "idle" /\ UNCHANGED <<strand, accepted, wire, clientRead>>
      /\ bench.startup = "start_reading"
      /\ bench' = [bench EXCEPT !.startup = "send"]
      /\ ClientInv
  BY DEF StartsReading, ClientIdle, Startup, StartReading, BInv
<1>2. IInv'
  BY <1>1, CallStep DEF ClientInv
<1>3. SessionInv(session) /\ bench \in Benchmark
  BY <1>1, ClientParts
<1>4. /\ session.read_handler /\ ~session.closed /\ accepted = << >>
  BY <1>1 DEF ClientInv, StartupInv
<1>5. /\ session'.read_handler = session.read_handler
      /\ session'.closed = session.closed
      /\ session'.read_enabled
      /\ Arrived(session') <=> Arrived(session)
  BY <1>1, <1>3, <1>4, StartReadingEffect
<1>6. /\ bench' \in Benchmark /\ bench'.startup = "send"
      /\ bench'.timer = bench.timer /\ bench'.failed = bench.failed
      /\ bench'.stopped = bench.stopped /\ bench'.main = bench.main
      /\ bench'.received_count = bench.received_count
      /\ bench'.close_posted = bench.close_posted
      /\ bench'.sent_count = bench.sent_count
  BY <1>1, <1>3 DEF Benchmark
<1>7. StartupInv' /\ ToldInv'
  BY <1>1, <1>4, <1>5, <1>6 DEF StartupInv, ToldInv
<1>8. FlagsOfRun'
  BY <1>1, <1>6, FlagsStay DEF ClientInv
<1>9. Unhandled(session', strand') = Unhandled(session, strand)
  BY <1>1, <1>5 DEF Unhandled
<1>10. CountersInv'
  BY <1>1, <1>6, <1>9 DEF ClientInv, CountersInv
<1> QED
  BY <1>1, <1>2, <1>6, <1>7, <1>8, <1>10 DEF ClientInv

(* The third one sends the first request. *)
LEMMA SendsFirstInv ==
  ASSUME BInv, OverInv, SendsFirst
  PROVE  ClientInv'
<1>1. /\ Send(0)
      /\ session' = Core!enqueue_write(session, 0)
      /\ accepted' = IF session.closed THEN accepted ELSE Append(accepted, 0)
      /\ strand = "idle" /\ UNCHANGED <<strand, wire, clientRead>>
      /\ bench.startup = "send"
      /\ bench' = [bench EXCEPT !.startup = "done"]
      /\ ClientInv
  BY DEF SendsFirst, ClientIdle, Startup, Send, BInv
<1>2. /\ SessionInv(session) /\ bench \in Benchmark /\ 0 \in Message
      /\ bench.received_count \in 0 .. Samples /\ Samples \in Nat \ {0}
  BY <1>1, ClientParts
<1>3. IInv' /\ session'.closed = session.closed
  BY <1>1, <1>2, SendStep DEF ClientInv
<1>4. Kept(session, session')
  BY <1>1, <1>2, EnqueueKept
<1>5. /\ bench' \in Benchmark /\ bench'.startup = "done"
      /\ bench'.timer = bench.timer /\ bench'.failed = bench.failed
      /\ bench'.stopped = bench.stopped /\ bench'.main = bench.main
      /\ bench'.received_count = bench.received_count
      /\ bench'.close_posted = bench.close_posted
      /\ bench'.sent_count = bench.sent_count
  BY <1>1, <1>2 DEF Benchmark
<1>6. StartupInv'
  BY <1>1, <1>3, <1>4, <1>5 DEF ClientInv, StartupInv, Kept
<1>7. FlagsOfRun' /\ (Settled' <=> Settled)
  BY <1>1, <1>5, FlagsStay DEF ClientInv
<1>8. ToldInv'
  BY <1>1, <1>3, <1>4, <1>7 DEF ClientInv, ToldInv, Kept
<1>9. Unhandled(session', strand') = Unhandled(session, strand)
  BY <1>1, <1>4 DEF Unhandled, Kept
<1>10. Len(accepted') <= bench.sent_count
  <2>1. bench.received_count # Samples
    BY <1>1 DEF OverInv
  <2>2. bench.sent_count = bench.received_count + 1
    BY <1>1, <1>2, <2>1 DEF ClientInv, CountersInv
  <2>3. accepted = << >>
    BY <1>1 DEF ClientInv, StartupInv
  <2>4. Len(accepted') <= 1
    BY <1>1, <2>3
  <2>5. Len(accepted') \in Nat
    BY <1>3, LenProperties DEF IInv, Sound
  <2> QED BY <1>2, <2>2, <2>4, <2>5
<1>11. CountersInv'
  BY <1>1, <1>5, <1>9, <1>10 DEF ClientInv, CountersInv
<1> QED
  BY <1>1, <1>3, <1>5, <1>6, <1>7, <1>8, <1>11 DEF ClientInv

(* The close() that the timer posted: the run has failed. *)
LEMMA ClosesInv ==
  ASSUME BInv, Closes
  PROVE  ClientInv'
<1>1. /\ Close
      /\ session' = Core!close(session)
      /\ strand = "idle" /\ UNCHANGED <<strand, accepted, wire, clientRead>>
      /\ bench.startup = "done" /\ bench.close_posted
      /\ bench' = [bench EXCEPT !.close_posted = FALSE]
      /\ ClientInv
  BY DEF Closes, ClientIdle, PostedClose, Close, BInv
<1>2. session \in Session /\ bench \in Benchmark
  BY <1>1, ClientParts
<1>3. IInv' /\ session'.closed
  BY <1>1, CloseStep DEF ClientInv
<1>4. Kept(session, session')
  BY <1>1, <1>2, CloseKept
<1>5. /\ bench' \in Benchmark /\ bench'.startup = bench.startup
      /\ bench'.timer = bench.timer /\ bench'.failed = bench.failed
      /\ bench'.stopped = bench.stopped /\ bench'.main = bench.main
      /\ bench'.received_count = bench.received_count
      /\ ~bench'.close_posted
      /\ bench'.sent_count = bench.sent_count
  BY <1>1, <1>2 DEF Benchmark
<1>6. StartupInv'
  BY <1>1, <1>3, <1>4, <1>5 DEF ClientInv, StartupInv, Kept
<1>7. FlagsOfRun' /\ (Settled' <=> Settled)
  BY <1>1, <1>5, FlagsStay DEF ClientInv
<1>8. ToldInv'
  BY <1>1, <1>7 DEF ClientInv, FlagsOfRun, Settled, ToldInv
<1>9. Unhandled(session', strand') = Unhandled(session, strand)
  BY <1>1, <1>4 DEF Unhandled, Kept
<1>10. CountersInv'
  BY <1>1, <1>5, <1>9 DEF ClientInv, CountersInv
<1> QED
  BY <1>1, <1>3, <1>5, <1>6, <1>7, <1>8, <1>10 DEF ClientInv

(* A read completes, and the read handler is called. *)
LEMMA OnReadInv ==
  ASSUME BInv, OverInv, OnRead, UNCHANGED <<bench, clientRead>>
  PROVE  ClientInv'
<1> DEFINE rest == IF Head(session.reads).status = "done"
                   THEN "after_data" ELSE "after_error"
           t == ReadTaken(session)
<1>1. /\ strand = "idle" /\ session.reads # << >>
      /\ session' = IF t.read_handler THEN t ELSE AfterRead(t, rest)
      /\ strand' = IF t.read_handler THEN rest ELSE "idle"
      /\ UNCHANGED <<accepted, wire>>
      /\ ClientInv
  BY DEF OnRead, IsComplete, ReadTaken, BInv
<1>2. IInv'
  BY <1>1, OnReadStep DEF ClientInv
<1>3. SessionInv(session)
  BY <1>1, ClientParts
<1>4. bench.startup \in {"send", "done"} /\ session.read_handler
  <2>1. bench.startup \in {"set_read_handler", "start_reading", "send", "done"}
    BY <1>1 DEF ClientInv, Benchmark
  <2> QED BY <1>1, <2>1 DEF ClientInv, StartupInv
<1>5. /\ t.read_handler = session.read_handler /\ t.reads = << >>
      /\ t.closed = session.closed /\ t.read_enabled = session.read_enabled
  BY <1>1, <1>3, ReadTakenEffect
<1>6. session' = t /\ strand' = rest
  BY <1>1, <1>4, <1>5
<1> HIDE DEF t
<1>7. StartupInv'
  BY <1>1, <1>4, <1>5, <1>6 DEF ClientInv, StartupInv
<1>8. FlagsOfRun' /\ (Settled' <=> Settled)
  <2>1. session.read_in_progress
    BY <1>1, <1>3, EmptySeq DEF SessionInv
  <2>2. bench.received_count # Samples
    BY <2>1 DEF OverInv
  <2> QED BY <1>1, <2>2 DEF ClientInv, FlagsOfRun, Settled
<1>9. ToldInv'
  BY <1>1, <1>5, <1>6, <1>8 DEF ClientInv, ToldInv, Arrived
<1>10. Unhandled(session', strand') = Unhandled(session, strand)
  BY <1>1, <1>5, <1>6 DEF Unhandled, Arrived
<1>11. CountersInv'
  BY <1>1, <1>10 DEF ClientInv, CountersInv
<1> QED
  BY <1>1, <1>2, <1>5, <1>6, <1>7, <1>8, <1>9, <1>11 DEF ClientInv

(* Once a message has been read, the startup is over: the message is an    *)
(* answer, and so something was sent.                                      *)
LEMMA AnswersStarted ==
  ASSUME BInv, strand = "after_data"
  PROVE  bench.startup = "done"
<1>1. /\ ClientInv /\ accepted \in Seq(Message) /\ wire \in Seq(Message)
      /\ Begins(wire, accepted)
  BY ClientParts DEF BInv, Sound
<1>2. 1 <= clientRead
  BY <1>1 DEF ClientInv, CountersInv, Unhandled
<1>3. /\ clientRead <= Len(serverWire)
      /\ Len(serverWire) <= Len(serverAccepted)
      /\ Len(serverAccepted) <= serverRead
      /\ serverRead <= Len(wire) /\ Len(wire) <= Len(accepted)
  BY <1>1 DEF BInv, LinkInv, ServerInv, Sound, Begins
<1>4. /\ Len(serverWire) \in Nat /\ Len(serverAccepted) \in Nat
      /\ Len(wire) \in Nat /\ Len(accepted) \in Nat
      /\ clientRead \in Nat /\ serverRead \in Nat
  BY <1>1, LenProperties DEF BInv, ClientInv, ServerInv, Sound
<1>5. Len(accepted) # 0
  BY <1>2, <1>3, <1>4
<1> QED BY <1>1, <1>5, EmptySeq DEF ClientInv, StartupInv

(* The read handler finds an error, or an answer it did not expect.        *)
LEMMA ClientGivesUpInv ==
  ASSUME BInv, strand # "idle", ClientGivesUp
  PROVE  ClientInv'
<1> DEFINE c == Core!close(session)
<1>1. /\ session' = AfterRead(c, strand) /\ strand' = "idle"
      /\ bench' = give_up(bench)
      /\ UNCHANGED <<accepted, wire, clientRead>>
      /\ ClientInv
  BY DEF ClientGivesUp, ClientReturns, BInv
<1>2. /\ SessionInv(session) /\ session \in Session /\ bench \in Benchmark
      /\ Sound(session, strand, accepted, wire) /\ clientRead \in Nat
  BY <1>1, ClientParts
<1>3. Sound(c, "idle", accepted, wire) /\ c.closed
  BY <1>2, ClosingKeeps
<1>4. Kept(session, c)
  BY <1>2, CloseKept
<1> HIDE DEF c
<1>5. session' = c
  BY <1>1, <1>3, ClosedRests
<1>6. /\ bench' \in Benchmark /\ bench'.failed /\ bench'.stopped
      /\ bench'.startup = bench.startup
      /\ bench'.received_count = bench.received_count
      /\ bench'.sent_count = bench.sent_count
  BY <1>1, <1>2 DEF give_up, Benchmark
<1>7. bench.startup \notin {"set_read_handler", "start_reading"}
  BY <1>1 DEF ClientInv, StartupInv
<1>8. StartupInv'
  BY <1>1, <1>3, <1>4, <1>5, <1>6, <1>7 DEF ClientInv, StartupInv, Kept
<1>9. FlagsOfRun' /\ ToldInv'
  BY <1>1, <1>6 DEF FlagsOfRun, ToldInv, Settled
<1>10. Unhandled(session', strand') <= clientRead
  <2>1. ~Arrived(session)
    BY <1>1 DEF ClientInv, Arrived
  <2>2. Unhandled(session', strand') = 0
    BY <1>1, <1>4, <1>5, <2>1 DEF Unhandled, Kept
  <2> QED BY <1>2, <2>2
<1>11. CountersInv'
  BY <1>1, <1>6, <1>10 DEF ClientInv, CountersInv
<1>12. IInv'
  BY <1>1, <1>3, <1>5 DEF IInv
<1> QED
  BY <1>1, <1>6, <1>8, <1>9, <1>11, <1>12 DEF ClientInv

(* Counting an answer. *)
LEMMA CountedEffect ==
  ASSUME NEW b \in Benchmark, b.received_count + 1 <= Samples
  PROVE  /\ count_sample(b) \in Benchmark
         /\ count_sample(b).received_count = b.received_count + 1
         /\ count_sample(b).sent_count = b.sent_count
         /\ count_sample(b).failed = b.failed
         /\ count_sample(b).stopped = b.stopped
         /\ count_sample(b).main = b.main
         /\ count_sample(b).timer = b.timer
         /\ count_sample(b).startup = b.startup
         /\ count_sample(b).close_posted = b.close_posted
<1> DEFINE n == b.received_count + 1
<1>1. count_sample(b) = [b EXCEPT !.received_count = n]
  BY DEF count_sample
<1>2. n \in 0 .. Samples
  BY SamplesAssumption DEF Benchmark
<1> HIDE DEF n
<1>3. /\ count_sample(b) \in Benchmark
      /\ count_sample(b).received_count = n
      /\ count_sample(b).sent_count = b.sent_count
      /\ count_sample(b).failed = b.failed
      /\ count_sample(b).stopped = b.stopped
      /\ count_sample(b).main = b.main
      /\ count_sample(b).timer = b.timer
      /\ count_sample(b).startup = b.startup
      /\ count_sample(b).close_posted = b.close_posted
  BY <1>1, <1>2 DEF Benchmark
<1> QED BY <1>3 DEF n

(* Sending the next request, which is numbered by what was sent before.    *)
LEMMA NextEffect ==
  ASSUME NEW b \in Benchmark, b.sent_count + 1 <= Samples
  PROVE  /\ send_next(b) \in Benchmark
         /\ send_next(b).sent_count = b.sent_count + 1
         /\ send_next(b).expected_sequence = b.sent_count
         /\ b.sent_count \in Message
         /\ send_next(b).received_count = b.received_count
         /\ send_next(b).failed = b.failed
         /\ send_next(b).stopped = b.stopped
         /\ send_next(b).main = b.main
         /\ send_next(b).timer = b.timer
         /\ send_next(b).startup = b.startup
         /\ send_next(b).close_posted = b.close_posted
<1> DEFINE m == b.sent_count
           n == m + 1
<1>1. /\ m \in 0 .. Samples - 1 /\ n \in 0 .. Samples /\ ~(m >= Samples)
      /\ m \in Message
  BY SamplesAssumption, WebSocketBenchmarkAssumption DEF Benchmark
<1>2. send_next(b) = [b EXCEPT !.expected_sequence = m, !.sent_count = n]
  BY <1>1 DEF send_next, Benchmark
<1> HIDE DEF n
<1>3. /\ send_next(b) \in Benchmark
      /\ send_next(b).sent_count = n
      /\ send_next(b).expected_sequence = m
      /\ send_next(b).received_count = b.received_count
      /\ send_next(b).failed = b.failed
      /\ send_next(b).stopped = b.stopped
      /\ send_next(b).main = b.main
      /\ send_next(b).timer = b.timer
      /\ send_next(b).startup = b.startup
      /\ send_next(b).close_posted = b.close_posted
  BY <1>1, <1>2 DEF Benchmark
<1> QED BY <1>1, <1>3 DEF n

(* An answer comes while there is one to come, and the request for it was  *)
(* the last one sent.                                                      *)
LEMMA AnswerCounts ==
  ASSUME ClientInv, strand # "idle"
  PROVE  /\ bench.received_count + 1 <= Samples
         /\ bench.sent_count = bench.received_count + 1
<1>1. bench.received_count \in 0 .. Samples /\ Samples \in Nat
  BY ClientParts
<1>2. bench.received_count # Samples
  BY DEF ClientInv, FlagsOfRun
<1>3. bench.received_count < Samples
  BY <1>1, <1>2
<1> QED BY <1>1, <1>3 DEF ClientInv, CountersInv

(* The last answer. *)
LEMMA FinishesInv ==
  ASSUME BInv, strand = "after_data",
         count_sample(bench).received_count >= Samples,
         ClientReturns(Core!close(session), finish(count_sample(bench))),
         UNCHANGED accepted
  PROVE  ClientInv'
<1> DEFINE c == Core!close(session)
<1>1. /\ session' = AfterRead(c, strand) /\ strand' = "idle"
      /\ bench' = finish(count_sample(bench))
      /\ UNCHANGED <<accepted, wire, clientRead>>
      /\ ClientInv
  BY DEF ClientReturns, BInv
<1>2. /\ SessionInv(session) /\ session \in Session /\ bench \in Benchmark
      /\ Sound(session, strand, accepted, wire) /\ clientRead \in Nat
      /\ Samples \in Nat \ {0} /\ bench.received_count \in 0 .. Samples
  BY <1>1, ClientParts
<1>3. Sound(c, "idle", accepted, wire) /\ c.closed
  BY <1>2, ClosingKeeps
<1>4. Kept(session, c)
  BY <1>2, CloseKept
<1> HIDE DEF c
<1>5. session' = c
  BY <1>1, <1>3, ClosedRests
<1>6. /\ bench.received_count + 1 <= Samples
      /\ bench.sent_count = bench.received_count + 1
  BY <1>1, AnswerCounts
<1> DEFINE counted == count_sample(bench)
<1>7. /\ counted \in Benchmark
      /\ counted.received_count = bench.received_count + 1
      /\ counted.sent_count = bench.sent_count
      /\ counted.failed = bench.failed
      /\ counted.timer = bench.timer /\ counted.startup = bench.startup
      /\ counted.close_posted = bench.close_posted
      /\ counted.received_count >= Samples
  BY <1>2, <1>6, CountedEffect
<1>8. bench' = [counted EXCEPT !.completed = TRUE, !.stopped = TRUE]
  BY <1>1 DEF finish
<1> HIDE DEF counted
<1>9. bench.received_count + 1 = Samples
  BY <1>2, <1>6, <1>7
<1>10. /\ bench' \in Benchmark /\ bench'.failed = bench.failed
       /\ bench'.stopped
       /\ bench'.startup = bench.startup /\ bench'.timer = bench.timer
       /\ bench'.close_posted = bench.close_posted
       /\ bench'.received_count = bench.received_count + 1
       /\ bench'.sent_count = bench.sent_count
  BY <1>7, <1>8 DEF Benchmark
<1>11. bench.startup = "done"
  BY AnswersStarted
<1>12. StartupInv'
  BY <1>1, <1>3, <1>4, <1>5, <1>10, <1>11 DEF ClientInv, StartupInv, Kept
<1>13. FlagsOfRun' /\ ToldInv'
  BY <1>1, <1>9, <1>10 DEF ClientInv, FlagsOfRun, ToldInv, Settled
<1>14. /\ Unhandled(session', strand') = 0
       /\ Unhandled(session, strand) = 1
  <2>1. ~Arrived(session)
    BY <1>1 DEF ClientInv, Arrived
  <2> QED BY <1>1, <1>4, <1>5, <2>1 DEF Unhandled, Kept
<1>15. CountersInv'
  BY <1>1, <1>2, <1>9, <1>10, <1>14 DEF ClientInv, CountersInv
<1>16. IInv'
  BY <1>1, <1>3, <1>5 DEF IInv
<1> QED
  BY <1>1, <1>10, <1>12, <1>13, <1>15, <1>16 DEF ClientInv

(* An answer that is not the last: the next request is sent. *)
LEMMA SendsNextInv ==
  ASSUME BInv, strand = "after_data",
         ~(count_sample(bench).received_count >= Samples),
         ClientReturns(
           Core!enqueue_write(session,
             send_next(count_sample(bench)).expected_sequence),
           send_next(count_sample(bench))),
         accepted' =
           IF session.closed THEN accepted
           ELSE Append(accepted,
                  send_next(count_sample(bench)).expected_sequence)
  PROVE  ClientInv'
<1> DEFINE next == send_next(count_sample(bench))
           m    == next.expected_sequence
           e    == Core!enqueue_write(session, m)
<1>0. accepted' = IF session.closed THEN accepted ELSE Append(accepted, m)
  OBVIOUS
<1>1. /\ session' = AfterRead(e, strand) /\ strand' = "idle"
      /\ bench' = next
      /\ UNCHANGED <<wire, clientRead>>
      /\ ClientInv
  BY DEF ClientReturns, BInv
<1>2. /\ SessionInv(session) /\ session \in Session /\ bench \in Benchmark
      /\ Sound(session, strand, accepted, wire) /\ clientRead \in Nat
      /\ Samples \in Nat \ {0} /\ Message = 0 .. Samples - 1
      /\ accepted \in Seq(Message)
      /\ bench.sent_count \in 0 .. Samples
      /\ bench.received_count \in 0 .. Samples
  BY <1>1, ClientParts
<1>3. bench.received_count + 1 < Samples
  <2>1. bench.received_count + 1 <= Samples
    BY <1>1, AnswerCounts
  <2>2. count_sample(bench).received_count = bench.received_count + 1
    BY <1>2, <2>1, CountedEffect
  <2> QED BY <1>2, <2>2
<1>4. bench.sent_count = bench.received_count + 1
  BY <1>1, AnswerCounts
<1>5. /\ next \in Benchmark /\ m = bench.sent_count /\ m \in Message
      /\ next.failed = bench.failed
      /\ next.stopped = bench.stopped /\ next.main = bench.main
      /\ next.startup = bench.startup /\ next.timer = bench.timer
      /\ next.close_posted = bench.close_posted
      /\ next.received_count = bench.received_count + 1
      /\ next.sent_count = bench.sent_count + 1
  <2> DEFINE counted == count_sample(bench)
  <2>1. /\ counted \in Benchmark
        /\ counted.received_count = bench.received_count + 1
        /\ counted.sent_count = bench.sent_count
        /\ counted.failed = bench.failed
        /\ counted.stopped = bench.stopped /\ counted.main = bench.main
        /\ counted.startup = bench.startup /\ counted.timer = bench.timer
        /\ counted.close_posted = bench.close_posted
    BY <1>2, <1>3, CountedEffect
  <2> HIDE DEF counted
  <2>2. counted.sent_count + 1 <= Samples
    BY <1>2, <1>3, <1>4, <2>1
  <2> QED BY <2>1, <2>2, NextEffect DEF counted
<1> HIDE DEF next, m
<1>6. /\ bench' \in Benchmark
      /\ bench'.failed = bench.failed
      /\ bench'.stopped = bench.stopped /\ bench'.main = bench.main
      /\ bench'.startup = bench.startup /\ bench'.timer = bench.timer
      /\ bench'.close_posted = bench.close_posted
      /\ bench'.received_count = bench.received_count + 1
      /\ bench'.sent_count = bench.sent_count + 1
  BY <1>1, <1>5
<1>7. Sound(e, strand, accepted', wire) /\ e.closed = session.closed
  <2>1. Sound(session, strand, accepted, wire) /\ m \in Message
    BY <1>2, <1>5
  <2>2. \A bcc : bcc = (IF session.closed THEN accepted
                        ELSE Append(accepted, m)) =>
          Sound(e, strand, bcc, wire) /\ e.closed = session.closed
    BY <2>1, SendKeeps
  <2> HIDE DEF e
  <2> QED BY <1>0, <2>2
<1>8. Kept(session, e)
  BY <1>2, <1>5, EnqueueKept
<1> HIDE DEF e
<1>9. SessionInv(e) /\ SameMessages(e, e)
  BY <1>7 DEF Sound, SameMessages
<1>10. Sound(session', "idle", accepted', wire)
  BY <1>1, <1>7, <1>9, AfterReadKeeps
<1>11. Kept(e, session') /\ session'.closed = e.closed
  BY <1>1, <1>9, AfterReadKept
<1>12. Kept(session, session') /\ session'.closed = session.closed
  BY <1>7, <1>8, <1>11, KeptTwice
<1>13. bench.startup = "done"
  BY AnswersStarted
<1>14. StartupInv'
  BY <1>1, <1>6, <1>12, <1>13 DEF ClientInv, StartupInv, Kept
<1>15. Settled => bench.failed
  BY <1>2, <1>3 DEF Settled
<1>16. FlagsOfRun'
  BY <1>1, <1>2, <1>3, <1>6, <1>15 DEF ClientInv, FlagsOfRun, Settled
<1>17. ToldInv'
  <2>1. session.closed => Settled
    BY <1>1 DEF ClientInv, ToldInv
  <2> QED BY <1>6, <1>12, <1>15, <2>1 DEF ToldInv, Settled
<1>18. /\ Unhandled(session', strand') = 0
       /\ Unhandled(session, strand) = 1
  <2>1. ~Arrived(session)
    BY <1>1 DEF ClientInv, Arrived
  <2> QED BY <1>1, <1>12, <2>1 DEF Unhandled, Kept
<1>19. Len(accepted') <= bench.sent_count + 1
  <2>1. Len(accepted) <= bench.sent_count /\ Len(accepted) \in Nat
    BY <1>1, <1>2, LenProperties DEF ClientInv, CountersInv
  <2>2. accepted' = accepted \/ Len(accepted') = Len(accepted) + 1
    BY <1>0, <1>2, <1>5, AppendProperties
  <2> QED BY <1>2, <2>1, <2>2
<1>20. CountersInv'
  BY <1>1, <1>2, <1>4, <1>6, <1>18, <1>19 DEF ClientInv, CountersInv
<1>21. IInv'
  BY <1>1, <1>10 DEF IInv
<1> QED
  BY <1>1, <1>6, <1>14, <1>16, <1>17, <1>20, <1>21 DEF ClientInv

(* So whatever the read handler finds in the message. *)
LEMMA HandlesMessageInv ==
  ASSUME BInv, HandlesMessage
  PROVE  ClientInv'
<1> DEFINE counted == count_sample(bench)
           next    == send_next(counted)
<1>1. strand = "after_data"
  BY DEF HandlesMessage
<1>2. CASE ClientGivesUp
  BY <1>1, <1>2, ClientGivesUpInv
<1>3. CASE /\ counted.received_count >= Samples
           /\ ClientReturns(Core!close(session), finish(counted))
           /\ UNCHANGED accepted
  BY <1>1, <1>3, FinishesInv
<1>4. CASE /\ ~(counted.received_count >= Samples)
           /\ ClientReturns(
                Core!enqueue_write(session, next.expected_sequence), next)
           /\ accepted' = IF session.closed THEN accepted
                          ELSE Append(accepted, next.expected_sequence)
  BY <1>1, <1>4, SendsNextInv
<1>5. ~(/\ ~(counted.received_count >= Samples)
        /\ next.sent_count = bench.sent_count)
  <2> SUFFICES ASSUME ~(counted.received_count >= Samples)
               PROVE  next.sent_count # bench.sent_count
    OBVIOUS
  <2>1. /\ ClientInv /\ bench \in Benchmark /\ Samples \in Nat \ {0}
        /\ bench.sent_count \in 0 .. Samples
        /\ bench.received_count \in 0 .. Samples
        /\ bench.received_count + 1 <= Samples
        /\ bench.sent_count = bench.received_count + 1
    BY <1>1, ClientParts, AnswerCounts DEF BInv
  <2>2. /\ counted \in Benchmark
        /\ counted.received_count = bench.received_count + 1
        /\ counted.sent_count = bench.sent_count
    BY <2>1, CountedEffect
  <2> HIDE DEF counted
  <2>3. next.sent_count = counted.sent_count + 1
    <3>1. counted.sent_count + 1 <= Samples
      BY <2>1, <2>2
    <3> QED BY <2>2, <3>1, NextEffect
  <2> HIDE DEF next
  <2> QED BY <2>1, <2>2, <2>3
<1> QED BY <1>2, <1>3, <1>4, <1>5 DEF HandlesMessage

(* The client's stream has read a message. *)
LEMMA ClientReadsInv ==
  ASSUME BInv, ClientReads, UNCHANGED bench
  PROVE  ClientInv' /\ clientRead' <= Len(serverWire)
<1>1. /\ StreamReads /\ IsPending(session.reads)
      /\ session' = [session EXCEPT !.reads = << [status |-> "done"] >>]
      /\ UNCHANGED <<strand, accepted, wire>>
      /\ clientRead' = clientRead + 1 /\ clientRead < Len(serverWire)
      /\ ClientInv
  BY DEF ClientReads, StreamReads, BInv
<1>2. SessionInv(session) /\ session \in Session /\ clientRead \in Nat
  BY <1>1, ClientParts
<1>3. IInv'
  BY <1>1, StreamReadStep DEF ClientInv
<1>4. /\ session'.read_handler = session.read_handler
      /\ session'.closed = session.closed
      /\ session'.read_enabled = session.read_enabled
      /\ ~Arrived(session) /\ Arrived(session')
      /\ session.reads # << >>
  BY <1>1, <1>2, ReadDoneEffect
<1>5. strand = "idle"
  BY <1>1, <1>4 DEF ClientInv
<1>6. ~session.closed
  BY <1>1, <1>2 DEF SessionInv
<1>7. StartupInv'
  BY <1>1, <1>4 DEF ClientInv, StartupInv
<1>8. FlagsOfRun' /\ ToldInv'
  BY <1>1, <1>4, <1>6 DEF ClientInv, FlagsOfRun, ToldInv, Settled
<1>9. /\ Unhandled(session', strand') = 1
      /\ Unhandled(session, strand) = 0
  BY <1>1, <1>4, <1>5 DEF Unhandled
<1>10. CountersInv'
  <2>1. bench.received_count \in Nat
    BY <1>1, ClientParts
  <2> QED BY <1>1, <1>2, <1>9, <2>1 DEF ClientInv, CountersInv
<1>11. clientRead' <= Len(serverWire)
  <2>1. Len(serverWire) \in Nat
    BY LenProperties DEF BInv, ServerInv, Sound
  <2> QED BY <1>1, <1>2, <2>1
<1> QED
  BY <1>1, <1>2, <1>3, <1>5, <1>7, <1>8, <1>10, <1>11 DEF ClientInv

(* The steps of the other threads, and of main when no handler runs, leave *)
(* the session and the counters.                                           *)
LEMMA BenchStep ==
  ASSUME ClientInv, UNCHANGED clientVars,
         bench' \in Benchmark, FlagsOfRun',
         bench'.startup = bench.startup,
         bench'.sent_count = bench.sent_count,
         bench'.received_count = bench.received_count,
         bench.failed => bench'.failed
  PROVE  ClientInv'
<1>1. UNCHANGED <<session, strand, accepted, wire, clientRead>>
  BY DEF clientVars, vars
<1>2. Settled => Settled'
  BY DEF Settled
<1>3. IInv' /\ StartupInv'
  BY <1>1 DEF ClientInv, IInv, StartupInv
<1>4. CountersInv'
  BY <1>1 DEF ClientInv, CountersInv
<1>5. ToldInv'
  BY <1>1, <1>2 DEF ClientInv, ToldInv
<1> QED
  BY <1>1, <1>3, <1>4, <1>5 DEF ClientInv

(* run() returns when it was stopped; or when it is out of work, which a   *)
(* session that is open or has something to tell never lets it be.         *)
LEMMA MainInv ==
  ASSUME BInv, Main, UNCHANGED clientVars
  PROVE  ClientInv'
<1>1. ClientInv /\ FlagsOfRun /\ bench \in Benchmark
  BY DEF BInv, ClientInv
<1>2. CASE strand = "idle" /\ RunReturns(OutOfWork)
  <2>1. bench' = [bench EXCEPT !.main = "complete", !.stopped = TRUE]
    BY <1>2 DEF RunReturns
  <2>2. Settled
    <3>1. CASE bench.stopped
      BY <1>1, <3>1 DEF FlagsOfRun
    <3>2. CASE OutOfWork
      <4>1. session.closed
        BY <1>1, <3>2, ReadOutstanding DEF OutOfWork
      <4> QED BY <1>1, <3>2, <4>1 DEF OutOfWork, ClientInv, ToldInv
    <3> QED BY <1>2, <3>1, <3>2 DEF RunReturns
  <2>3. /\ bench' \in Benchmark /\ bench'.failed = bench.failed
        /\ bench'.startup = bench.startup /\ bench'.timer = bench.timer
        /\ bench'.close_posted = bench.close_posted
        /\ bench'.sent_count = bench.sent_count
        /\ bench'.received_count = bench.received_count
        /\ bench'.stopped /\ strand' = strand
    BY <1>1, <2>1 DEF Benchmark, clientVars, vars
  <2>4. FlagsOfRun'
    BY <1>1, <1>2, <2>2, <2>3 DEF FlagsOfRun, Settled
  <2> QED BY <1>1, <2>3, <2>4, BenchStep
<1>3. CASE MainCompletes \/ MainJoins
  <2>1. PICK next \in {"join", "exited"}, done \in BOOLEAN :
          /\ bench.main # "run"
          /\ bench' = [bench EXCEPT !.main = next, !.completed = done]
    <3>1. CASE MainCompletes
      BY <3>1 DEF MainCompletes
    <3>2. CASE MainJoins
      <4>1. bench' = [bench EXCEPT !.main = "exited",
                                   !.completed = bench.completed]
        BY <1>1, <3>2 DEF MainJoins, Benchmark
      <4> QED BY <1>1, <3>2, <4>1 DEF MainJoins, Benchmark
    <3> QED BY <1>3, <3>1, <3>2
  <2>2. /\ bench' \in Benchmark /\ bench'.failed = bench.failed
        /\ bench'.startup = bench.startup /\ bench'.timer = bench.timer
        /\ bench'.close_posted = bench.close_posted
        /\ bench'.sent_count = bench.sent_count
        /\ bench'.received_count = bench.received_count
        /\ bench'.stopped = bench.stopped /\ strand' = strand
    BY <1>1, <2>1 DEF Benchmark, clientVars, vars
  <2>3. FlagsOfRun'
    BY <1>1, <2>1, <2>2 DEF FlagsOfRun, Settled
  <2> QED BY <1>1, <2>2, <2>3, BenchStep
<1> QED BY <1>2, <1>3 DEF Main

(* The timer thread says that the run failed before it ends it. *)
LEMMA TimerInv ==
  ASSUME BInv, Timer, UNCHANGED clientVars
  PROVE  ClientInv'
<1>1. ClientInv /\ FlagsOfRun /\ bench \in Benchmark /\ strand' = strand
  BY DEF BInv, ClientInv, clientVars, vars
<1>2. /\ bench' \in Benchmark
      /\ bench'.startup = bench.startup
      /\ bench'.sent_count = bench.sent_count
      /\ bench'.received_count = bench.received_count
      /\ bench.failed => bench'.failed
      /\ bench'.main = bench.main
  BY <1>1
     DEF Timer, TimerLoads, TimerLooks, TimerGoes, TimerFails,
         TimerCompletes, TimerCloses, TimerStops, Benchmark
<1>3. /\ bench'.timer \in {"complete", "close", "stop"} => bench'.failed
      /\ bench'.close_posted => bench'.failed
      /\ bench'.stopped => bench.stopped \/ bench'.failed
      /\ bench.stopped => bench'.stopped
  <2>1. CASE TimerLoads \/ TimerLooks
    BY <1>1, <2>1
       DEF TimerLoads, TimerLooks, TimerGoes, FlagsOfRun, Benchmark
  <2>2. CASE TimerFails \/ TimerCompletes
    BY <1>1, <2>2 DEF TimerFails, TimerCompletes, FlagsOfRun, Benchmark
  <2>3. CASE TimerCloses \/ TimerStops
    BY <1>1, <2>3 DEF TimerCloses, TimerStops, FlagsOfRun, Benchmark
  <2> QED BY <2>1, <2>2, <2>3 DEF Timer
<1>4. FlagsOfRun'
  BY <1>1, <1>2, <1>3 DEF FlagsOfRun, Settled
<1> QED BY <1>1, <1>2, <1>4, BenchStep

(* Time passes. *)
LEMMA ClockInv ==
  ASSUME BInv, TimePasses, UNCHANGED clientVars
  PROVE  ClientInv'
<1>1. /\ ClientInv /\ FlagsOfRun /\ bench \in Benchmark /\ strand' = strand
      /\ bench' = [bench EXCEPT !.elapsed = TRUE]
  BY DEF BInv, ClientInv, clientVars, vars, TimePasses
<1>2. /\ bench' \in Benchmark /\ bench'.failed = bench.failed
      /\ bench'.startup = bench.startup /\ bench'.timer = bench.timer
      /\ bench'.close_posted = bench.close_posted
      /\ bench'.sent_count = bench.sent_count
      /\ bench'.received_count = bench.received_count
      /\ bench'.stopped = bench.stopped /\ bench'.main = bench.main
  BY <1>1 DEF Benchmark
<1>3. FlagsOfRun'
  BY <1>1, <1>2 DEF FlagsOfRun, Settled
<1> QED BY <1>1, <1>2, <1>3, BenchStep
-----------------------------------------------------------------------------
(* The server. *)

(* What is used of the invariant time and again. *)
LEMMA ServerParts ==
  ASSUME ServerInv
  PROVE  /\ SessionInv(server) /\ server \in Session
         /\ Sound(server, serverStrand, serverAccepted, serverWire)
         /\ serverStrand \in {"idle", "after_data", "after_error"}
         /\ serverAccepted \in Seq(Message) /\ serverWire \in Seq(Message)
         /\ Len(serverAccepted) \in Nat /\ serverRead \in Nat
BY LenProperties DEF ServerInv, Sound, SessionInv

(* The steps that do not concern the echo. *)
LEMMA ServerQuietInv ==
  ASSUME ServerInv,
         Quiet(server, serverStrand, serverWire, server', serverWire'),
         UNCHANGED <<serverStrand, serverAccepted, serverRead, attach>>
  PROVE  ServerInv'
<1>1. /\ Sound(server, serverStrand, serverAccepted, serverWire)
      /\ serverStrand # "idle" => server.reads = << >>
  BY DEF ServerInv
<1>2. /\ Sound(server', serverStrand, serverAccepted, serverWire')
      /\ Kept(server, server')
      /\ serverStrand # "idle" => server'.reads = << >>
  BY <1>1, QuietEffect
<1>3. Unhandled(server', serverStrand) = Unhandled(server, serverStrand)
  BY <1>2 DEF Unhandled, Kept
<1> QED BY <1>2, <1>3 DEF ServerInv, Kept

(* The session handler sets the read handler of the session. *)
LEMMA AttachesHandlerInv ==
  ASSUME ServerInv, AttachesHandler
  PROVE  ServerInv'
<1>1. /\ server' = set_read_handler(server, TRUE)
      /\ server' = [server EXCEPT !.read_handler = TRUE]
      /\ serverStrand = "idle"
      /\ UNCHANGED <<serverStrand, serverAccepted, serverWire, serverRead>>
      /\ attach = "set_read_handler" /\ attach' = "start_reading"
  BY DEF AttachesHandler, Attaches, ServerIdle, Server!SetReadHandler,
         Server!set_read_handler, set_read_handler
<1>2. /\ Sound(server, serverStrand, serverAccepted, serverWire)
      /\ server \in Session
  BY ServerParts
<1>3. Sound(server', serverStrand, serverAccepted, serverWire)
  BY <1>1, <1>2, CallKeeps
<1>4. /\ server'.read_handler /\ server'.reads = server.reads
      /\ server'.read_enabled = server.read_enabled
      /\ server'.closed = server.closed
  BY <1>1, <1>2 DEF Session
<1>5. Unhandled(server', serverStrand) = Unhandled(server, serverStrand)
  BY <1>4 DEF Unhandled, Arrived
<1> QED BY <1>1, <1>3, <1>4, <1>5 DEF ServerInv

(* And starts to read. *)
LEMMA AttachesReadingInv ==
  ASSUME ServerInv, AttachesReading
  PROVE  ServerInv'
<1>1. /\ server' = Core!start_reading(server)
      /\ serverStrand = "idle"
      /\ UNCHANGED <<serverStrand, serverAccepted, serverWire, serverRead>>
      /\ attach = "start_reading" /\ attach' = "done"
  BY ServerCore
     DEF AttachesReading, Attaches, ServerIdle, Server!StartReading
<1>2. /\ Sound(server, serverStrand, serverAccepted, serverWire)
      /\ SessionInv(server)
  BY ServerParts
<1>3. Sound(server', serverStrand, serverAccepted, serverWire)
  BY <1>1, <1>2, CallKeeps
<1>4. /\ server'.read_handler = server.read_handler
      /\ server'.closed = server.closed
      /\ Arrived(server') <=> Arrived(server)
  BY <1>1, <1>2, StartReadingEffect
<1>5. Unhandled(server', serverStrand) = Unhandled(server, serverStrand)
  BY <1>4 DEF Unhandled
<1> QED BY <1>1, <1>3, <1>4, <1>5 DEF ServerInv

(* stop() closes the session. *)
LEMMA ServerStopsInv ==
  ASSUME ServerInv, ServerStops
  PROVE  ServerInv'
<1>1. /\ server' = Core!close(server)
      /\ serverStrand = "idle"
      /\ UNCHANGED <<serverStrand, serverAccepted, serverWire, serverRead>>
      /\ attach' = attach
  BY ServerCore DEF ServerStops, ServerIdle, Server!Close
<1>2. /\ Sound(server, serverStrand, serverAccepted, serverWire)
      /\ SessionInv(server) /\ server \in Session
      /\ serverStrand \in {"idle", "after_data", "after_error"}
  BY ServerParts
<1>3. /\ Sound(server', serverStrand, serverAccepted, serverWire)
      /\ server'.closed
  BY <1>1, <1>2, ClosingKeeps
<1>4. Kept(server, server')
  BY <1>1, <1>2, CloseKept
<1> QED BY <1>1, <1>3, <1>4 DEF ServerInv, Kept

(* A read completes, and the echo is called. *)
LEMMA ServerOnReadInv ==
  ASSUME ServerInv, Server!OnRead, UNCHANGED <<serverRead, attach>>
  PROVE  ServerInv'
<1> DEFINE rest == IF Head(server.reads).status = "done"
                   THEN "after_data" ELSE "after_error"
           t == ReadTaken(server)
<1>1. server.reads # << >> /\ serverStrand = "idle"
  BY DEF Server!OnRead, Server!IsComplete
<1>2. server.read_handler
  BY <1>1 DEF ServerInv
<1>3. /\ Sound(server, serverStrand, serverAccepted, serverWire)
      /\ SessionInv(server)
  BY ServerParts
<1>4. /\ t.read_handler = server.read_handler /\ t.reads = << >>
      /\ t.closed = server.closed /\ t.read_enabled = server.read_enabled
  BY <1>1, <1>3, ReadTakenEffect
<1>5. /\ SessionInv(t) /\ SameMessages(server, t)
      /\ t.write_in_progress = server.write_in_progress
  BY <1>1, <1>3, ReadTakenKeeps
<1>6. /\ server' = t /\ serverStrand' = rest
      /\ UNCHANGED <<serverAccepted, serverWire>>
  BY <1>2, <1>4, ServerStream DEF Server!OnRead, ReadTaken
<1> HIDE DEF t
<1>7. rest \in {"after_data", "after_error"} /\ rest # "idle"
  OBVIOUS
<1>8. Unhandled(server', rest) = Unhandled(server, serverStrand)
  BY <1>1, <1>4, <1>6 DEF Unhandled, Arrived
<1> HIDE DEF rest
<1>9. Sound(server', serverStrand', serverAccepted, serverWire)
  BY <1>3, <1>5, <1>6, <1>7, QuietKeeps
<1> QED BY <1>1, <1>4, <1>6, <1>7, <1>8, <1>9 DEF ServerInv

(* The echo finds an error, and closes the session. *)
LEMMA EchoesErrorInv ==
  ASSUME ServerInv, EchoesError
  PROVE  ServerInv'
<1> DEFINE c == Core!close(server)
<1>1. /\ serverStrand = "after_error" /\ serverStrand' = "idle"
      /\ server' = AfterRead(c, serverStrand)
      /\ UNCHANGED <<serverAccepted, serverWire, serverRead, attach>>
  BY DEF EchoesError, ServerReturns
<1>2. /\ Sound(server, serverStrand, serverAccepted, serverWire)
      /\ SessionInv(server) /\ server \in Session
  BY ServerParts
<1>3. Sound(c, "idle", serverAccepted, serverWire) /\ c.closed
  BY <1>2, ClosingKeeps
<1>4. Kept(server, c)
  BY <1>2, CloseKept
<1> HIDE DEF c
<1>5. server' = c
  BY <1>1, <1>3, ClosedRests
<1> QED BY <1>1, <1>3, <1>4, <1>5 DEF ServerInv, Kept

(* The echo sends back what it was called with: the next message of those  *)
(* that came.                                                              *)
LEMMA EchoesMessageInv ==
  ASSUME ServerInv, EchoesMessage,
         wire \in Seq(Message), serverRead <= Len(wire),
         Begins(serverAccepted, wire)
  PROVE  ServerInv' /\ Begins(serverAccepted', wire)
<1> DEFINE m == wire[serverRead]
           e == Core!enqueue_write(server, m)
<1>1. /\ serverStrand = "after_data" /\ serverStrand' = "idle"
      /\ server' = AfterRead(e, serverStrand)
      /\ serverAccepted' = IF server.closed THEN serverAccepted
                           ELSE Append(serverAccepted, m)
      /\ UNCHANGED <<serverWire, serverRead, attach>>
  BY DEF EchoesMessage, ServerReturns
<1>2. /\ Sound(server, serverStrand, serverAccepted, serverWire)
      /\ SessionInv(server) /\ server \in Session
      /\ serverAccepted \in Seq(Message)
      /\ Len(serverAccepted) \in Nat /\ serverRead \in Nat
  BY ServerParts
<1>3. server.reads = << >> /\ attach = "done"
  BY <1>1 DEF ServerInv
<1>4. CASE server.closed
  <2>1. server' = server /\ serverAccepted' = serverAccepted
    BY <1>1, <1>4, ClosedRests
  <2>2. Core!close(server) = server
    BY <1>4, ClosedRests
  <2>3. Sound(server, "idle", serverAccepted, serverWire)
    BY <1>2, <2>2, ClosingKeeps
  <2> QED BY <1>1, <1>3, <1>4, <2>1, <2>3 DEF ServerInv
<1>5. CASE ~server.closed
  <2>1. /\ Unhandled(server, serverStrand) = 1
        /\ Len(serverAccepted) + 1 = serverRead
    BY <1>1, <1>5 DEF ServerInv, Unhandled
  <2>2. m \in Message
    <3>1. Len(wire) \in Nat
      BY LenProperties
    <3>2. serverRead \in 1 .. Len(wire)
      BY <1>2, <2>1, <3>1
    <3> QED BY <3>2
  <2>3. serverAccepted' = Append(serverAccepted, m)
    BY <1>1, <1>5
  <2> HIDE DEF m
  <2>4. /\ Sound(e, serverStrand, serverAccepted', serverWire)
        /\ e.closed = server.closed
    BY <1>2, <1>5, <2>2, <2>3, SendKeeps
  <2>5. Kept(server, e)
    BY <1>2, <2>2, EnqueueKept
  <2> HIDE DEF e
  <2>6. SessionInv(e) /\ SameMessages(e, e)
    BY <2>4 DEF Sound, SameMessages
  <2>7. Sound(server', "idle", serverAccepted', serverWire)
    BY <1>1, <2>4, <2>6, AfterReadKeeps
  <2>8. Kept(e, server') /\ server'.closed = e.closed
    BY <1>1, <2>6, AfterReadKept
  <2>9. Kept(server, server')
    BY <2>4, <2>5, <2>8, KeptTwice
  <2>10. /\ Len(serverAccepted') = Len(serverAccepted) + 1
         /\ serverAccepted'[Len(serverAccepted) + 1] = m
         /\ \A i \in 1 .. Len(serverAccepted) :
              serverAccepted'[i] = serverAccepted[i]
    BY <1>2, <2>2, <2>3, AppendProperties
  <2>11. Unhandled(server', "idle") = 0
    BY <1>3, <2>9 DEF Kept, Unhandled, Arrived
  <2>12. Begins(serverAccepted', wire)
    BY <1>2, <2>1, <2>10 DEF Begins, m
  <2> QED
    BY <1>1, <1>2, <1>3, <1>5, <2>1, <2>7, <2>9, <2>10, <2>11, <2>12
       DEF ServerInv, Kept
<1> QED BY <1>4, <1>5

(* The server's stream has read a message. *)
LEMMA ServerReadsInv ==
  ASSUME ServerInv, ServerReads, wire \in Seq(Message)
  PROVE  ServerInv' /\ serverRead' <= Len(wire)
<1>1. /\ IsPending(server.reads)
      /\ server' = [server EXCEPT !.reads = << [status |-> "done"] >>]
      /\ UNCHANGED <<serverStrand, serverAccepted, serverWire, attach>>
      /\ serverRead' = serverRead + 1 /\ serverRead < Len(wire)
  BY ServerStream DEF ServerReads, Server!StreamReads
<1>2. /\ Sound(server, serverStrand, serverAccepted, serverWire)
      /\ SessionInv(server) /\ server \in Session
      /\ Len(serverAccepted) \in Nat /\ serverRead \in Nat
  BY ServerParts
<1>3. Sound(server', serverStrand, serverAccepted, serverWire)
  BY <1>1, <1>2, StreamReadKeeps
<1>4. /\ server'.read_handler = server.read_handler
      /\ server'.closed = server.closed
      /\ server'.read_enabled = server.read_enabled
      /\ ~Arrived(server) /\ Arrived(server')
      /\ server.reads # << >>
  BY <1>1, <1>2, ReadDoneEffect
<1>5. serverStrand = "idle" /\ attach = "done"
  BY <1>4 DEF ServerInv
<1>6. /\ Unhandled(server', serverStrand) = 1
      /\ Unhandled(server, serverStrand) = 0
  BY <1>4, <1>5 DEF Unhandled
<1>7. serverRead' <= Len(wire)
  <2>1. Len(wire) \in Nat
    BY LenProperties
  <2> QED BY <1>1, <1>2, <2>1
<1>8. /\ serverRead' \in Nat /\ Len(serverAccepted) <= serverRead'
      /\ ~server'.closed =>
           Len(serverAccepted) + Unhandled(server', serverStrand)
             = serverRead'
  BY <1>1, <1>2, <1>4, <1>6 DEF ServerInv
<1> QED BY <1>1, <1>3, <1>4, <1>5, <1>7, <1>8 DEF ServerInv
-----------------------------------------------------------------------------
(* The two together. *)

(* b is a, or a and one element more. *)
Grows(a, b) == b = a \/ \E m \in Message : b = Append(a, m)

(* What has grown was there before. *)
LEMMA GrowsKeeps ==
  ASSUME NEW a \in Seq(Message), NEW b, Grows(a, b)
  PROVE  /\ b \in Seq(Message) /\ Len(a) <= Len(b)
         /\ \A c \in Seq(Message) : Begins(c, a) => Begins(c, b)
<1>1. Len(a) \in Nat
  BY LenProperties
<1>2. CASE b = a
  BY <1>1, <1>2
<1>3. ASSUME NEW m \in Message, b = Append(a, m)
      PROVE  /\ b \in Seq(Message) /\ Len(a) <= Len(b)
             /\ \A c \in Seq(Message) : Begins(c, a) => Begins(c, b)
  BY <1>1, <1>3, AppendProperties, BeginsAppend
<1> QED BY <1>2, <1>3 DEF Grows

(* As long as the two sides only send, they are not ahead of each other.   *)
LEMMA LinkGrows ==
  ASSUME BInv, Grows(wire, wire'), Grows(serverWire, serverWire'),
         UNCHANGED <<clientRead, serverRead, serverAccepted>>
  PROVE  LinkInv'
<1>1. /\ wire \in Seq(Message) /\ serverWire \in Seq(Message)
      /\ serverAccepted \in Seq(Message)
      /\ clientRead \in Nat /\ serverRead \in Nat
  BY ClientParts, ServerParts DEF BInv
<1>2. /\ Len(wire) <= Len(wire') /\ wire' \in Seq(Message)
      /\ Begins(serverAccepted, wire')
  BY <1>1, GrowsKeeps DEF BInv, LinkInv
<1>3. Len(serverWire) <= Len(serverWire') /\ serverWire' \in Seq(Message)
  BY <1>1, GrowsKeeps
<1>4. /\ Len(wire) \in Nat /\ Len(wire') \in Nat
      /\ Len(serverWire) \in Nat /\ Len(serverWire') \in Nat
  BY <1>1, <1>2, <1>3, LenProperties
<1> QED BY <1>1, <1>2, <1>3, <1>4 DEF BInv, LinkInv

(* The client's and the server's part of the invariant are about variables *)
(* of their own.                                                           *)
LEMMA OthersStep ==
  ASSUME BInv
  PROVE  /\ UNCHANGED <<bench, clientVars>> => ClientInv'
         /\ UNCHANGED serverVars => ServerInv'
<1>1. ASSUME UNCHANGED <<bench, clientVars>> PROVE ClientInv'
  BY <1>1
     DEF clientVars, vars, BInv, ClientInv, IInv, StartupInv, FlagsOfRun,
         CountersInv, ToldInv, Settled
<1>2. ASSUME UNCHANGED serverVars PROVE ServerInv'
  BY <1>2 DEF serverVars, BInv, ServerInv
<1> QED BY <1>1, <1>2

(* A handler of the client. *)
LEMMA ClientStepInv ==
  ASSUME BInv, OverInv, ClientStep
  PROVE  /\ BInv' /\ serverWire' = serverWire
         /\ accepted' = accepted \/ \E m : accepted' = Append(accepted, m)
<1>1. UNCHANGED <<server, serverStrand, serverAccepted, serverWire,
                  serverRead, attach>>
  BY DEF ClientStep, serverVars
<1>2. ServerInv'
  BY OthersStep DEF ClientStep
<1>3. /\ ClientInv'
      /\ UNCHANGED <<wire, clientRead>>
      /\ accepted' = accepted \/ \E m : accepted' = Append(accepted, m)
  <2>1. CASE SetsReadHandler
    BY <2>1, SetsReadHandlerInv
       DEF SetsReadHandler, ClientIdle, SetReadHandler
  <2>2. CASE StartsReading
    BY <2>2, StartsReadingInv DEF StartsReading, ClientIdle, StartReading
  <2>3. CASE SendsFirst
    BY <2>3, SendsFirstInv DEF SendsFirst, ClientIdle, Send
  <2>4. CASE Closes
    BY <2>4, ClosesInv DEF Closes, ClientIdle, Close
  <2>5. CASE ClientCompletes
    <3>1. UNCHANGED <<bench, clientRead>>
      BY <2>5 DEF ClientCompletes, ClientIdle
    <3>2. CASE OnRead
      BY <3>1, <3>2, OnReadInv DEF OnRead
    <3>3. CASE OnPiece \/ OnWrite
      <4>1. wire' = wire
        BY <3>3 DEF OnPiece, OnWrite
      <4> QED BY <3>1, <3>3, <4>1, ClientQuietForm, ClientQuietInv
    <3> QED BY <2>5, <3>2, <3>3 DEF ClientCompletes
  <2>6. CASE HandlesError
    BY <2>6, ClientGivesUpInv DEF HandlesError, ClientGivesUp, ClientReturns
  <2>7. CASE HandlesMessage
    <3>1. ClientInv'
      BY <2>7, HandlesMessageInv
    <3>2. UNCHANGED <<wire, clientRead>>
      BY <2>7 DEF HandlesMessage, ClientGivesUp, ClientReturns
    <3>3. accepted' = accepted \/ \E m : accepted' = Append(accepted, m)
      BY <2>7 DEF HandlesMessage, ClientGivesUp, ClientReturns
    <3> QED BY <3>1, <3>2, <3>3
  <2> QED
    BY <2>1, <2>2, <2>3, <2>4, <2>5, <2>6, <2>7
       DEF ClientStep, ClientHandlers
<1>4. LinkInv'
  BY <1>1, <1>3 DEF BInv, LinkInv
<1> QED BY <1>1, <1>2, <1>3, <1>4 DEF BInv

(* A handler of the server. *)
LEMMA ServerStepInv ==
  ASSUME BInv, ServerStep
  PROVE  BInv' /\ UNCHANGED <<accepted, serverWire>>
<1>1. UNCHANGED <<wire, accepted, clientRead>>
  BY DEF ServerStep, clientVars, vars
<1>2. ClientInv'
  BY OthersStep DEF ServerStep
<1>3. /\ ServerInv /\ wire \in Seq(Message)
      /\ Begins(serverAccepted, wire) /\ serverRead <= Len(wire)
  BY ClientParts DEF BInv, LinkInv
<1>4. /\ ServerInv' /\ UNCHANGED <<serverWire, serverRead>>
      /\ Begins(serverAccepted', wire)
  <2>1. CASE AttachesHandler
    BY <1>3, <2>1, AttachesHandlerInv
       DEF AttachesHandler, Attaches, ServerIdle, Server!SetReadHandler
  <2>2. CASE AttachesReading
    BY <1>3, <2>2, AttachesReadingInv
       DEF AttachesReading, Attaches, ServerIdle, Server!StartReading
  <2>3. CASE ServerStops
    BY <1>3, <2>3, ServerStopsInv DEF ServerStops, ServerIdle, Server!Close
  <2>4. CASE ServerCompletes
    <3>1. UNCHANGED <<serverRead, attach>>
      BY <2>4 DEF ServerCompletes, ServerIdle
    <3>2. CASE Server!OnRead
      BY <1>3, <3>1, <3>2, ServerOnReadInv DEF Server!OnRead
    <3>3. CASE Server!OnPiece \/ Server!OnWrite
      <4>1. serverWire' = serverWire
        BY <3>3 DEF Server!OnPiece, Server!OnWrite
      <4> QED BY <1>3, <3>1, <3>3, <4>1, ServerQuietForm, ServerQuietInv
    <3> QED BY <2>4, <3>2, <3>3 DEF ServerCompletes
  <2>5. CASE EchoesError
    BY <1>3, <2>5, EchoesErrorInv DEF EchoesError, ServerReturns
  <2>6. CASE EchoesMessage
    BY <1>3, <2>6, EchoesMessageInv DEF EchoesMessage, ServerReturns
  <2> QED
    BY <2>1, <2>2, <2>3, <2>4, <2>5, <2>6 DEF ServerStep, ServerHandlers
<1>5. LinkInv'
  BY <1>1, <1>4 DEF BInv, LinkInv
<1> QED BY <1>1, <1>2, <1>4, <1>5 DEF BInv

(* Something happens to a connection. *)
LEMMA ConnectionStepInv ==
  ASSUME BInv, ConnectionStep
  PROVE  BInv' /\ accepted' = accepted /\ Grows(serverWire, serverWire')
<1>1. CASE ClientReads /\ UNCHANGED <<bench, serverVars, shutdown>>
  <2>1. ClientInv' /\ clientRead' <= Len(serverWire)
    BY <1>1, ClientReadsInv
  <2>2. ServerInv' /\ UNCHANGED <<serverAccepted, serverWire, serverRead>>
    BY <1>1, OthersStep DEF serverVars
  <2>3. UNCHANGED <<accepted, wire>>
    BY <1>1 DEF ClientReads, StreamReads
  <2> QED BY <2>1, <2>2, <2>3 DEF BInv, LinkInv, Grows
<1>2. CASE ClientConnection /\ UNCHANGED <<bench, serverVars, shutdown>>
  <2>1. /\ \/ StreamWrites \/ StreamWriteFails
           \/ StreamReadFails \/ ConnectionLost
        /\ UNCHANGED <<bench, clientRead>>
    BY <1>2 DEF ClientConnection
  <2>2. /\ Quiet(session, strand, wire, session', wire')
        /\ UNCHANGED <<strand, accepted>>
    BY <2>1, ClientQuietForm
  <2>3. ClientInv'
    BY <2>1, <2>2, ClientQuietInv
  <2>4. Grows(wire, wire')
    BY <2>2, QuietEffect DEF BInv, ClientInv, IInv, Grows
  <2>5. ServerInv' /\ UNCHANGED <<serverAccepted, serverWire, serverRead>>
    BY <1>2, OthersStep DEF serverVars
  <2>6. Grows(serverWire, serverWire')
    BY <2>5 DEF Grows
  <2>7. LinkInv'
    BY <2>1, <2>4, <2>5, <2>6, LinkGrows
  <2> QED BY <2>2, <2>3, <2>5, <2>6, <2>7 DEF BInv
<1>3. CASE ServerReads /\ UNCHANGED <<bench, clientVars, shutdown>>
  <2>1. wire \in Seq(Message) /\ ServerInv
    BY ClientParts DEF BInv
  <2>2. ServerInv' /\ serverRead' <= Len(wire)
    BY <1>3, <2>1, ServerReadsInv
  <2>3. ClientInv' /\ UNCHANGED <<accepted, wire, clientRead>>
    BY <1>3, OthersStep DEF clientVars, vars
  <2>4. UNCHANGED <<serverAccepted, serverWire>>
    BY <1>3 DEF ServerReads, Server!StreamReads
  <2> QED BY <2>2, <2>3, <2>4 DEF BInv, LinkInv, Grows
<1>4. CASE ServerConnection /\ UNCHANGED <<bench, clientVars, shutdown>>
  <2>1. /\ \/ Server!StreamWrites \/ Server!StreamWriteFails
           \/ Server!StreamReadFails \/ Server!ConnectionLost
        /\ UNCHANGED <<serverRead, attach>>
    BY <1>4 DEF ServerConnection
  <2>2. /\ Quiet(server, serverStrand, serverWire, server', serverWire')
        /\ UNCHANGED <<serverStrand, serverAccepted>>
    BY <2>1, ServerQuietForm
  <2>3. ServerInv'
    BY <2>1, <2>2, ServerQuietInv DEF BInv
  <2>4. Grows(serverWire, serverWire')
    BY <2>2, QuietEffect DEF BInv, ServerInv, Grows
  <2>5. ClientInv' /\ UNCHANGED <<accepted, wire, clientRead>>
    BY <1>4, OthersStep DEF clientVars, vars
  <2>6. Grows(wire, wire')
    BY <2>5 DEF Grows
  <2>7. LinkInv'
    BY <2>1, <2>2, <2>4, <2>5, <2>6, LinkGrows
  <2> QED BY <2>3, <2>4, <2>5, <2>7 DEF BInv
<1> QED BY <1>1, <1>2, <1>3, <1>4 DEF ConnectionStep

(* The threads besides the handlers. *)
LEMMA ThreadStepInv ==
  ASSUME BInv, MainStep \/ TimerStep \/ ClockStep \/ ShutdownStep
  PROVE  BInv' /\ UNCHANGED <<accepted, serverWire>>
<1>1. UNCHANGED clientVars /\ UNCHANGED serverVars
  BY DEF MainStep, TimerStep, ClockStep, ShutdownStep
<1>2. /\ UNCHANGED <<accepted, wire, clientRead>>
      /\ UNCHANGED <<serverAccepted, serverWire, serverRead>>
  BY <1>1 DEF clientVars, vars, serverVars
<1>3. ServerInv'
  BY <1>1, OthersStep
<1>4. ClientInv'
  <2>1. CASE MainStep
    BY <1>1, <2>1, MainInv DEF MainStep
  <2>2. CASE TimerStep
    BY <1>1, <2>2, TimerInv DEF TimerStep
  <2>3. CASE ClockStep
    BY <1>1, <2>3, ClockInv DEF ClockStep
  <2>4. CASE ShutdownStep
    BY <1>1, <2>4, OthersStep DEF ShutdownStep
  <2> QED BY <2>1, <2>2, <2>3, <2>4
<1>5. LinkInv'
  BY <1>2 DEF BInv, LinkInv
<1> QED BY <1>2, <1>3, <1>4, <1>5 DEF BInv

(* Every step keeps the invariant, and is the acceptance of one request by *)
(* the client's session, or the arrival at the client of one message that  *)
(* the server has sent back, or neither.                                   *)
LEMMA BenchmarkStep ==
  ASSUME BInv, OverInv, [BenchmarkNext]_allVars
  PROVE  /\ BInv'
         /\ \/ UNCHANGED <<accepted, serverWire>>
            \/ /\ \E m : accepted' = Append(accepted, m)
               /\ serverWire' = serverWire
            \/ /\ accepted' = accepted
               /\ \E m : serverWire' = Append(serverWire, m)
<1>1. CASE UNCHANGED allVars
  <2>1. /\ UNCHANGED <<bench, clientVars>> /\ UNCHANGED serverVars
        /\ UNCHANGED <<accepted, wire, clientRead>>
        /\ UNCHANGED <<serverAccepted, serverWire, serverRead>>
    BY <1>1 DEF allVars, clientVars, vars, serverVars
  <2>2. ClientInv' /\ ServerInv'
    BY <2>1, OthersStep
  <2>3. LinkInv'
    BY <2>1 DEF BInv, LinkInv
  <2> QED BY <2>1, <2>2, <2>3 DEF BInv
<1>2. CASE ClientStep
  BY <1>2, ClientStepInv
<1>3. CASE ServerStep
  BY <1>3, ServerStepInv
<1>4. CASE ConnectionStep
  BY <1>4, ConnectionStepInv DEF Grows
<1>5. CASE MainStep \/ TimerStep \/ ClockStep \/ ShutdownStep
  BY <1>5, ThreadStepInv
<1> QED BY <1>1, <1>2, <1>3, <1>4, <1>5 DEF BenchmarkNext

(* Closing does not start a read. *)
LEMMA ClosingReads ==
  ASSUME NEW s \in Session
  PROVE  Core!close(s).read_in_progress = s.read_in_progress
<1> DEFINE r == Aborted(s.reads)
           w == Aborted(s.writes)
           t == [s EXCEPT !.read_enabled = FALSE, !.write_queue = << >>,
                          !.closed = TRUE, !.is_open = FALSE,
                          !.connected = FALSE, !.reads = r, !.writes = w]
<1>1. CASE s.closed
  BY <1>1 DEF Core!close
<1>2. CASE ~s.closed
  <2>1. Core!close(s) = t
    BY <1>2 DEF Core!close, close_transport, Session
  <2> HIDE DEF r, w
  <2> QED BY <2>1 DEF Session
<1> QED BY <1>1, <1>2

(* The last sample closes the session, in a handler, when no read is in    *)
(* progress.                                                               *)
LEMMA LastSampleCloses ==
  ASSUME BInv, HandlesMessage
  PROVE  OverInv'
<1> DEFINE c == count_sample(bench)
           n == send_next(c)
<1>1. strand = "after_data" /\ ClientInv
  BY DEF HandlesMessage, BInv
<1>2. /\ SessionInv(session) /\ session \in Session /\ session.reads = << >>
      /\ Sound(session, strand, accepted, wire)
      /\ bench \in Benchmark /\ Samples \in Nat \ {0}
      /\ bench.received_count \in 0 .. Samples
      /\ bench.received_count + 1 <= Samples
      /\ bench.sent_count = bench.received_count + 1
  BY <1>1, ClientParts, AnswerCounts DEF ClientInv
<1>3. /\ c \in Benchmark /\ c.received_count = bench.received_count + 1
      /\ c.sent_count = bench.sent_count /\ c.startup = bench.startup
  BY <1>2, CountedEffect
<1>4. \/ ClientGivesUp
      \/ /\ c.received_count >= Samples
         /\ ClientReturns(Core!close(session), finish(c))
      \/ ~(c.received_count >= Samples) /\ bench' = n
  BY DEF HandlesMessage, ClientReturns
<1>5. CASE ClientGivesUp
  <2>1. bench'.received_count = bench.received_count
    BY <1>2, <1>5 DEF ClientGivesUp, ClientReturns, give_up, Benchmark
  <2> QED BY <1>2, <2>1 DEF OverInv
<1>6. CASE ClientReturns(Core!close(session), finish(c))
  <2> DEFINE t == Core!close(session)
  <2>1. t.closed /\ t.read_in_progress = session.read_in_progress
    BY <1>2, CloseKeeps, ClosingReads
  <2>2. session' = AfterRead(t, strand) /\ bench' = finish(c)
    BY <1>6 DEF ClientReturns
  <2>3. bench'.startup = "done"
    <3>1. bench.startup = "done"
      BY <1>1, AnswersStarted
    <3> HIDE DEF c
    <3> QED BY <1>3, <2>2, <3>1 DEF finish, Benchmark
  <2>4. ~session.read_in_progress
    BY <1>2 DEF SessionInv
  <2> HIDE DEF t
  <2>5. session' = t
    BY <2>1, <2>2, ClosedRests
  <2> QED BY <2>1, <2>3, <2>4, <2>5 DEF OverInv
<1>7. CASE ~(c.received_count >= Samples) /\ bench' = n
  <2>1. c.sent_count + 1 <= Samples
    BY <1>2, <1>3, <1>7
  <2>2. n.received_count = c.received_count
    BY <1>3, <2>1, NextEffect
  <2> HIDE DEF c, n
  <2> QED BY <1>2, <1>3, <1>7, <2>2 DEF OverInv
<1> QED BY <1>4, <1>5, <1>6, <1>7

(* The client session's steps are those of its specification, and a closed *)
(* session starts nothing.                                                 *)
LEMMA OverStays ==
  ASSUME BInv, OverInv, [Next]_vars,
         bench'.received_count = bench.received_count,
         bench.startup = "done" => bench'.startup = "done"
  PROVE  OverInv'
<1>1. CASE session.closed
  <2>1. Fewer(session, session')
    BY <1>1, ClosedStep DEF BInv, ClientInv
  <2> QED BY <1>1, <2>1 DEF OverInv, Fewer
<1>2. CASE ~session.closed
  BY <1>2 DEF OverInv
<1> QED BY <1>1, <1>2

(* Nothing follows the last sample. *)
LEMMA OverNext == BInv /\ OverInv /\ [BenchmarkNext]_allVars => OverInv'
<1> SUFFICES ASSUME BInv, OverInv, [BenchmarkNext]_allVars PROVE OverInv'
  OBVIOUS
<1>1. bench \in Benchmark /\ 0 \in Message
  BY ClientParts DEF BInv
<1>2. CASE ClientHandlers
  <2>1. CASE HandlesMessage
    BY <2>1, LastSampleCloses
  <2>2. CASE HandlesError
    <3>1. bench'.received_count = bench.received_count
      BY <1>1, <2>2
         DEF HandlesError, ClientGivesUp, ClientReturns, give_up, Benchmark
    <3>2. bench.received_count # Samples
      BY <2>2 DEF HandlesError, BInv, ClientInv, FlagsOfRun
    <3> QED BY <3>1, <3>2 DEF OverInv
  <2>3. CASE SetsReadHandler \/ StartsReading \/ SendsFirst \/ Closes
    <3>1. SetReadHandler(TRUE) \/ StartReading \/ Send(0) \/ Close
      BY <2>3 DEF SetsReadHandler, StartsReading, SendsFirst, Closes
    <3>2. Next
      BY <1>1, <3>1, Zenon DEF Next, User
    <3>3. /\ bench'.received_count = bench.received_count
          /\ bench.startup = "done" => bench'.startup = "done"
      BY <1>1, <2>3
         DEF SetsReadHandler, StartsReading, SendsFirst, Closes, Startup,
             PostedClose, Benchmark
    <3> QED BY <3>2, <3>3, OverStays
  <2>4. CASE ClientCompletes
    <3>1. Next /\ bench' = bench
      BY <2>4 DEF ClientCompletes, Next, Completion
    <3> QED BY <3>1, OverStays
  <2> QED BY <1>2, <2>1, <2>2, <2>3, <2>4 DEF ClientHandlers
<1>3. CASE ServerStep \/ ConnectionStep \/ ShutdownStep
  <2>1. [Next]_vars /\ bench' = bench
    BY <1>3
       DEF ServerStep, ConnectionStep, ShutdownStep, ClientReads,
           ClientConnection, clientVars, Next, Connection
  <2> QED BY <2>1, OverStays
<1>4. CASE MainStep \/ TimerStep \/ ClockStep \/ UNCHANGED allVars
  <2>1. UNCHANGED vars
    BY <1>4 DEF MainStep, TimerStep, ClockStep, allVars, clientVars
  <2>2. /\ bench'.received_count = bench.received_count
        /\ bench'.startup = bench.startup
    BY <1>1, <1>4
       DEF MainStep, TimerStep, ClockStep, allVars, Main, RunReturns,
           MainCompletes, MainJoins, Timer, TimerLoads, TimerLooks, TimerGoes,
           TimerFails, TimerCompletes, TimerCloses, TimerStops, TimePasses,
           Benchmark
  <2> QED BY <2>1, <2>2, OverStays
<1> QED BY <1>2, <1>3, <1>4 DEF BenchmarkNext, ClientStep

(* The program starts with the first request counted and nothing sent. *)
LEMMA BenchmarkInitInv == BenchmarkInit => BInv /\ OverInv
<1> SUFFICES ASSUME BenchmarkInit PROVE BInv /\ OverInv
  OBVIOUS
<1> DEFINE b ==
      [failed |-> FALSE, completed |-> FALSE, sent_count |-> 0,
       received_count |-> 0, expected_sequence |-> 0,
       startup |-> "set_read_handler", close_posted |-> FALSE,
       stopped |-> FALSE, main |-> "run", timer |-> "load",
       elapsed |-> FALSE]
<1>1. /\ bench = send_next(b) /\ Init /\ clientRead = 0 /\ serverRead = 0
      /\ attach = "set_read_handler"
  BY DEF BenchmarkInit, Started
<1>2. /\ b \in Benchmark /\ b.sent_count + 1 <= Samples
      /\ b.startup = "set_read_handler" /\ b.timer = "load"
      /\ b.received_count = 0 /\ b.sent_count = 0 /\ b.main = "run"
      /\ ~b.failed /\ ~b.stopped /\ ~b.close_posted
  BY SamplesAssumption DEF Benchmark
<1> HIDE DEF b
<1>3. /\ bench \in Benchmark
      /\ bench.startup = "set_read_handler" /\ bench.timer = "load"
      /\ bench.received_count = 0 /\ bench.sent_count = 1
      /\ bench.main = "run"
      /\ ~bench.failed /\ ~bench.stopped /\ ~bench.close_posted
  BY <1>1, <1>2, NextEffect
<1>4. /\ IInv /\ session.reads = << >> /\ ~session.closed
      /\ ~session.read_enabled
      /\ strand = "idle" /\ accepted = << >> /\ wire = << >>
  <2>1. PICK role \in Role :
          session = [NewSession(role)
                       EXCEPT !.is_open = TRUE, !.connected = TRUE]
    BY <1>1 DEF Init
  <2>2. role \in {"client", "server"}
    BY WebSocketSessionAssumption
  <2> QED BY <1>1, <2>1, <2>2, NewSound, InitInv DEF Init
<1>5. /\ Sound(server, "idle", << >>, << >>)
      /\ server.reads = << >> /\ ~server.closed /\ ~server.read_enabled
      /\ serverStrand = "idle"
      /\ serverAccepted = << >> /\ serverWire = << >>
  <2>1. /\ server = [NewSession("server")
                       EXCEPT !.is_open = TRUE, !.connected = TRUE]
        /\ serverStrand = "idle"
        /\ serverAccepted = << >> /\ serverWire = << >>
    BY DEF BenchmarkInit, Server!Init, Server!NewSession, NewSession
  <2> QED BY <2>1, NewSound
<1>6. Len(<< >>) = 0
  OBVIOUS
<1>7. ~Arrived(session) /\ ~Arrived(server)
  BY <1>4, <1>5 DEF Arrived
<1>8. /\ Unhandled(session, strand) = 0
      /\ Unhandled(server, serverStrand) = 0
  BY <1>4, <1>5, <1>7 DEF Unhandled
<1>9. Samples \in Nat \ {0}
  BY SamplesAssumption
<1>10. StartupInv /\ FlagsOfRun /\ ToldInv
  BY <1>3, <1>4, <1>9 DEF StartupInv, FlagsOfRun, ToldInv
<1>11. CountersInv
  BY <1>1, <1>3, <1>4, <1>6, <1>8 DEF CountersInv
<1>12. ClientInv
  BY <1>1, <1>3, <1>4, <1>10, <1>11 DEF ClientInv
<1>13. ServerInv
  BY <1>1, <1>5, <1>6, <1>8 DEF ServerInv
<1>14. LinkInv
  BY <1>1, <1>4, <1>5, <1>6 DEF LinkInv, Begins
<1>15. OverInv
  BY <1>3, <1>9 DEF OverInv
<1> QED BY <1>12, <1>13, <1>14, <1>15 DEF BInv

(* The invariant holds throughout. *)
LEMMA BenchmarkSpecInv == BenchmarkSpec => [](BInv /\ OverInv)
<1>1. BInv /\ OverInv /\ [BenchmarkNext]_allVars => BInv'
  BY BenchmarkStep
<1> QED BY <1>1, OverNext, BenchmarkInitInv, PTL DEF BenchmarkSpec

(* The exit code of the benchmark can be trusted: a run that exits with 0  *)
(* has measured every sample, however many there are and whatever becomes  *)
(* of the connection; a session that closes is never closed in silence.    *)
THEOREM SuccessComplete == BenchmarkSpec => []SuccessIsComplete
<1>1. BInv => SuccessIsComplete
  BY DEF BInv, ClientInv, FlagsOfRun, Settled, SuccessIsComplete, Succeeded,
         Exited
<1> QED BY <1>1, BenchmarkSpecInv, PTL

(* What begins a beginning of c begins c. *)
LEMMA BeginsTwice ==
  ASSUME NEW a \in Seq(Message), NEW b \in Seq(Message),
         NEW c \in Seq(Message), Begins(a, b), Begins(b, c)
  PROVE  Begins(a, c)
<1>1. Len(a) \in Nat /\ Len(b) \in Nat /\ Len(c) \in Nat
  BY LenProperties
<1> QED BY <1>1 DEF Begins

(* The server has sent back the beginning of what it has taken from the    *)
(* handler, that is the beginning of what the client has sent, and that of *)
(* what the client's session has accepted.                                 *)
RoundTripOrder ==
  /\ accepted \in Seq(Message) /\ serverWire \in Seq(Message)
  /\ Begins(serverWire, accepted)

(* The order follows from the invariant, before a step and after it. *)
LEMMA OrderHolds == BInv => RoundTripOrder
<1> SUFFICES ASSUME BInv PROVE RoundTripOrder
  OBVIOUS
<1>1. /\ accepted \in Seq(Message) /\ serverWire \in Seq(Message)
      /\ serverAccepted \in Seq(Message) /\ wire \in Seq(Message)
      /\ Begins(serverWire, serverAccepted)
      /\ Begins(serverAccepted, wire) /\ Begins(wire, accepted)
  BY ClientParts, ServerParts DEF BInv, Sound, LinkInv
<1>2. Begins(serverWire, wire)
  BY <1>1, BeginsTwice
<1>3. Begins(serverWire, accepted)
  BY <1>1, <1>2, BeginsTwice
<1> QED BY <1>1, <1>3 DEF RoundTripOrder

(* Every step of the program is a step of the link or a stutter. *)
LEMMA RoundTripStep ==
  ASSUME BInv, OverInv, [BenchmarkNext]_allVars
  PROVE  [RoundTrip!Next]_(RoundTrip!vars)
<1>1. /\ accepted \in Seq(Message) /\ serverWire \in Seq(Message)
      /\ Len(accepted) \in Nat /\ Len(serverWire) \in Nat
  BY OrderHolds, LenProperties DEF RoundTripOrder
<1>2. /\ accepted' \in Seq(Message) /\ serverWire' \in Seq(Message)
      /\ Begins(serverWire', accepted')
  <2>1. BInv'
    BY BenchmarkStep
  <2>2. BInv' => RoundTripOrder'
    BY OrderHolds, PTL
  <2> QED BY <2>1, <2>2 DEF RoundTripOrder
<1>3. CASE UNCHANGED <<accepted, serverWire>>
  BY <1>3 DEF RoundTrip!vars
<1>4. ASSUME NEW m, accepted' = Append(accepted, m), serverWire' = serverWire
      PROVE  RoundTrip!Next
  <2>1. m \in Message
    <3>1. /\ Len(accepted') = Len(accepted) + 1
          /\ accepted'[Len(accepted) + 1] = m
      BY <1>1, <1>4
    <3> QED BY <1>1, <1>2, <3>1
  <2> QED BY <1>4, <2>1 DEF RoundTrip!Next, RoundTrip!Accept
<1>5. ASSUME NEW m, accepted' = accepted, serverWire' = Append(serverWire, m)
      PROVE  RoundTrip!Next
  <2>1. /\ Len(serverWire') = Len(serverWire) + 1
        /\ serverWire'[Len(serverWire) + 1] = m
    BY <1>1, <1>5
  <2>2. /\ Len(serverWire) < Len(accepted)
        /\ m = accepted[Len(serverWire) + 1]
    BY <1>1, <1>2, <1>5, <2>1 DEF Begins
  <2> QED BY <1>5, <2>2 DEF RoundTrip!Next, RoundTrip!Transmit
<1> QED BY <1>3, <1>4, <1>5, BenchmarkStep

(* The round trip through the two sessions and the echo implements the     *)
(* in-order link: what comes back to the client is what its session        *)
(* accepted, in order, each request once and whole, although each side     *)
(* sends in pieces and either may close in the middle of a message.        *)
THEOREM EchoLink == BenchmarkSpec => EchoIsFifoLink
<1>1. BenchmarkInit => RoundTrip!Init
  BY DEF BenchmarkInit, Init, Server!Init, RoundTrip!Init
<1>2. BInv /\ OverInv /\ [BenchmarkNext]_allVars
        => [RoundTrip!Next]_(RoundTrip!vars)
  BY RoundTripStep
<1> QED
  BY <1>1, <1>2, BenchmarkSpecInv, PTL
     DEF BenchmarkSpec, EchoIsFifoLink, RoundTrip!Spec
=============================================================================
