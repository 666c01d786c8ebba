----------------------- MODULE SerialSessionTheorems ------------------------
(***************************************************************************)
(* Proofs about SerialSession, in three parts: the operators it is built   *)
(* from, each for every session that satisfies an invariant SessionInv of  *)
(* its own fields; the inductive invariant IInv, with one lemma for each   *)
(* action; and the theorems.                                               *)
(***************************************************************************)
EXTENDS SerialSession, OperationLemmas
-----------------------------------------------------------------------------
(* PART 1.  What schedule_operations starts, what close() and              *)
(* close_transport leave behind, and that all of them keep SessionInv.     *)

(* The flags and the queue: what the in-progress flags say about the         *)
(* outstanding operations, and that a closed session holds no message.       *)
FlagsInv(s) ==
  /\ Len(s.reads)  = IF s.read_in_progress  THEN 1 ELSE 0
  /\ Len(s.writes) = IF s.write_in_progress THEN 1 ELSE 0
  /\ ~s.read_pause_for_write
  /\ s.closed => s.write_queue = << >>
  /\ \A i \in DOMAIN s.reads : s.reads[i].status # "done" => s.reads[i].bytes = 0

(* The port: open, with the message being written at the front of the queue, *)
(* until the session is closed; nothing pending on it afterwards, except     *)
(* between the two halves of close().                                        *)
PortInv(s) ==
  /\ ~s.closed =>
       /\ s.is_open /\ ~s.closing
       /\ \A i \in DOMAIN s.writes :
            s.write_queue # << >> /\ Head(s.write_queue) = s.writes[i].message
  /\ s.closed /\ ~s.closing =>
       /\ \A i \in DOMAIN s.reads  : s.reads[i].status  # "pending"
       /\ \A i \in DOMAIN s.writes : s.writes[i].status # "pending"
  /\ s.closing => SeveralThreads

SessionInv(s) == FlagsInv(s) /\ PortInv(s)

(* t agrees with s on everything but the operations and their flags. *)
SameBut(s, t) ==
  /\ t.read_handler = s.read_handler
  /\ t.write_queue = s.write_queue
  /\ t.read_enabled = s.read_enabled
  /\ t.closed = s.closed
  /\ t.duplex_mode = s.duplex_mode
  /\ t.read_buffer = s.read_buffer
  /\ t.read_pause_for_write = s.read_pause_for_write
  /\ t.closing = s.closing
  /\ t.is_open = s.is_open

SameRead(s, t) ==
  t.read_in_progress = s.read_in_progress /\ t.reads = s.reads

SameWrite(s, t) ==
  t.write_in_progress = s.write_in_progress /\ t.writes = s.writes

(* A read, or a write, was idle in s, could start, and is pending in t. *)
ReadStarted(s, t) ==
  /\ can_start_read(s)
  /\ t.read_in_progress
  /\ t.reads = << [status |-> "pending", room |-> s.read_buffer, bytes |-> 0] >>

WriteStarted(s, t) ==
  /\ can_start_write(s)
  /\ t.write_in_progress
  /\ t.writes = << [status |-> "pending", message |-> Head(s.write_queue)] >>

(* do_read, called when can_start_read holds, starts one read as large as    *)
(* the buffer and touches nothing else.                                      *)
LEMMA DoRead ==
  ASSUME NEW s \in Session, SessionInv(s), can_start_read(s)
  PROVE  /\ do_read(s) \in Session
         /\ SameBut(s, do_read(s))
         /\ SameWrite(s, do_read(s))
         /\ ReadStarted(s, do_read(s))
<1> DEFINE t == [mark_read_started(s) EXCEPT !.read_pause_for_write = FALSE]
           op == [status |-> "pending", room |-> s.read_buffer, bytes |-> 0]
<1>1. /\ t \in Session
      /\ SameBut(s, t) /\ SameWrite(s, t)
      /\ t.reads = << >> /\ t.is_open /\ t.read_in_progress
  BY EmptySeq
     DEF Session, mark_read_started, SameBut, SameWrite, SessionInv, FlagsInv,
         PortInv, can_start_read
<1>2. op \in ReadOp
  BY DEF Session, ReadOp, Status
<1>3. << op >> \in Seq(ReadOp) /\ Append(t.reads, op) = << op >>
  <2> HIDE DEF t, op
  <2> QED BY <1>1, <1>2
<1>4. do_read(s) = [t EXCEPT !.reads = << op >>]
  BY <1>1, <1>3 DEF do_read, async_read_some, SameBut
<1> HIDE DEF t
<1> QED BY <1>1, <1>3, <1>4 DEF Session, SameBut, SameWrite, ReadStarted

(* do_write, called when can_start_write holds, starts one write of the      *)
(* front message and touches nothing else: its first two branches, the empty *)
(* queue and the paused read, are not taken.                                 *)
LEMMA DoWrite ==
  ASSUME NEW s \in Session, SessionInv(s), can_start_write(s)
  PROVE  /\ do_write(s) \in Session
         /\ SameBut(s, do_write(s))
         /\ SameRead(s, do_write(s))
         /\ WriteStarted(s, do_write(s))
<1> DEFINE t == mark_write_started(s)
           op == [status |-> "pending", message |-> Head(s.write_queue)]
<1>1. /\ t \in Session
      /\ SameBut(s, t) /\ SameRead(s, t)
      /\ t.writes = << >> /\ t.is_open /\ t.write_in_progress
  BY EmptySeq
     DEF Session, mark_write_started, SameBut, SameRead, SessionInv, FlagsInv,
         PortInv, can_start_write
<1>2. op \in WriteOp
  BY DEF Session, WriteOp, Status, can_start_write, has_pending_writes
<1>3. << op >> \in Seq(WriteOp) /\ Append(t.writes, op) = << op >>
  <2> HIDE DEF t, op
  <2> QED BY <1>1, <1>2
<1>4. do_write(s) = [t EXCEPT !.writes = << op >>]
  <2>1. do_write(s) = async_write(t, current_write(s))
    BY DEF do_write, can_start_write
  <2> QED BY <1>1, <1>3, <2>1 DEF async_write, current_write
<1> HIDE DEF t
<1> QED BY <1>1, <1>3, <1>4 DEF Session, SameBut, SameRead, WriteStarted

(* What schedule_operations may do: start a read, a write, both or neither. *)
OpsStarted(s, t) ==
  /\ t \in Session
  /\ SameBut(s, t)
  /\ SameRead(s, t) \/ ReadStarted(s, t)
  /\ SameWrite(s, t) \/ WriteStarted(s, t)

(* Starting operations keeps the invariant of the session. *)
LEMMA StartedInv ==
  ASSUME NEW s \in Session, SessionInv(s), NEW t, OpsStarted(s, t)
  PROVE  SessionInv(t)
<1> USE DEF OpsStarted
<1>1. CASE SameRead(s, t) /\ SameWrite(s, t)
  BY <1>1 DEF SessionInv, FlagsInv, PortInv, SameBut, SameRead, SameWrite
<1>2. CASE SameRead(s, t) /\ WriteStarted(s, t)
  BY <1>2
     DEF SessionInv, FlagsInv, PortInv, SameBut, SameRead, WriteStarted,
         can_start_write, has_pending_writes
<1>3. CASE ReadStarted(s, t) /\ SameWrite(s, t)
  BY <1>3
     DEF SessionInv, FlagsInv, PortInv, SameBut, SameWrite, ReadStarted,
         can_start_read
<1>4. CASE ReadStarted(s, t) /\ WriteStarted(s, t)
  BY <1>4
     DEF SessionInv, FlagsInv, PortInv, SameBut, ReadStarted, WriteStarted,
         can_start_read, can_start_write, has_pending_writes
<1> QED BY <1>1, <1>2, <1>3, <1>4
(* What schedule_operations leaves behind: nothing that could start. *)
Scheduled(s, t) ==
  /\ OpsStarted(s, t)
  /\ ~can_start_read(t)
  /\ ~can_start_write(t)

(* What the operations in progress keep from starting. *)
LEMMA SameCan ==
  ASSUME NEW s \in Session, NEW t \in Session, SameBut(s, t)
  PROVE  /\ SameWrite(s, t) /\ t.read_in_progress /\ ~can_start_write(s)
              => ~can_start_write(t)
         /\ t.write_in_progress => ~can_start_write(t)
         /\ t.read_in_progress => ~can_start_read(t)
BY DEF can_start_read, can_start_write, SameBut, SameWrite,
       has_pending_writes, Session

(* One call of schedule_operations starts all that can start. The read is    *)
(* decided on after the write was started, and in half duplex a read that    *)
(* starts keeps a write from starting: in no case is a second call needed.   *)
LEMMA ScheduleEffect ==
  ASSUME NEW s \in Session, SessionInv(s)
  PROVE  Scheduled(s, Schedule(s))
<1> DEFINE w == IF can_start_write(s) THEN do_write(s) ELSE s
           t == IF can_start_read(w) THEN do_read(w) ELSE w
<1>1. /\ w \in Session /\ SameBut(s, w) /\ SameRead(s, w)
      /\ SameWrite(s, w) \/ WriteStarted(s, w)
      /\ ~can_start_write(w)
  <2>1. CASE can_start_write(s)
     BY <2>1, DoWrite, SameCan DEF WriteStarted
  <2>2. CASE ~can_start_write(s)
     BY <2>2 DEF SameBut, SameRead, SameWrite
  <2> QED BY <2>1, <2>2
<1>2. SessionInv(w)
  <2> HIDE DEF w
  <2> QED BY <1>1, StartedInv DEF OpsStarted
<1>3. Schedule(s) = t
  BY DEF Schedule, Core!schedule_operations
<1> HIDE DEF w
<1>4. CASE can_start_read(w)
  <2>1. /\ t \in Session /\ SameBut(w, t) /\ SameWrite(w, t) /\ ReadStarted(w, t)
    BY <1>4, <1>1, <1>2, DoRead
  <2>2. ~can_start_read(t) /\ ~can_start_write(t)
    BY <2>1, <1>1, SameCan DEF ReadStarted
  <2>3. can_start_read(s)
    <3>1. CASE SameWrite(s, w)
      BY <1>1, <1>4, <3>1
         DEF SameBut, SameRead, SameWrite, can_start_read, has_pending_writes
    <3>2. CASE WriteStarted(s, w)
      BY <1>1, <1>4, <3>2
         DEF SameBut, SameRead, WriteStarted, can_start_read,
             has_pending_writes
    <3> QED BY <1>1, <3>1, <3>2
  <2> HIDE DEF t
  <2> QED
    BY <1>1, <1>3, <2>1, <2>2, <2>3
       DEF SameBut, SameRead, SameWrite, ReadStarted, WriteStarted, OpsStarted,
           Scheduled
<1>5. CASE ~can_start_read(w)
  BY <1>1, <1>3, <1>5 DEF Scheduled, OpsStarted
<1> QED BY <1>4, <1>5

(* The effect of releasing the port. *)
Released(s, t) ==
  /\ t \in Session
  /\ t.read_handler = s.read_handler
  /\ t.write_queue = s.write_queue
  /\ t.read_enabled = s.read_enabled
  /\ t.closed = s.closed
  /\ t.duplex_mode = s.duplex_mode
  /\ t.read_buffer = s.read_buffer
  /\ t.read_pause_for_write = s.read_pause_for_write
  /\ t.read_in_progress = s.read_in_progress
  /\ t.write_in_progress = s.write_in_progress
  /\ ~t.closing /\ ~t.is_open
  /\ t.reads = Aborted(s.reads)
  /\ t.writes = Aborted(s.writes)

(* Aborting reads leaves none pending and loses no byte of one that is done. *)
LEMMA AbortedReads ==
  ASSUME NEW ops \in Seq(ReadOp)
  PROVE  /\ Aborted(ops) \in Seq(ReadOp)
         /\ Len(Aborted(ops)) = Len(ops)
         /\ \A i \in DOMAIN Aborted(ops) :
              /\ i \in DOMAIN ops
              /\ Aborted(ops)[i].status # "pending"
              /\ Aborted(ops)[i].room = ops[i].room
              /\ Aborted(ops)[i].bytes = ops[i].bytes
              /\ Aborted(ops)[i].status = "done" <=> ops[i].status = "done"
<1>1. \A op \in ReadOp : [op EXCEPT !.status = "aborted"] \in ReadOp
  BY DEF ReadOp, Status
<1>2. \A i \in DOMAIN ops : ops[i] \in ReadOp
  OBVIOUS
<1>3. \A op \in ReadOp : /\ [op EXCEPT !.status = "aborted"].status = "aborted"
                         /\ [op EXCEPT !.status = "aborted"].bytes = op.bytes
                         /\ [op EXCEPT !.status = "aborted"].room = op.room
  BY DEF ReadOp
<1>4. /\ Aborted(ops) \in Seq(ReadOp)
      /\ Len(Aborted(ops)) = Len(ops)
      /\ DOMAIN Aborted(ops) = DOMAIN ops
      /\ \A i \in DOMAIN ops :
           Aborted(ops)[i] = IF ops[i].status = "pending"
             THEN [ops[i] EXCEPT !.status = "aborted"] ELSE ops[i]
  BY <1>1, AbortedOps
<1> QED BY <1>2, <1>3, <1>4

(* Aborting writes leaves none pending. *)
LEMMA AbortedWrites ==
  ASSUME NEW ops \in Seq(WriteOp)
  PROVE  /\ Aborted(ops) \in Seq(WriteOp)
         /\ Len(Aborted(ops)) = Len(ops)
         /\ \A i \in DOMAIN Aborted(ops) : Aborted(ops)[i].status # "pending"
<1>1. \A op \in WriteOp : [op EXCEPT !.status = "aborted"] \in WriteOp
  BY DEF WriteOp, Status
<1>2. \A i \in DOMAIN ops : ops[i] \in WriteOp
  OBVIOUS
<1>3. \A op \in WriteOp : [op EXCEPT !.status = "aborted"].status = "aborted"
  BY DEF WriteOp
<1>4. /\ Aborted(ops) \in Seq(WriteOp)
      /\ Len(Aborted(ops)) = Len(ops)
      /\ DOMAIN Aborted(ops) = DOMAIN ops
      /\ \A i \in DOMAIN ops :
           Aborted(ops)[i] = IF ops[i].status = "pending"
             THEN [ops[i] EXCEPT !.status = "aborted"] ELSE ops[i]
  BY <1>1, AbortedOps
<1> QED BY <1>2, <1>3, <1>4

(* close_transport aborts the operations, closes the port, and changes       *)
(* nothing else of the session.                                              *)
LEMMA CloseTransportEffect ==
  ASSUME NEW s \in Session
  PROVE  Released(s, close_transport(s))
<1> DEFINE r == Aborted(s.reads)
           w == Aborted(s.writes)
           t == [[s EXCEPT !.reads = r, !.writes = w]
                    EXCEPT !.is_open = FALSE, !.closing = FALSE]
<1>1. r \in Seq(ReadOp) /\ w \in Seq(WriteOp)
  BY AbortedReads, AbortedWrites DEF Session
<1>2. close_transport(s) = t
  BY DEF close_transport, cancel
<1>3. /\ t \in Session
      /\ t.reads = r /\ t.writes = w /\ ~t.is_open /\ ~t.closing
      /\ t.read_in_progress = s.read_in_progress
      /\ t.write_in_progress = s.write_in_progress
      /\ t.read_handler = s.read_handler
      /\ t.write_queue = s.write_queue
      /\ t.read_enabled = s.read_enabled
      /\ t.closed = s.closed
      /\ t.duplex_mode = s.duplex_mode
      /\ t.read_buffer = s.read_buffer
      /\ t.read_pause_for_write = s.read_pause_for_write
  <2> HIDE DEF r, w
  <2> QED BY <1>1 DEF Session
<1> HIDE DEF t
<1> QED BY <1>2, <1>3 DEF Released

(* Releasing the port of a closed session keeps the session's invariant. *)
LEMMA ReleasedKeeps ==
  ASSUME NEW s \in Session, NEW t, FlagsInv(s), s.closed, Released(s, t)
  PROVE  SessionInv(t)
<1>1. s.reads \in Seq(ReadOp) /\ s.writes \in Seq(WriteOp)
  BY DEF Session
<1>2. /\ Len(t.reads) = Len(s.reads)
      /\ Len(t.writes) = Len(s.writes)
      /\ \A i \in DOMAIN t.reads :
           /\ i \in DOMAIN s.reads
           /\ t.reads[i].status # "pending"
           /\ t.reads[i].bytes = s.reads[i].bytes
           /\ t.reads[i].status = "done" <=> s.reads[i].status = "done"
      /\ \A i \in DOMAIN t.writes : t.writes[i].status # "pending"
  <2>1. t.reads = Aborted(s.reads) /\ t.writes = Aborted(s.writes)
    BY DEF Released
  <2> QED BY <1>1, <2>1, AbortedReads, AbortedWrites
<1> QED BY <1>2 DEF SessionInv, FlagsInv, PortInv, Released

(* What close() does before it calls close_transport. *)
Shutting(s) ==
  [s EXCEPT !.read_enabled = FALSE, !.write_queue = << >>, !.closed = TRUE]

(* close(), on one thread or on several, keeps the invariant of the session  *)
(* and leaves it closed; on a closed session it does nothing.                *)
LEMMA CloseEffect ==
  ASSUME NEW s \in Session, SessionInv(s)
  PROVE  /\ CloseSession(s) \in Session
         /\ SessionInv(CloseSession(s))
         /\ CloseSession(s).closed
         /\ s.closed => CloseSession(s) = s
         /\ \/ CloseSession(s).reads = s.reads
            \/ CloseSession(s).reads = Aborted(s.reads)
<1> DEFINE q == Shutting(s)
<1>1. CASE s.closed
  BY <1>1 DEF CloseSession, Core!close
<1>2. CASE ~s.closed
  <2>1. /\ q \in Session /\ q.closed /\ q.write_queue = << >>
        /\ q.reads = s.reads /\ q.writes = s.writes
        /\ q.read_in_progress = s.read_in_progress
        /\ q.write_in_progress = s.write_in_progress
        /\ FlagsInv(q)
    <3>1. /\ q \in Session /\ q.closed /\ q.write_queue = << >>
          /\ q.reads = s.reads /\ q.writes = s.writes
          /\ q.read_in_progress = s.read_in_progress
          /\ q.write_in_progress = s.write_in_progress
          /\ q.read_pause_for_write = s.read_pause_for_write
      BY EmptySeq DEF Shutting, Session
    <3> HIDE DEF q
    <3> QED BY <3>1 DEF SessionInv, FlagsInv
  <2>2. CloseSession(s) = to_close_transport(q)
    BY <1>2 DEF CloseSession, Core!close, Shutting
  <2>3. CASE SeveralThreads
    <3>1. CloseSession(s) = [q EXCEPT !.closing = TRUE]
      BY <2>2, <2>3 DEF to_close_transport
    <3> HIDE DEF q
    <3>2. /\ CloseSession(s) \in Session
          /\ CloseSession(s).closing /\ CloseSession(s).closed
          /\ CloseSession(s).write_queue = << >>
          /\ SameRead(q, CloseSession(s)) /\ SameWrite(q, CloseSession(s))
          /\ CloseSession(s).read_pause_for_write = q.read_pause_for_write
      BY <2>1, <3>1 DEF Session, SameRead, SameWrite
    <3>3. SessionInv(CloseSession(s))
      BY <2>1, <2>3, <3>2
         DEF SessionInv, FlagsInv, PortInv, SameRead, SameWrite
    <3> QED BY <2>1, <3>2, <3>3, <1>2 DEF SameRead
  <2>4. CASE ~SeveralThreads
    <3>1. Released(q, CloseSession(s))
      BY <2>1, <2>2, <2>4, CloseTransportEffect DEF to_close_transport
    <3>2. SessionInv(CloseSession(s))
      <4> HIDE DEF q
      <4> QED BY <2>1, <3>1, ReleasedKeeps
    <3> QED BY <2>1, <3>1, <3>2, <1>2 DEF Released
  <2> QED BY <2>3, <2>4
<1> QED BY <1>1, <1>2
-----------------------------------------------------------------------------
(* PART 2.  The invariant joins SessionInv, about the session alone, with  *)
(* the two properties that tie the session to the histories.  Most of the  *)
(* lemmas are an instance of QuietStep: the action owes the histories      *)
(* nothing.                                                                *)

(* The bytes a session still has to report, and what its queue still owes    *)
(* the wire.                                                                 *)
Bytes(s) == IF s.reads = << >> THEN 0 ELSE Head(s.reads).bytes

Left(s) == IF s.writes # << >> /\ Head(s.writes).status = "done"
           THEN Tail(s.write_queue) ELSE s.write_queue

(* The inductive invariant. The two history properties are not inductive by  *)
(* themselves: that a completed write pops the message that went out needs   *)
(* PortInv, and that a completion finds its operation needs FlagsInv.        *)
IInv ==
  /\ TypeOK
  /\ SessionInv(session)
  /\ EveryByteReported
  /\ NothingLostWhileOpen

(* The two history properties in terms of Bytes and Left. *)
LEMMA HistoryDefs ==
  /\ EveryByteReported <=> unreported = Bytes(session)
  /\ NothingLostWhileOpen <=>
       (~session.closed => accepted = wire \o Left(session))
BY DEF EveryByteReported, NothingLostWhileOpen, Unwritten, WriteDone, Bytes,
       Left

(* t leaves the histories that belong to s as they are. *)
SameHistory(s, t) ==
  /\ Bytes(t) = Bytes(s)
  /\ ~t.closed => ~s.closed /\ Left(t) = Left(s)

(* Starting operations owes the histories nothing new. *)
LEMMA StartedHistory ==
  ASSUME NEW s \in Session, SessionInv(s), NEW t, OpsStarted(s, t)
  PROVE  SameHistory(s, t)
<1>1. Bytes(t) = Bytes(s)
  <2>1. CASE SameRead(s, t)
    BY <2>1 DEF SameRead, Bytes
  <2>2. CASE ReadStarted(s, t)
    <3>1. s.reads = << >>
      BY <2>2 DEF ReadStarted, can_start_read, SessionInv, FlagsInv, Session
    <3> QED BY <2>2, <3>1 DEF ReadStarted, Bytes
  <2> QED BY <2>1, <2>2 DEF OpsStarted
<1>2. Left(t) = Left(s)
  <2>1. CASE SameWrite(s, t)
    BY <2>1 DEF SameWrite, Left, OpsStarted, SameBut
  <2>2. CASE WriteStarted(s, t)
    <3>1. s.writes = << >>
      BY <2>2 DEF WriteStarted, can_start_write, SessionInv, FlagsInv, Session
    <3> QED BY <2>2, <3>1 DEF WriteStarted, Left, OpsStarted, SameBut
  <2> QED BY <2>1, <2>2 DEF OpsStarted
<1> QED BY <1>1, <1>2 DEF SameHistory, OpsStarted, SameBut

(* Aborting a read keeps the bytes it has already stored. *)
LEMMA BytesAborted ==
  ASSUME NEW s \in Session, NEW t, t.reads = s.reads \/ t.reads = Aborted(s.reads)
  PROVE  Bytes(t) = Bytes(s)
<1>1. s.reads \in Seq(ReadOp)
  BY DEF Session
<1>2. CASE t.reads = Aborted(s.reads)
  <2>1. CASE s.reads = << >>
    <3>1. t.reads \in Seq(ReadOp) /\ Len(t.reads) = 0
      BY <2>1, <1>1, <1>2, AbortedReads, EmptySeq
    <3>2. t.reads = << >>
      BY <3>1, EmptySeq
    <3> QED BY <2>1, <3>2 DEF Bytes
  <2>2. CASE s.reads # << >>
    <3>1. /\ t.reads # << >> /\ 1 \in DOMAIN t.reads
          /\ t.reads[1].bytes = s.reads[1].bytes
          /\ t.reads \in Seq(ReadOp)
      BY <2>2, <1>1, <1>2, AbortedReads
    <3> QED BY <3>1, <2>2, <1>1 DEF Bytes
  <2> QED BY <2>1, <2>2
<1> QED BY <1>2 DEF Bytes

(* close() keeps what the session still has to report. *)
LEMMA CloseHistory ==
  ASSUME NEW s \in Session, SessionInv(s)
  PROVE  SameHistory(s, CloseSession(s))
BY CloseEffect, BytesAborted DEF SameHistory

(* t differs from s in fields that no invariant mentions. *)
Tweaked(s, t) ==
  /\ t \in Session
  /\ t.write_queue = s.write_queue
  /\ t.closed = s.closed
  /\ t.read_pause_for_write = s.read_pause_for_write
  /\ t.closing = s.closing
  /\ s.is_open => t.is_open
  /\ SameRead(s, t)
  /\ SameWrite(s, t)

(* Such a change keeps the session's invariant and its histories. *)
LEMMA TweakedKeeps ==
  ASSUME NEW s \in Session, SessionInv(s), NEW t, Tweaked(s, t)
  PROVE  SessionInv(t) /\ SameHistory(s, t)
BY DEF Tweaked, SameRead, SameWrite, SessionInv, FlagsInv, PortInv,
       SameHistory, Bytes, Left

(* schedule_operations keeps the session's invariant and its histories. *)
LEMMA ScheduleKeeps ==
  ASSUME NEW s \in Session, SessionInv(s)
  PROVE  /\ Schedule(s) \in Session
         /\ SessionInv(Schedule(s))
         /\ SameHistory(s, Schedule(s))
         /\ Schedule(s).closed = s.closed
BY ScheduleEffect, StartedInv, StartedHistory DEF Scheduled, OpsStarted, SameBut

(* A step to session t keeps the invariant when it leaves the histories alone. *)
LEMMA QuietStep ==
  ASSUME IInv,
         session' \in Session, SessionInv(session'),
         SameHistory(session, session'),
         strand' \in {"idle", "after_data", "after_error"},
         UNCHANGED <<accepted, wire, unreported>>
  PROVE  IInv'
<1>1. TypeOK'
  BY DEF IInv, TypeOK
<1>2. EveryByteReported'
  BY HistoryDefs DEF IInv, SameHistory, EveryByteReported, Bytes
<1>3. NothingLostWhileOpen'
  BY DEF IInv, SameHistory, NothingLostWhileOpen, Unwritten, WriteDone, Left
<1> QED BY <1>1, <1>2, <1>3 DEF IInv

(* The invariant under set_read_handler. *)
LEMMA SetReadHandlerStep ==
  ASSUME IInv, NEW set \in BOOLEAN, SetReadHandler(set)
  PROVE  IInv'
<1>1. Tweaked(session, session')
  BY DEF IInv, TypeOK, SetReadHandler, set_read_handler, Tweaked, Session,
         SameRead, SameWrite
<1> QED
  BY <1>1, TweakedKeeps, QuietStep
     DEF IInv, TypeOK, SetReadHandler, Tweaked

(* The invariant under stop_reading. *)
LEMMA StopReadingStep ==
  ASSUME IInv, StopReading
  PROVE  IInv'
<1>1. Tweaked(session, session')
  BY DEF IInv, TypeOK, StopReading, stop_reading, Tweaked, Session, SameRead,
         SameWrite
<1> QED BY <1>1, TweakedKeeps, QuietStep DEF IInv, TypeOK, StopReading, Tweaked

(* SameHistory is transitive and reflexive. *)
LEMMA HistoryTrans ==
  ASSUME NEW s, NEW t, NEW u, SameHistory(s, t), SameHistory(t, u)
  PROVE  SameHistory(s, u)
BY DEF SameHistory

LEMMA HistoryRefl ==
  ASSUME NEW s PROVE SameHistory(s, s)
BY DEF SameHistory

(* A change of other fields followed by schedule_operations. *)
LEMMA TweakAndSchedule ==
  ASSUME NEW s \in Session, SessionInv(s), NEW t, Tweaked(s, t)
  PROVE  /\ Schedule(t) \in Session
         /\ SessionInv(Schedule(t))
         /\ SameHistory(s, Schedule(t))
<1>1. t \in Session /\ SessionInv(t) /\ SameHistory(s, t)
  BY TweakedKeeps DEF Tweaked
<1> QED BY <1>1, ScheduleKeeps, HistoryTrans

(* The invariant under start_reading. *)
LEMMA StartReadingStep ==
  ASSUME IInv, StartReading
  PROVE  IInv'
<1> DEFINE t == [session EXCEPT !.read_enabled = TRUE]
<1>1. session' = IF session.closed THEN session ELSE Schedule(t)
  BY DEF StartReading, Core!start_reading, Schedule
<1>2. Tweaked(session, t)
  BY DEF IInv, TypeOK, Tweaked, Session, SameRead, SameWrite
<1> HIDE DEF t
<1>3. /\ session' \in Session
      /\ SessionInv(session')
      /\ SameHistory(session, session')
  BY <1>1, <1>2, TweakAndSchedule, HistoryRefl DEF IInv, TypeOK
<1> QED BY <1>3, QuietStep DEF IInv, TypeOK, StartReading

(* The invariant under set_duplex_mode. *)
LEMMA SetDuplexModeStep ==
  ASSUME IInv, NEW mode \in Mode, SetDuplexMode(mode)
  PROVE  IInv'
<1> DEFINE t == [session EXCEPT !.duplex_mode = mode]
<1>1. session' = Schedule(t)
  BY DEF SetDuplexMode, set_duplex_mode
<1>2. Tweaked(session, t)
  BY SerialAssumption
     DEF IInv, TypeOK, Tweaked, Session, SameRead, SameWrite, DuplexMode
<1> HIDE DEF t
<1>3. /\ session' \in Session
      /\ SessionInv(session')
      /\ SameHistory(session, session')
  BY <1>1, <1>2, TweakAndSchedule DEF IInv, TypeOK
<1> QED BY <1>3, QuietStep DEF IInv, TypeOK, SetDuplexMode

(* The invariant under set_read_buffer_size. *)
LEMMA SetReadBufferSizeStep ==
  ASSUME IInv, NEW size \in BufferSize \cup {0}, SetReadBufferSize(size)
  PROVE  IInv'
<1>1. Tweaked(session, session')
  BY SerialAssumption
     DEF IInv, TypeOK, SetReadBufferSize, set_read_buffer_size, Tweaked,
         Session, SameRead, SameWrite
<1> QED
  BY <1>1, TweakedKeeps, QuietStep
     DEF IInv, TypeOK, SetReadBufferSize, Tweaked

(* The members of a configuration. *)
LEMMA ConfigType ==
  ASSUME NEW config \in Config
  PROVE  config.duplex_mode \in DuplexMode /\ config.read_buffer_size \in Nat
<1>1. /\ config.duplex_mode \in Mode
      /\ config.read_buffer_size \in BufferSize \cup {0}
  BY DEF Config
<1>2. Mode \subseteq DuplexMode /\ BufferSize \cup {0} \subseteq Nat
  BY SerialAssumption DEF DuplexMode
<1> QED BY <1>1, <1>2

(* apply_config, also on the running session, touches only the duplex mode   *)
(* and the size of the buffer.                                               *)
LEMMA ApplyConfigEffect ==
  ASSUME NEW s \in Session, NEW config \in Config, NEW succeeds \in BOOLEAN
  PROVE  Tweaked(s, apply_config(s, config, succeeds))
BY ConfigType DEF apply_config, Tweaked, Session, SameRead, SameWrite

(* open() of an existing session touches no operation and no flag. *)
LEMMA OpenEffect ==
  ASSUME NEW s \in Session, NEW config \in Config, NEW succeeds \in BOOLEAN
  PROVE  Tweaked(s, open(s, config, succeeds))
<1> DEFINE t == [s EXCEPT !.is_open = TRUE]
<1>1. t \in Session /\ Tweaked(s, t)
  BY DEF Tweaked, Session, SameRead, SameWrite
<1>2. Tweaked(s, s)
  BY DEF Tweaked, SameRead, SameWrite
<1>3. open(s, config, succeeds) \in {s, apply_config(t, config, succeeds)}
  BY DEF open
<1> HIDE DEF t
<1>4. Tweaked(t, apply_config(t, config, succeeds))
  BY <1>1, ApplyConfigEffect
<1> QED BY <1>1, <1>2, <1>3, <1>4 DEF Tweaked, SameRead, SameWrite

(* The invariant under open(). *)
LEMMA OpenStep ==
  ASSUME IInv, NEW config \in Config, NEW succeeds \in BOOLEAN,
         Open(config, succeeds)
  PROVE  IInv'
<1>1. Tweaked(session, session')
  BY OpenEffect DEF IInv, TypeOK, Open
<1> QED BY <1>1, TweakedKeeps, QuietStep DEF IInv, TypeOK, Open, Tweaked

(* The invariant under apply_config. *)
LEMMA ApplyConfigStep ==
  ASSUME IInv, NEW config \in Config, NEW succeeds \in BOOLEAN,
         ApplyConfig(config, succeeds)
  PROVE  IInv'
<1>1. Tweaked(session, session')
  BY ApplyConfigEffect DEF IInv, TypeOK, ApplyConfig
<1> QED BY <1>1, TweakedKeeps, QuietStep DEF IInv, TypeOK, ApplyConfig, Tweaked

(* The invariant under close(). *)
LEMMA CloseStep ==
  ASSUME IInv, Close
  PROVE  IInv'
BY CloseEffect, CloseHistory, QuietStep DEF IInv, TypeOK, Close

(* The invariant under the second half of close(). *)
LEMMA CloseTransportStep ==
  ASSUME IInv, CloseTransport
  PROVE  IInv'
<1>1. session.closed
  BY DEF IInv, CloseTransport, SessionInv, PortInv
<1>2. Released(session, session')
  BY CloseTransportEffect DEF IInv, TypeOK, CloseTransport
<1>3. SessionInv(session')
  BY <1>1, <1>2, ReleasedKeeps DEF IInv, TypeOK, SessionInv
<1>4. SameHistory(session, session')
  BY <1>1, <1>2, BytesAborted DEF IInv, TypeOK, SameHistory, Released
<1> QED
  BY <1>2, <1>3, <1>4, QuietStep
     DEF IInv, TypeOK, Released, CloseTransport

(* Appending to the queue of an open session keeps its invariant: the        *)
(* message at the front, which a write may be reading, stays there.          *)
LEMMA EnqueueEffect ==
  ASSUME NEW s \in Session, SessionInv(s), ~s.closed, NEW m \in Message
  PROVE  LET t == [s EXCEPT !.write_queue = Append(s.write_queue, m)]
         IN  /\ t \in Session
             /\ SessionInv(t)
             /\ ~t.closed
             /\ Bytes(t) = Bytes(s)
             /\ Left(s) \in Seq(Message)
             /\ Left(t) = Append(Left(s), m)
<1> DEFINE q == Append(s.write_queue, m)
           t == [s EXCEPT !.write_queue = q]
<1>1. /\ s.write_queue \in Seq(Message)
      /\ q \in Seq(Message) /\ q # << >>
      /\ s.write_queue # << >> =>
           /\ Head(q) = Head(s.write_queue)
           /\ Tail(q) = Append(Tail(s.write_queue), m)
           /\ Tail(s.write_queue) \in Seq(Message)
  BY HeadTailAppend, AppendProperties, HeadTailProperties DEF Session
<1>2. /\ t \in Session
      /\ t.write_queue = q
      /\ t.closed = s.closed
      /\ t.read_pause_for_write = s.read_pause_for_write
      /\ t.closing = s.closing
      /\ t.is_open = s.is_open
      /\ SameRead(s, t)
      /\ SameWrite(s, t)
  <2> HIDE DEF q
  <2> QED BY <1>1 DEF Session, SameRead, SameWrite
<1> HIDE DEF t, q
<1>3. SessionInv(t)
  BY <1>1, <1>2 DEF SessionInv, FlagsInv, PortInv, SameRead, SameWrite
<1>4. Left(s) \in Seq(Message) /\ Left(t) = Append(Left(s), m)
  <2>1. CASE s.writes # << >> /\ Head(s.writes).status = "done"
    <3>1. s.write_queue # << >>
      BY <2>1, HeadTailProperties DEF SessionInv, PortInv, Session
    <3>2. Left(s) = Tail(s.write_queue) /\ Left(t) = Tail(q)
      BY <1>2, <2>1 DEF Left, SameWrite
    <3> QED BY <1>1, <3>1, <3>2 DEF q
  <2>2. CASE ~(s.writes # << >> /\ Head(s.writes).status = "done")
    BY <1>1, <1>2, <2>2 DEF Left, SameWrite, q
  <2> QED BY <2>1, <2>2
<1>5. ~t.closed /\ Bytes(t) = Bytes(s)
  BY <1>2 DEF SameRead, Bytes
<1> QED BY <1>2, <1>3, <1>4, <1>5 DEF t, q

(* A step that queues a message, whatever it schedules afterwards, keeps the *)
(* invariant when it counts the message as accepted.                         *)
LEMMA QueuedStep ==
  ASSUME IInv, NEW m \in Message, ~session.closed,
         session' \in Session, SessionInv(session'), ~session'.closed,
         SameHistory(
           [session EXCEPT !.write_queue = Append(session.write_queue, m)],
           session'),
         accepted' = Append(accepted, m),
         strand' \in {"idle", "after_data", "after_error"},
         UNCHANGED <<wire, unreported>>
  PROVE  IInv'
<1> DEFINE t == [session EXCEPT !.write_queue = Append(session.write_queue, m)]
<1>1. /\ ~t.closed
      /\ Bytes(t) = Bytes(session)
      /\ Left(session) \in Seq(Message)
      /\ Left(t) = Append(Left(session), m)
      /\ SameHistory(t, session')
  BY EnqueueEffect DEF IInv, TypeOK
<1> HIDE DEF t
<1>2. accepted' \in Seq(Message)
  BY DEF IInv, TypeOK
<1>3. TypeOK'
  BY <1>2 DEF IInv, TypeOK
<1>4. EveryByteReported'
  BY <1>1, HistoryDefs DEF IInv, SameHistory, EveryByteReported, Bytes
<1>5. NothingLostWhileOpen'
  <2>1. accepted = wire \o Left(session)
    BY HistoryDefs DEF IInv
  <2>2. /\ wire \in Seq(Message \cup {Freed})
        /\ Left(session) \in Seq(Message \cup {Freed})
    BY <1>1, SeqMonotonic DEF IInv, TypeOK
  <2>3. wire \o Append(Left(session), m) = Append(wire \o Left(session), m)
    BY <2>2, ConcatAppend
  <2>4. Left(session') = Append(Left(session), m)
    BY <1>1 DEF SameHistory
  <2>5. accepted' = wire' \o Left(session')
    BY <2>1, <2>3, <2>4
  <2> QED BY <2>5 DEF NothingLostWhileOpen, Unwritten, WriteDone, Left
<1> QED BY <1>3, <1>4, <1>5 DEF IInv

(* The invariant under enqueue_write. *)
LEMMA SendStep ==
  ASSUME IInv, NEW m \in Message, Send(m)
  PROVE  IInv'
<1> DEFINE t == [session EXCEPT !.write_queue = Append(session.write_queue, m)]
<1>1. CASE session.closed
  <2>1. UNCHANGED <<session, strand, accepted, wire, unreported>>
    BY <1>1 DEF Send, Core!enqueue_write, Schedule
  <2> QED BY <2>1, QuietStep, HistoryRefl DEF IInv, TypeOK
<1>2. CASE ~session.closed
  <2>1. session' = Schedule(t) /\ accepted' = Append(accepted, m)
    BY <1>2 DEF Send, Core!enqueue_write, Schedule
  <2>2. t \in Session /\ SessionInv(t) /\ ~t.closed
    BY <1>2, EnqueueEffect DEF IInv, TypeOK
  <2> HIDE DEF t
  <2>3. /\ session' \in Session /\ SessionInv(session')
        /\ SameHistory(t, session')
        /\ ~session'.closed
    BY <2>1, <2>2, ScheduleKeeps
  <2>4. UNCHANGED <<strand, wire, unreported>>
    BY DEF Send
  <2> QED BY <1>2, <2>1, <2>3, <2>4, QueuedStep DEF IInv, TypeOK, t
<1> QED BY <1>1, <1>2

(* The tail of the read completion keeps the session's invariant and         *)
(* histories.                                                                *)
LEMMA AfterReadKeeps ==
  ASSUME NEW s \in Session, SessionInv(s), NEW continuation
  PROVE  /\ AfterRead(s, continuation) \in Session
         /\ SessionInv(AfterRead(s, continuation))
         /\ SameHistory(s, AfterRead(s, continuation))
BY ScheduleKeeps, CloseEffect, CloseHistory DEF AfterRead

(* The invariant when the read handler returns. *)
LEMMA ReadHandlerReturnsStep ==
  ASSUME IInv, ReadHandlerReturns
  PROVE  IInv'
BY AfterReadKeeps, QuietStep DEF IInv, TypeOK, ReadHandlerReturns

(* mark_read_finished, with the completed read taken off, leaves a session   *)
(* with no read and keeps its invariant.                                     *)
LEMMA ReadFinished ==
  ASSUME NEW s \in Session, SessionInv(s), s.reads # << >>
  PROVE  LET t == mark_read_finished([s EXCEPT !.reads = Tail(s.reads)])
         IN  /\ t \in Session
             /\ SessionInv(t)
             /\ Bytes(t) = 0
             /\ Left(t) = Left(s)
             /\ t.closed = s.closed
             /\ ~t.read_pause_for_write
             /\ t.reads = << >>
<1> DEFINE r == Tail(s.reads)
           t == [[s EXCEPT !.reads = r] EXCEPT !.read_in_progress = FALSE]
<1>1. r \in Seq(ReadOp) /\ r = << >>
  <2>1. s.reads \in Seq(ReadOp) /\ Len(s.reads) = 1
    BY DEF Session, SessionInv, FlagsInv
  <2>2. r \in Seq(ReadOp) /\ Len(r) = 0
    BY <2>1, HeadTailProperties
  <2> QED BY <2>2, EmptySeq
<1>2. /\ t \in Session
      /\ t.reads = r
      /\ ~t.read_in_progress
      /\ t.closed = s.closed
      /\ t.write_queue = s.write_queue
      /\ t.read_pause_for_write = s.read_pause_for_write
      /\ t.closing = s.closing
      /\ t.is_open = s.is_open
      /\ SameWrite(s, t)
  <2> HIDE DEF r
  <2> QED BY <1>1 DEF Session, SameWrite
<1> HIDE DEF t, r
<1>3. SessionInv(t)
  BY <1>1, <1>2 DEF SessionInv, FlagsInv, PortInv, SameWrite
<1>4. Bytes(t) = 0 /\ Left(t) = Left(s) /\ ~t.read_pause_for_write
  BY <1>1, <1>2 DEF Bytes, Left, SameWrite, SessionInv, FlagsInv
<1> QED BY <1>1, <1>2, <1>3, <1>4 DEF t, r, mark_read_finished

(* The invariant under the read completion: the bytes of the read leave the  *)
(* outstanding operations and the unreported bytes together.                 *)
LEMMA OnReadStep ==
  ASSUME IInv, OnRead
  PROVE  IInv'
<1> DEFINE op   == Head(session.reads)
           s    == mark_read_finished(
                     [session EXCEPT !.reads = Tail(session.reads)])
           rest == IF op.status = "done" THEN "after_data" ELSE "after_error"
<1>1. session \in Session /\ SessionInv(session) /\ session.reads # << >>
  BY DEF IInv, TypeOK, OnRead
<1>2. /\ s \in Session /\ SessionInv(s)
      /\ Bytes(s) = 0 /\ Left(s) = Left(session) /\ s.closed = session.closed
      /\ ~s.read_pause_for_write
  BY <1>1, ReadFinished
<1>3. /\ session' = IF s.read_handler THEN s ELSE AfterRead(s, rest)
      /\ strand' = IF s.read_handler THEN rest ELSE "idle"
      /\ unreported' = unreported - op.bytes
      /\ UNCHANGED <<accepted, wire>>
  BY <1>2 DEF OnRead, notified
<1>4. unreported = op.bytes /\ op.bytes \in Nat
  BY <1>1, HistoryDefs DEF IInv, TypeOK, Bytes, Session, ReadOp
<1>5. strand' \in {"idle", "after_data", "after_error"} /\ unreported' = 0
  BY <1>3, <1>4
<1> HIDE DEF s, rest
<1>6. session' \in Session /\ SessionInv(session') /\ SameHistory(s, session')
  BY <1>2, <1>3, AfterReadKeeps, HistoryRefl
<1>7. TypeOK'
  BY <1>3, <1>5, <1>6 DEF IInv, TypeOK
<1>8. EveryByteReported'
  BY <1>2, <1>5, <1>6 DEF SameHistory, EveryByteReported, Bytes
<1>9. NothingLostWhileOpen'
  BY <1>2, <1>3, <1>6, HistoryDefs
     DEF IInv, SameHistory, NothingLostWhileOpen, Unwritten, WriteDone, Left
<1> QED BY <1>6, <1>7, <1>8, <1>9 DEF IInv

(* mark_write_finished, with the completed write taken off, leaves a session *)
(* with no write and keeps its invariant.                                    *)
LEMMA WriteFinished ==
  ASSUME NEW s \in Session, SessionInv(s), s.writes # << >>
  PROVE  LET t == mark_write_finished([s EXCEPT !.writes = Tail(s.writes)])
         IN  /\ t \in Session
             /\ SessionInv(t)
             /\ Bytes(t) = Bytes(s)
             /\ t.closed = s.closed
             /\ t.write_queue = s.write_queue
             /\ t.writes = << >>
<1> DEFINE w == Tail(s.writes)
           t == [[s EXCEPT !.writes = w] EXCEPT !.write_in_progress = FALSE]
<1>1. w \in Seq(WriteOp) /\ w = << >>
  <2>1. s.writes \in Seq(WriteOp) /\ Len(s.writes) = 1
    BY DEF Session, SessionInv, FlagsInv
  <2>2. w \in Seq(WriteOp) /\ Len(w) = 0
    BY <2>1, HeadTailProperties
  <2> QED BY <2>2, EmptySeq
<1>2. /\ t \in Session
      /\ t.writes = w
      /\ ~t.write_in_progress
      /\ t.closed = s.closed
      /\ t.write_queue = s.write_queue
      /\ t.read_pause_for_write = s.read_pause_for_write
      /\ t.closing = s.closing
      /\ t.is_open = s.is_open
      /\ SameRead(s, t)
  <2> HIDE DEF w
  <2> QED BY <1>1 DEF Session, SameRead
<1> HIDE DEF t, w
<1>3. SessionInv(t) /\ Bytes(t) = Bytes(s)
  BY <1>1, <1>2 DEF SessionInv, FlagsInv, PortInv, SameRead, Bytes
<1> QED BY <1>1, <1>2, <1>3 DEF t, w, mark_write_finished

(* consume_write keeps the session's invariant when no write is outstanding. *)
LEMMA ConsumeEffect ==
  ASSUME NEW s \in Session, SessionInv(s), s.writes = << >>
  PROVE  /\ consume_write(s) \in Session
         /\ SessionInv(consume_write(s))
         /\ Bytes(consume_write(s)) = Bytes(s)
         /\ consume_write(s).closed = s.closed
         /\ s.write_queue # << >> => Left(consume_write(s)) = Tail(s.write_queue)
<1> DEFINE q == Tail(s.write_queue)
           t == [s EXCEPT !.write_queue = q]
<1>1. CASE s.write_queue = << >>
  BY <1>1 DEF consume_write, has_pending_writes
<1>2. CASE s.write_queue # << >>
  <2>1. q \in Seq(Message) /\ ~s.closed
    BY <1>2, HeadTailProperties DEF Session, SessionInv, FlagsInv
  <2>2. /\ t \in Session
        /\ t.write_queue = q
        /\ t.closed = s.closed
        /\ t.read_pause_for_write = s.read_pause_for_write
        /\ t.closing = s.closing
        /\ t.is_open = s.is_open
        /\ SameRead(s, t)
        /\ SameWrite(s, t)
    <3> HIDE DEF q
    <3> QED BY <2>1 DEF Session, SameRead, SameWrite
  <2> HIDE DEF t, q
  <2>3. SessionInv(t) /\ Bytes(t) = Bytes(s) /\ Left(t) = q
    BY <2>1, <2>2
       DEF SessionInv, FlagsInv, PortInv, SameRead, SameWrite, Bytes, Left
  <2>4. consume_write(s) = t
    BY <1>2 DEF consume_write, has_pending_writes, t, q
  <2> QED BY <2>2, <2>3, <2>4 DEF q
<1> QED BY <1>1, <1>2

(* The invariant under the write completion: after a write that succeeded    *)
(* the queue is popped, so the message that went out is exactly the one that *)
(* leaves the queue.                                                         *)
LEMMA OnWriteStep ==
  ASSUME IInv, OnWrite
  PROVE  IInv'
<1> DEFINE s == mark_write_finished(
                  [session EXCEPT !.writes = Tail(session.writes)])
<1>1. session \in Session /\ SessionInv(session) /\ session.writes # << >>
  BY DEF IInv, TypeOK, OnWrite
<1>2. /\ s \in Session /\ SessionInv(s)
      /\ Bytes(s) = Bytes(session) /\ s.closed = session.closed
      /\ s.write_queue = session.write_queue /\ s.writes = << >>
  BY <1>1, WriteFinished
<1>3. /\ session' = IF Head(session.writes).status = "done"
                    THEN Schedule(consume_write(s)) ELSE CloseSession(s)
      /\ UNCHANGED <<strand, accepted, wire, unreported>>
  BY DEF OnWrite
<1> HIDE DEF s
<1>4. CASE Head(session.writes).status = "done"
  <2> DEFINE c == consume_write(s)
  <2>1. /\ c \in Session /\ SessionInv(c)
        /\ Bytes(c) = Bytes(s) /\ c.closed = s.closed
        /\ s.write_queue # << >> => Left(c) = Tail(s.write_queue)
    BY <1>2, ConsumeEffect
  <2>2. ~session.closed => session.write_queue # << >>
    BY <1>1, HeadTailProperties DEF SessionInv, PortInv, Session
  <2>3. SameHistory(session, c)
    BY <1>1, <1>2, <1>4, <2>1, <2>2 DEF SameHistory, Left
  <2> HIDE DEF c
  <2>4. session' = Schedule(c)
    BY <1>3, <1>4 DEF c
  <2>5. /\ session' \in Session /\ SessionInv(session')
        /\ SameHistory(session, session')
    BY <2>1, <2>3, <2>4, ScheduleKeeps, HistoryTrans
  <2> QED BY <1>3, <2>5, QuietStep DEF IInv, TypeOK
<1>5. CASE Head(session.writes).status # "done"
  <2>1. SameHistory(session, s)
    BY <1>2, <1>5 DEF SameHistory, Left
  <2>2. /\ session' \in Session /\ SessionInv(session')
        /\ SameHistory(session, session')
    BY <1>2, <1>3, <1>5, <2>1, CloseEffect, CloseHistory, HistoryTrans
  <2> QED BY <1>3, <2>2, QuietStep DEF IInv, TypeOK
<1> QED BY <1>4, <1>5

(* The port's completion of a read keeps the session's invariant. *)
LEMMA ReadCompleted ==
  ASSUME NEW s \in Session, SessionInv(s), s.reads # << >>,
         NEW op \in ReadOp, op.status # "pending",
         op.status # "done" => op.bytes = 0
  PROVE  LET t == [s EXCEPT !.reads = << op >> \o Tail(s.reads)]
         IN  /\ t \in Session
             /\ SessionInv(t)
             /\ Bytes(t) = op.bytes
             /\ Left(t) = Left(s)
             /\ t.closed = s.closed
<1> DEFINE r == << op >> \o Tail(s.reads)
           t == [s EXCEPT !.reads = r]
<1>1. r = << op >> /\ r \in Seq(ReadOp)
  <2>1. s.reads \in Seq(ReadOp) /\ Len(s.reads) = 1
    BY DEF Session, SessionInv, FlagsInv
  <2>2. Tail(s.reads) \in Seq(ReadOp) /\ Len(Tail(s.reads)) = 0
    BY <2>1, HeadTailProperties
  <2>3. Tail(s.reads) = << >>
    BY <2>2, EmptySeq
  <2>4. << op >> \in Seq(ReadOp)
    OBVIOUS
  <2> QED BY <2>3, <2>4, ConcatEmptySeq
<1>2. /\ t \in Session
      /\ t.reads = r
      /\ t.read_in_progress = s.read_in_progress
      /\ t.closed = s.closed
      /\ t.write_queue = s.write_queue
      /\ t.read_pause_for_write = s.read_pause_for_write
      /\ t.closing = s.closing
      /\ t.is_open = s.is_open
      /\ SameWrite(s, t)
  <2> HIDE DEF r
  <2> QED BY <1>1 DEF Session, SameWrite
<1> HIDE DEF t, r
<1>3. SessionInv(t)
  <2>1. s.read_in_progress /\ Len(r) = 1 /\ \A i \in DOMAIN r : r[i] = op
    BY <1>1 DEF Session, SessionInv, FlagsInv
  <2> QED BY <1>2, <2>1 DEF SessionInv, FlagsInv, PortInv, SameWrite
<1>4. Bytes(t) = op.bytes /\ Left(t) = Left(s)
  BY <1>1, <1>2 DEF Bytes, Left, SameWrite
<1> QED BY <1>2, <1>3, <1>4 DEF t, r

(* The port's completion of a write keeps the session's invariant. *)
LEMMA WriteCompleted ==
  ASSUME NEW s \in Session, SessionInv(s), s.writes # << >>,
         NEW op \in WriteOp, op.status # "pending",
         op.message = Head(s.writes).message
  PROVE  LET t == [s EXCEPT !.writes = << op >> \o Tail(s.writes)]
         IN  /\ t \in Session
             /\ SessionInv(t)
             /\ Bytes(t) = Bytes(s)
             /\ t.closed = s.closed
             /\ t.write_queue = s.write_queue
             /\ t.writes = << op >>
<1> DEFINE w == << op >> \o Tail(s.writes)
           t == [s EXCEPT !.writes = w]
<1>1. w = << op >> /\ w \in Seq(WriteOp)
  <2>1. s.writes \in Seq(WriteOp) /\ Len(s.writes) = 1
    BY DEF Session, SessionInv, FlagsInv
  <2>2. Tail(s.writes) \in Seq(WriteOp) /\ Len(Tail(s.writes)) = 0
    BY <2>1, HeadTailProperties
  <2>3. Tail(s.writes) = << >>
    BY <2>2, EmptySeq
  <2>4. << op >> \in Seq(WriteOp)
    OBVIOUS
  <2> QED BY <2>3, <2>4, ConcatEmptySeq
<1>2. /\ t \in Session
      /\ t.writes = w
      /\ t.write_in_progress = s.write_in_progress
      /\ t.closed = s.closed
      /\ t.write_queue = s.write_queue
      /\ t.read_pause_for_write = s.read_pause_for_write
      /\ t.closing = s.closing
      /\ t.is_open = s.is_open
      /\ SameRead(s, t)
  <2> HIDE DEF w
  <2> QED BY <1>1 DEF Session, SameRead
<1> HIDE DEF t, w
<1>3. SessionInv(t)
  <2>1. /\ s.write_in_progress /\ Len(w) = 1 /\ \A i \in DOMAIN w : w[i] = op
        /\ Head(s.writes) = s.writes[1] /\ 1 \in DOMAIN s.writes
    BY <1>1 DEF Session, SessionInv, FlagsInv
  <2> QED BY <1>2, <2>1 DEF SessionInv, FlagsInv, PortInv, SameRead
<1>4. Bytes(t) = Bytes(s)
  BY <1>2 DEF Bytes, SameRead
<1> QED BY <1>1, <1>2, <1>3, <1>4 DEF t, w

(* The invariant when the port reads bytes. *)
LEMMA PortReadsStep ==
  ASSUME IInv, PortReads
  PROVE  IInv'
<1>1. PICK n \in 1 .. Head(session.reads).room :
        /\ session' = [session EXCEPT !.reads =
             << [Head(@) EXCEPT !.status = "done", !.bytes = n] >> \o Tail(@)]
        /\ unreported' = unreported + n
  BY DEF PortReads
<1> DEFINE op == [Head(session.reads) EXCEPT !.status = "done", !.bytes = n]
<1>2. /\ session \in Session /\ SessionInv(session) /\ session.reads # << >>
      /\ Head(session.reads) \in ReadOp
      /\ Head(session.reads).status = "pending"
      /\ UNCHANGED <<strand, accepted, wire>>
  BY HeadTailProperties DEF IInv, TypeOK, PortReads, ReadPending, Session
<1>3. op \in ReadOp /\ op.status = "done" /\ op.bytes = n
  <2>1. n \in Nat
    BY <1>2 DEF ReadOp
  <2> QED BY <1>2, <2>1 DEF ReadOp, Status
<1> HIDE DEF op
<1>4. unreported = 0
  <2>1. Head(session.reads).bytes = 0
    BY <1>2 DEF SessionInv, FlagsInv, Session
  <2> QED BY <1>2, <2>1, HistoryDefs DEF IInv, Bytes
<1>5. /\ session' \in Session /\ SessionInv(session')
      /\ Bytes(session') = n /\ Left(session') = Left(session)
      /\ session'.closed = session.closed
  BY <1>1, <1>2, <1>3, ReadCompleted DEF op
<1>6. TypeOK'
  BY <1>1, <1>2, <1>5 DEF IInv, TypeOK
<1>7. EveryByteReported'
  BY <1>1, <1>4, <1>5 DEF EveryByteReported, Bytes
<1>8. NothingLostWhileOpen'
  BY <1>2, <1>5, HistoryDefs
     DEF IInv, NothingLostWhileOpen, Unwritten, WriteDone, Left
<1> QED BY <1>5, <1>6, <1>7, <1>8 DEF IInv

(* The invariant when a read fails. *)
LEMMA PortReadFailsStep ==
  ASSUME IInv, PortReadFails
  PROVE  IInv'
<1> DEFINE op == [Head(session.reads) EXCEPT !.status = "failed"]
<1>2. /\ session \in Session /\ SessionInv(session) /\ session.reads # << >>
      /\ Head(session.reads) \in ReadOp
      /\ Head(session.reads).status = "pending"
      /\ UNCHANGED <<strand, accepted, wire, unreported>>
  BY HeadTailProperties DEF IInv, TypeOK, PortReadFails, ReadPending, Session
<1>1. Head(session.reads).bytes = 0
  BY <1>2 DEF SessionInv, FlagsInv, Session
<1>3. op \in ReadOp /\ op.status = "failed" /\ op.bytes = 0
  BY <1>1, <1>2 DEF ReadOp, Status
<1> HIDE DEF op
<1>4. session' = [session EXCEPT !.reads = << op >> \o Tail(session.reads)]
  BY DEF PortReadFails, op
<1>5. /\ session' \in Session /\ SessionInv(session')
      /\ Bytes(session') = 0 /\ Left(session') = Left(session)
      /\ session'.closed = session.closed
  BY <1>2, <1>3, <1>4, ReadCompleted
<1>6. SameHistory(session, session')
  BY <1>1, <1>2, <1>5 DEF SameHistory, Bytes
<1> QED BY <1>2, <1>5, <1>6, QuietStep DEF IInv, TypeOK

(* The invariant when a write fails. *)
LEMMA PortWriteFailsStep ==
  ASSUME IInv, PortWriteFails
  PROVE  IInv'
<1> DEFINE op == [Head(session.writes) EXCEPT !.status = "failed"]
<1>2. /\ session \in Session /\ SessionInv(session) /\ session.writes # << >>
      /\ Head(session.writes) \in WriteOp
      /\ Head(session.writes).status = "pending"
      /\ UNCHANGED <<strand, accepted, wire, unreported>>
  BY HeadTailProperties DEF IInv, TypeOK, PortWriteFails, WritePending, Session
<1>3. /\ op \in WriteOp /\ op.status = "failed"
      /\ op.message = Head(session.writes).message
  BY <1>2 DEF WriteOp, Status
<1> HIDE DEF op
<1>4. session' = [session EXCEPT !.writes = << op >> \o Tail(session.writes)]
  BY DEF PortWriteFails, op
<1>5. /\ session' \in Session /\ SessionInv(session')
      /\ Bytes(session') = Bytes(session)
      /\ session'.closed = session.closed
      /\ session'.write_queue = session.write_queue
      /\ session'.writes = << op >>
  BY <1>2, <1>3, <1>4, WriteCompleted
<1>6. SameHistory(session, session')
  BY <1>2, <1>3, <1>5 DEF SameHistory, Left
<1> QED BY <1>2, <1>5, <1>6, QuietStep DEF IInv, TypeOK

(* When a write completes, what went out is the front of the queue, unless   *)
(* the session was closed and the message freed under the operation.         *)
LEMMA PortWritesEffect ==
  ASSUME IInv, PortWrites
  PROVE  /\ session' \in Session /\ SessionInv(session')
         /\ Bytes(session') = Bytes(session)
         /\ session'.closed = session.closed
         /\ UNCHANGED <<strand, accepted, unreported>>
         /\ wire' = Append(wire, Referenced(Head(session.writes)))
         /\ Referenced(Head(session.writes)) \in Message \cup {Freed}
         /\ ~session.closed =>
              /\ session.write_queue # << >>
              /\ Left(session) = session.write_queue
              /\ Left(session') = Tail(session.write_queue)
              /\ Referenced(Head(session.writes)) = Head(session.write_queue)
<1> DEFINE op == [Head(session.writes) EXCEPT !.status = "done"]
<1>2. /\ session \in Session /\ SessionInv(session) /\ session.writes # << >>
      /\ Head(session.writes) \in WriteOp
      /\ Head(session.writes).status = "pending"
      /\ UNCHANGED <<strand, accepted, unreported>>
      /\ wire' = Append(wire, Referenced(Head(session.writes)))
  BY HeadTailProperties DEF IInv, TypeOK, PortWrites, WritePending, Session
<1>3. /\ op \in WriteOp /\ op.status = "done"
      /\ op.message = Head(session.writes).message
  BY <1>2 DEF WriteOp, Status
<1> HIDE DEF op
<1>4. session' = [session EXCEPT !.writes = << op >> \o Tail(session.writes)]
  BY DEF PortWrites, op
<1>5. /\ session' \in Session /\ SessionInv(session')
      /\ Bytes(session') = Bytes(session)
      /\ session'.closed = session.closed
      /\ session'.write_queue = session.write_queue
      /\ session'.writes = << op >>
  BY <1>2, <1>3, <1>4, WriteCompleted
<1>6. Referenced(Head(session.writes)) \in Message \cup {Freed}
  BY <1>2 DEF Referenced, WriteOp
<1>7. ASSUME ~session.closed
      PROVE  /\ session.write_queue # << >>
             /\ Left(session) = session.write_queue
             /\ Left(session') = Tail(session.write_queue)
             /\ Referenced(Head(session.writes)) = Head(session.write_queue)
  <2>1. /\ session.write_queue # << >>
        /\ Head(session.write_queue) = Head(session.writes).message
    BY <1>2, <1>7 DEF SessionInv, PortInv, Session
  <2> QED
    BY <1>2, <1>3, <1>5, <2>1
       DEF Left, Referenced, has_pending_writes, current_write
<1> QED BY <1>2, <1>5, <1>6, <1>7

(* The invariant when the port writes a message. *)
LEMMA PortWritesStep ==
  ASSUME IInv, PortWrites
  PROVE  IInv'
<1>1. /\ wire \in Seq(Message \cup {Freed})
      /\ wire' \in Seq(Message \cup {Freed})
      /\ session.write_queue \in Seq(Message \cup {Freed})
  <2>1. wire \in Seq(Message \cup {Freed}) /\ session.write_queue \in Seq(Message)
    BY DEF IInv, TypeOK, Session
  <2> QED BY <2>1, PortWritesEffect, AppendProperties, SeqMonotonic
<1>2. TypeOK'
  BY <1>1, PortWritesEffect DEF IInv, TypeOK
<1>3. EveryByteReported'
  BY PortWritesEffect, HistoryDefs DEF IInv, EveryByteReported, Bytes
<1>4. NothingLostWhileOpen'
  <2>1. ASSUME ~session.closed PROVE accepted' = wire' \o Left(session')
    <3>1. accepted = wire \o session.write_queue
      BY <2>1, PortWritesEffect, HistoryDefs DEF IInv
    <3>2. wire' = Append(wire, Head(session.write_queue))
      BY <2>1, PortWritesEffect
    <3> QED BY <1>1, <2>1, <3>1, <3>2, PortWritesEffect, ConcatHeadTail
  <2> QED
    BY <2>1, PortWritesEffect
       DEF NothingLostWhileOpen, Unwritten, WriteDone, Left
<1> QED BY <1>2, <1>3, <1>4, PortWritesEffect DEF IInv
-----------------------------------------------------------------------------
(* A session that create() hands out satisfies the invariant. *)
LEMMA InitInv == Init => IInv
<1> SUFFICES ASSUME Init PROVE IInv
  OBVIOUS
<1>1. PICK config \in Config :
        session = open(NewSession, config, TRUE) /\ session.is_open
  BY DEF Init
<1>2. config.read_buffer_size # 0
  BY <1>1 DEF open, NewSession
<1>3. config.duplex_mode \in DuplexMode /\ config.read_buffer_size \in Nat
  BY ConfigType
<1>4. session = [NewSession EXCEPT !.is_open = TRUE,
                   !.duplex_mode = config.duplex_mode,
                   !.read_buffer = config.read_buffer_size]
  BY <1>1, <1>2 DEF open, apply_config, NewSession
<1>5. /\ session \in Session
      /\ session.reads = << >> /\ session.writes = << >>
      /\ session.write_queue = << >>
      /\ ~session.read_in_progress /\ ~session.write_in_progress
      /\ ~session.read_pause_for_write /\ ~session.closed /\ ~session.closing
  <2>1. /\ << >> \in Seq(Message)
        /\ << >> \in Seq(ReadOp) /\ << >> \in Seq(WriteOp)
        /\ default_read_buffer_size \in Nat
    BY EmptySeq DEF default_read_buffer_size
  <2>2. NewSession \in Session
    BY <2>1 DEF NewSession, Session, DuplexMode
  <2>3. session \in Session
    BY <1>3, <1>4, <2>2 DEF Session
  <2> QED BY <1>4, <2>3 DEF NewSession
<1>6. SessionInv(session)
  <2>1. /\ Len(session.reads) = 0 /\ Len(session.writes) = 0
        /\ DOMAIN session.reads = {} /\ DOMAIN session.writes = {}
    BY <1>5, EmptySeq
  <2> QED BY <1>1, <1>5, <2>1 DEF SessionInv, FlagsInv, PortInv
<1>7. TypeOK
  BY <1>5, EmptySeq DEF Init, TypeOK
<1>8. EveryByteReported /\ NothingLostWhileOpen
  BY <1>5, ConcatEmptySeq, EmptySeq
     DEF Init, EveryByteReported, NothingLostWhileOpen, Unwritten, WriteDone
<1> QED BY <1>6, <1>7, <1>8 DEF IInv

(* Every step keeps the invariant. *)
LEMMA NextInv == IInv /\ [Next]_vars => IInv'
<1> SUFFICES ASSUME IInv, [Next]_vars PROVE IInv'
  OBVIOUS
<1>1. CASE User
  <2>1. CASE \E set \in BOOLEAN : SetReadHandler(set)
    BY <2>1, SetReadHandlerStep
  <2>2. CASE StartReading
    BY <2>2, StartReadingStep
  <2>3. CASE StopReading
    BY <2>3, StopReadingStep
  <2>4. CASE \E m \in Message : Send(m)
    BY <2>4, SendStep
  <2>5. CASE Close
    BY <2>5, CloseStep
  <2>6. CASE \E mode \in Mode : SetDuplexMode(mode)
    BY <2>6, SetDuplexModeStep
  <2>7. CASE \E size \in BufferSize \cup {0} : SetReadBufferSize(size)
    BY <2>7, SetReadBufferSizeStep
  <2>8. CASE \E config \in Config, succeeds \in BOOLEAN : Open(config, succeeds)
    BY <2>8, OpenStep
  <2>9. CASE \E config \in Config, succeeds \in BOOLEAN :
               ApplyConfig(config, succeeds)
    BY <2>9, ApplyConfigStep
  <2> QED
    BY <1>1, <2>1, <2>2, <2>3, <2>4, <2>5, <2>6, <2>7, <2>8, <2>9
       DEF User
<1>2. CASE Completion
  <2>1. CASE OnRead
    BY <2>1, OnReadStep
  <2>2. CASE ReadHandlerReturns
    BY <2>2, ReadHandlerReturnsStep
  <2>3. CASE OnWrite
    BY <2>3, OnWriteStep
  <2>4. CASE CloseTransport
    BY <2>4, CloseTransportStep
  <2> QED BY <1>2, <2>1, <2>2, <2>3, <2>4 DEF Completion
<1>3. CASE Port
  <2>1. CASE PortReads
    BY <2>1, PortReadsStep
  <2>2. CASE PortReadFails
    BY <2>2, PortReadFailsStep
  <2>3. CASE PortWrites
    BY <2>3, PortWritesStep
  <2>4. CASE PortWriteFails
    BY <2>4, PortWriteFailsStep
  <2> QED BY <1>3, <2>1, <2>2, <2>3, <2>4 DEF Port
<1>4. CASE UNCHANGED vars
  BY <1>4, QuietStep, HistoryRefl DEF vars, IInv, TypeOK
<1> QED BY <1>1, <1>2, <1>3, <1>4 DEF Next

(* The invariant holds in every reachable state. *)
LEMMA SpecInv == Spec => []IInv
BY InitInv, NextInv, PTL DEF Spec
-----------------------------------------------------------------------------
(* PART 3.  The first theorems follow from IInv at once.  The others are   *)
(* about steps, and rest on one observation, StepForm: whatever a step of  *)
(* the session is, it prepares some session t and then rests there,        *)
(* schedules, or closes.                                                   *)

(* Nothing that could be started has been left. *)
NoStart(s) == ~can_start_read(s) /\ ~can_start_write(s)

(* The properties of the read buffer and the port, of a session s. *)
Fits(s) == \A i \in DOMAIN s.reads :
  s.reads[i].room = s.read_buffer /\ s.reads[i].bytes <= s.read_buffer

PortLeft(s) == s.closed => ~s.is_open \/ s.closing

(* No more is in progress in t than in s. *)
Fewer(s, t) ==
  /\ t.closed = s.closed
  /\ t.read_in_progress  => s.read_in_progress
  /\ t.write_in_progress => s.write_in_progress

(* What a step does to the session before it schedules or closes, if it does. *)
Prepared(t) ==
  /\ t \in Session
  /\ SessionInv(t)
  /\ Fewer(session, t)
  /\ LiveConfig \/ Reopens \/ (Fits(session) => Fits(t))
  /\ Reopens \/ (PortLeft(session) => PortLeft(t))

(* A step that neither schedules nor closes must have left nothing to start. *)
Rested(t) ==
  /\ session' = t
  /\ \/ strand' # "idle"
     \/ LiveConfig
     \/ strand' = strand /\ (NoStart(session) => NoStart(t))

(* Every step has this form: it changes some fields and then rests,          *)
(* schedules or closes.                                                      *)
StepForm ==
  \E t : /\ Prepared(t)
         /\ \/ Rested(t)
            \/ session' = Schedule(t)
            \/ session' = CloseSession(t)

(* The fields the properties below look at. *)
Alike(s, t) ==
  /\ t.closed = s.closed
  /\ t.read_in_progress = s.read_in_progress
  /\ t.write_in_progress = s.write_in_progress
  /\ t.reads = s.reads /\ t.read_buffer = s.read_buffer
  /\ t.is_open = s.is_open /\ t.closing = s.closing

(* A change of other fields is a preparation. *)
LEMMA AlikePrepared ==
  ASSUME IInv, NEW t \in Session, SessionInv(t), Alike(session, t)
  PROVE  Prepared(t)
BY DEF Prepared, Alike, Fewer, Fits, PortLeft

(* set_read_handler, stop_reading and set_read_buffer_size schedule nothing, *)
(* and need not: they enable nothing.                                        *)
LEMMA QuietCallForm ==
  ASSUME IInv, \/ \E set \in BOOLEAN : SetReadHandler(set)
               \/ StopReading
               \/ \E size \in BufferSize \cup {0} : SetReadBufferSize(size)
  PROVE  StepForm
<1>1. session \in Session /\ SessionInv(session)
  BY DEF IInv, TypeOK
<1>2. CASE \E set \in BOOLEAN : SetReadHandler(set)
  <2>1. PICK set \in BOOLEAN : SetReadHandler(set)
    BY <1>2
  <2>2. Tweaked(session, session') /\ Alike(session, session') /\ strand' = strand
    BY <1>1, <2>1
       DEF SetReadHandler, set_read_handler, Tweaked, Alike, Session,
           SameRead, SameWrite
  <2>3. NoStart(session) => NoStart(session')
    BY <1>1, <2>1 DEF SetReadHandler, set_read_handler, Session, NoStart,
       can_start_read, can_start_write, has_pending_writes
  <2> QED
    BY <1>1, <2>2, <2>3, TweakedKeeps, AlikePrepared
       DEF StepForm, Rested, Tweaked
<1>3. CASE StopReading
  <2>2. Tweaked(session, session') /\ Alike(session, session') /\ strand' = strand
    BY <1>1, <1>3
       DEF StopReading, stop_reading, Tweaked, Alike, Session, SameRead,
           SameWrite
  <2>3. NoStart(session) => NoStart(session')
    BY <1>1, <1>3 DEF StopReading, stop_reading, Session, NoStart,
       can_start_read, can_start_write, has_pending_writes
  <2> QED
    BY <1>1, <2>2, <2>3, TweakedKeeps, AlikePrepared
       DEF StepForm, Rested, Tweaked
<1>4. CASE \E size \in BufferSize \cup {0} : SetReadBufferSize(size)
  <2>1. PICK size \in BufferSize \cup {0} : SetReadBufferSize(size)
    BY <1>4
  <2>2. Tweaked(session, session') /\ strand' = strand
    BY <1>1, <2>1, SerialAssumption
       DEF SetReadBufferSize, set_read_buffer_size, Tweaked, Session, SameRead,
           SameWrite
  <2>3. NoStart(session) => NoStart(session')
    BY <1>1, <2>1
       DEF SetReadBufferSize, set_read_buffer_size, Session, NoStart,
       can_start_read, can_start_write, has_pending_writes
  <2>4. /\ session.read_in_progress => session'.read_buffer = session.read_buffer
        /\ session'.is_open = session.is_open
    BY <1>1, <2>1 DEF SetReadBufferSize, set_read_buffer_size, Session
  <2>5. ~session.read_in_progress => DOMAIN session.reads = {}
    BY <1>1 DEF SessionInv, FlagsInv, Session
  <2>6. Prepared(session')
    BY <1>1, <2>2, <2>4, <2>5, TweakedKeeps
       DEF Prepared, Tweaked, Fewer, SameRead, SameWrite, Fits, PortLeft
  <2> QED BY <2>2, <2>3, <2>6 DEF StepForm, Rested
<1> QED BY <1>2, <1>3, <1>4

(* start_reading, set_duplex_mode, enqueue_write and close() end in a call   *)
(* of schedule_operations or of close.                                       *)
LEMMA SchedulingCallForm ==
  ASSUME IInv, \/ StartReading
               \/ \E mode \in Mode : SetDuplexMode(mode)
               \/ \E m \in Message : Send(m)
               \/ Close
  PROVE  StepForm
<1>1. session \in Session /\ SessionInv(session)
  BY DEF IInv, TypeOK
<1>2. Prepared(session)
  BY <1>1, AlikePrepared DEF Alike
<1>3. CASE StartReading
  <2> DEFINE t == [session EXCEPT !.read_enabled = TRUE]
  <2>1. session' = IF session.closed THEN session ELSE Schedule(t)
    BY <1>3 DEF StartReading, Core!start_reading, Schedule
  <2>2. Tweaked(session, t) /\ Alike(session, t)
    BY <1>1 DEF Tweaked, Alike, Session, SameRead, SameWrite
  <2> HIDE DEF t
  <2>3. Prepared(t)
    BY <1>1, <2>2, TweakedKeeps, AlikePrepared DEF Tweaked
  <2> QED BY <1>2, <1>3, <2>1, <2>3 DEF StepForm, Rested, StartReading
<1>4. CASE \E mode \in Mode : SetDuplexMode(mode)
  <2>1. PICK mode \in Mode : SetDuplexMode(mode)
    BY <1>4
  <2> DEFINE t == [session EXCEPT !.duplex_mode = mode]
  <2>2. session' = Schedule(t)
    BY <2>1 DEF SetDuplexMode, set_duplex_mode
  <2>3. Tweaked(session, t) /\ Alike(session, t)
    BY <1>1, SerialAssumption
       DEF Tweaked, Alike, Session, SameRead, SameWrite, DuplexMode
  <2> HIDE DEF t
  <2>4. Prepared(t)
    BY <1>1, <2>3, TweakedKeeps, AlikePrepared DEF Tweaked
  <2> QED BY <2>2, <2>4 DEF StepForm
<1>5. CASE \E m \in Message : Send(m)
  <2>1. PICK m \in Message : Send(m)
    BY <1>5
  <2> DEFINE t == [session EXCEPT !.write_queue = Append(session.write_queue, m)]
  <2>2. session' = IF session.closed THEN session ELSE Schedule(t)
    BY <2>1 DEF Send, Core!enqueue_write, Schedule
  <2>3. ~session.closed => t \in Session /\ SessionInv(t)
    BY <1>1, EnqueueEffect
  <2>4. Alike(session, t)
    BY <1>1 DEF Alike, Session
  <2> HIDE DEF t
  <2>5. ~session.closed => Prepared(t)
    BY <2>3, <2>4, AlikePrepared
  <2> QED BY <1>2, <2>1, <2>2, <2>5 DEF StepForm, Rested, Send
<1>6. CASE Close
  BY <1>2, <1>6 DEF StepForm, Close
<1> QED BY <1>3, <1>4, <1>5, <1>6

(* open() and apply_config, which bypass the strand. An open() that finds    *)
(* the port closed finds the session closed, so it makes nothing startable.  *)
LEMMA OffStrandForm ==
  ASSUME IInv, \/ \E config \in Config, succeeds \in BOOLEAN :
                    Open(config, succeeds)
               \/ \E config \in Config, succeeds \in BOOLEAN :
                    ApplyConfig(config, succeeds)
  PROVE  StepForm
<1>1. session \in Session /\ SessionInv(session)
  BY DEF IInv, TypeOK
<1>2. CASE \E config \in Config, succeeds \in BOOLEAN : Open(config, succeeds)
  <2>1. PICK config \in Config, succeeds \in BOOLEAN : Open(config, succeeds)
    BY <1>2
  <2>2. Tweaked(session, session') /\ Reopens /\ strand' = strand
    BY <1>1, <2>1, OpenEffect DEF Open
  <2>3. Prepared(session')
    BY <1>1, <2>2, TweakedKeeps
       DEF Prepared, Tweaked, Fewer, SameRead, SameWrite
  <2>4. NoStart(session) => NoStart(session')
    <3>1. CASE session.closed
      BY <2>2, <3>1 DEF Tweaked, NoStart, can_start_read, can_start_write
    <3>2. CASE ~session.closed
      <4>1. session.is_open
        BY <1>1, <3>2 DEF SessionInv, PortInv
      <4> QED BY <2>1, <4>1 DEF Open, open
    <3> QED BY <3>1, <3>2
  <2> QED BY <2>2, <2>3, <2>4 DEF StepForm, Rested
<1>3. CASE \E config \in Config, succeeds \in BOOLEAN :
             ApplyConfig(config, succeeds)
  <2>1. PICK config \in Config, succeeds \in BOOLEAN :
          ApplyConfig(config, succeeds)
    BY <1>3
  <2>2. Tweaked(session, session') /\ LiveConfig
    BY <1>1, <2>1, ApplyConfigEffect DEF ApplyConfig
  <2>3. session'.is_open = session.is_open
    BY <1>1, <2>1 DEF ApplyConfig, apply_config, Session
  <2>4. Prepared(session')
    BY <1>1, <2>2, <2>3, TweakedKeeps
       DEF Prepared, Tweaked, Fewer, SameRead, SameWrite, PortLeft
  <2> QED BY <2>2, <2>4 DEF StepForm, Rested
<1> QED BY <1>2, <1>3

(* The completion handlers and the rest of a read completion. *)
LEMMA CompletionForm ==
  ASSUME IInv, Completion
  PROVE  StepForm
<1>1. session \in Session /\ SessionInv(session)
  BY DEF IInv, TypeOK
<1>2. Prepared(session)
  BY <1>1, AlikePrepared DEF Alike
<1>3. CASE OnRead
  <2> DEFINE op   == Head(session.reads)
             r    == Tail(session.reads)
             s    == mark_read_finished([session EXCEPT !.reads = r])
             rest == IF op.status = "done" THEN "after_data" ELSE "after_error"
  <2>1. /\ s \in Session /\ SessionInv(s) /\ s.closed = session.closed
        /\ ~s.read_pause_for_write /\ s.reads = << >>
    BY <1>1, <1>3, ReadFinished DEF OnRead
  <2>2. /\ session' = IF s.read_handler THEN s ELSE AfterRead(s, rest)
        /\ strand' = IF s.read_handler THEN rest ELSE "idle"
    BY <1>3, <2>1 DEF OnRead
  <2>3. rest # "idle"
    OBVIOUS
  <2>4. /\ s.write_in_progress = session.write_in_progress
        /\ s.is_open = session.is_open /\ s.closing = session.closing
    <3> HIDE DEF r
    <3> QED BY <1>1 DEF mark_read_finished, Session
  <2> HIDE DEF s, rest
  <2>5. Prepared(s)
    <3>1. ~s.read_in_progress /\ DOMAIN s.reads = {}
      BY <2>1, EmptySeq DEF SessionInv, FlagsInv
    <3> QED BY <2>1, <2>4, <3>1 DEF Prepared, Fewer, Fits, PortLeft
  <2> QED BY <2>2, <2>3, <2>5 DEF StepForm, Rested, AfterRead
<1>4. CASE ReadHandlerReturns
  BY <1>2, <1>4 DEF StepForm, ReadHandlerReturns, AfterRead
<1>5. CASE OnWrite
  <2> DEFINE w == Tail(session.writes)
             s == mark_write_finished([session EXCEPT !.writes = w])
             c == consume_write(s)
  <2>1. /\ s \in Session /\ SessionInv(s) /\ s.closed = session.closed
        /\ s.writes = << >> /\ s.write_queue = session.write_queue
    BY <1>1, <1>5, WriteFinished DEF OnWrite
  <2>2. session' = Schedule(c) \/ session' = CloseSession(s)
    BY <1>5 DEF OnWrite
  <2>3. /\ s.read_in_progress = session.read_in_progress
        /\ s.reads = session.reads
        /\ s.read_buffer = session.read_buffer
        /\ s.is_open = session.is_open /\ s.closing = session.closing
    <3> HIDE DEF w
    <3> QED BY <1>1 DEF mark_write_finished, Session
  <2> HIDE DEF s
  <2>4. ~s.write_in_progress
    BY <2>1, EmptySeq DEF SessionInv, FlagsInv
  <2>5. Prepared(s)
    BY <2>1, <2>3, <2>4 DEF Prepared, Fewer, Fits, PortLeft
  <2>6. c \in Session /\ SessionInv(c) /\ Alike(s, c)
    <3>1. c \in Session /\ SessionInv(c)
      BY <2>1, ConsumeEffect
    <3>2. Alike(s, c)
      BY <2>1 DEF consume_write, Alike, Session
    <3> QED BY <3>1, <3>2
  <2> HIDE DEF c
  <2>7. Prepared(c)
    BY <2>5, <2>6 DEF Prepared, Alike, Fewer, Fits, PortLeft
  <2> QED BY <2>2, <2>5, <2>7 DEF StepForm
<1>6. CASE CloseTransport
  <2>1. session.closed
    BY <1>1, <1>6 DEF CloseTransport, SessionInv, PortInv
  <2>2. Released(session, session') /\ SessionInv(session') /\ strand' = strand
    BY <1>1, <1>6, <2>1, CloseTransportEffect, ReleasedKeeps
       DEF CloseTransport, SessionInv
  <2>3. session.reads \in Seq(ReadOp)
    BY <1>1 DEF Session
  <2>4. Fits(session) => Fits(session')
    BY <2>2, <2>3, AbortedReads DEF Released, Fits
  <2>5. Prepared(session')
    BY <2>2, <2>4 DEF Prepared, Released, Fewer, PortLeft
  <2>6. NoStart(session')
    BY <2>1, <2>2 DEF Released, NoStart, can_start_read, can_start_write
  <2> QED BY <2>2, <2>5, <2>6 DEF StepForm, Rested
<1> QED BY <1>3, <1>4, <1>5, <1>6 DEF Completion

(* The fields that decide what can start. *)
LEMMA SameNoStart ==
  ASSUME NEW s \in Session, NEW t, SameBut(s, t),
         t.read_in_progress = s.read_in_progress,
         t.write_in_progress = s.write_in_progress
  PROVE  NoStart(s) => NoStart(t)
BY DEF NoStart, can_start_read, can_start_write, has_pending_writes, SameBut

(* The port's own steps change only the status of an operation. *)
LEMMA PortForm ==
  ASSUME IInv, Port
  PROVE  StepForm
<1>1. session \in Session /\ SessionInv(session)
  BY DEF IInv, TypeOK
<1>2. session' \in Session /\ SessionInv(session')
  <2>1. [Next]_vars
    BY DEF Next
  <2>2. IInv'
    BY <2>1, NextInv
  <2> QED BY <2>2 DEF IInv, TypeOK
<1>3. CASE \E op :
             session' =
               [session EXCEPT !.writes = << op >> \o Tail(session.writes)]
  <2>1. PICK op :
          session' = [session EXCEPT !.writes = << op >> \o Tail(session.writes)]
    BY <1>3
  <2> DEFINE w == << op >> \o Tail(session.writes)
  <2>2. session' = [session EXCEPT !.writes = w]
    BY <2>1
  <2> HIDE DEF w
  <2>3. Alike(session, session') /\ SameBut(session, session')
    BY <1>1, <2>2 DEF Alike, SameBut, Session
  <2>4. strand' = strand
    BY DEF Port, PortReads, PortReadFails, PortWrites, PortWriteFails
  <2> QED
    BY <1>1, <1>2, <2>3, <2>4, AlikePrepared, SameNoStart
       DEF StepForm, Rested, Alike
<1>4. CASE \E op \in ReadOp :
             /\ session.reads # << >>
             /\ op.room = Head(session.reads).room
             /\ op.bytes <= op.room \/ op.bytes = Head(session.reads).bytes
             /\ session' =
                  [session EXCEPT !.reads = << op >> \o Tail(session.reads)]
  <2>1. PICK op \in ReadOp :
             /\ session.reads # << >>
             /\ op.room = Head(session.reads).room
             /\ op.bytes <= op.room \/ op.bytes = Head(session.reads).bytes
             /\ session' =
                  [session EXCEPT !.reads = << op >> \o Tail(session.reads)]
    BY <1>4
  <2> DEFINE r == << op >> \o Tail(session.reads)
  <2>2. session' = [session EXCEPT !.reads = r]
    BY <2>1
  <2>3. r = << op >>
    <3>1. session.reads \in Seq(ReadOp) /\ Len(session.reads) = 1
      BY <1>1, <2>1 DEF Session, SessionInv, FlagsInv
    <3>2. Tail(session.reads) \in Seq(ReadOp) /\ Len(Tail(session.reads)) = 0
      BY <3>1, HeadTailProperties
    <3>3. Tail(session.reads) = << >>
      BY <3>2, EmptySeq
    <3>4. << op >> \in Seq(ReadOp)
      OBVIOUS
    <3> QED BY <3>3, <3>4, ConcatEmptySeq
  <2> HIDE DEF r
  <2>4. /\ SameBut(session, session') /\ SameWrite(session, session')
        /\ session'.read_in_progress = session.read_in_progress
        /\ session'.reads = << op >>
    BY <1>1, <2>2, <2>3 DEF SameBut, SameWrite, Session
  <2>5. Fits(session) => Fits(session')
    <3>1. Fits(session) => Head(session.reads).room = session.read_buffer
                        /\ Head(session.reads).bytes <= session.read_buffer
      BY <1>1, <2>1 DEF Fits, Session
    <3>2. \A i \in DOMAIN session'.reads : session'.reads[i] = op
      BY <2>4
    <3> QED BY <2>1, <2>4, <3>1, <3>2 DEF Fits, SameBut
  <2>6. Prepared(session')
    BY <1>2, <2>4, <2>5 DEF Prepared, Fewer, SameBut, SameWrite, PortLeft
  <2>7. strand' = strand
    BY DEF Port, PortReads, PortReadFails, PortWrites, PortWriteFails
  <2> QED
    BY <1>1, <2>4, <2>6, <2>7, SameNoStart
       DEF StepForm, Rested, SameWrite
<1>5. CASE PortReads
  <2>1. PICK n \in 1 .. Head(session.reads).room : 
        session' = [session EXCEPT !.reads =
            << [Head(session.reads) EXCEPT !.status = "done", !.bytes = n] >>
              \o Tail(session.reads)]
    BY <1>5 DEF PortReads
  <2>2. session.reads # << >> /\ Head(session.reads) \in ReadOp
    BY <1>1, <1>5, HeadTailProperties DEF PortReads, ReadPending, Session
  <2>3. n \in Nat /\ n <= Head(session.reads).room
    BY <2>2 DEF ReadOp
  <2> DEFINE op == [Head(session.reads) EXCEPT !.status = "done", !.bytes = n]
  <2>4. op \in ReadOp /\ op.room = Head(session.reads).room /\ op.bytes = n
    BY <2>2, <2>3 DEF ReadOp, Status
  <2> HIDE DEF op
  <2>5. session' = [session EXCEPT !.reads = << op >> \o Tail(session.reads)]
    BY <2>1 DEF op
  <2> QED BY <1>4, <2>2, <2>3, <2>4, <2>5
<1>6. CASE PortReadFails
  <2>2. session.reads # << >> /\ Head(session.reads) \in ReadOp
    BY <1>1, <1>6, HeadTailProperties DEF PortReadFails, ReadPending, Session
  <2> DEFINE op == [Head(session.reads) EXCEPT !.status = "failed"]
  <2>4. /\ op \in ReadOp /\ op.room = Head(session.reads).room
        /\ op.bytes = Head(session.reads).bytes
    BY <2>2 DEF ReadOp, Status
  <2> HIDE DEF op
  <2>5. session' = [session EXCEPT !.reads = << op >> \o Tail(session.reads)]
    BY <1>6 DEF op, PortReadFails
  <2> QED BY <1>4, <2>2, <2>4, <2>5
<1>7. CASE PortWrites \/ PortWriteFails
  BY <1>3, <1>7 DEF PortWrites, PortWriteFails
<1> QED BY <1>5, <1>6, <1>7 DEF Port

(* Every step of the session has the form StepForm. *)
LEMMA NextForm ==
  ASSUME IInv, [Next]_vars
  PROVE  StepForm
<1>1. CASE UNCHANGED vars
  <2>1. session \in Session /\ SessionInv(session)
    BY DEF IInv, TypeOK
  <2> QED BY <1>1, <2>1, AlikePrepared DEF vars, StepForm, Rested, Alike
<1> QED
  BY <1>1, QuietCallForm, SchedulingCallForm, OffStrandForm, CompletionForm, PortForm
     DEF Next, User

(* The types of the session, its operations and the histories (the           *)
(* declarations of AsyncTransportSession and SerialSession).                 *)
THEOREM TypeCorrect == Spec => []TypeOK
<1>1. IInv => TypeOK
  BY DEF IInv
<1> QED BY <1>1, SpecInv, PTL

(* read_in_progress_ and write_in_progress_ are up exactly while one         *)
(* async_read_some, one async_write is outstanding: mark_read_started and    *)
(* mark_read_finished, and those of writes, are paired on every path.        *)
THEOREM FlagsCorrect == Spec => []FlagsMatchOperations
<1>1. IInv => FlagsMatchOperations
  BY DEF IInv, SessionInv, FlagsInv, FlagsMatchOperations
<1> QED BY <1>1, SpecInv, PTL

(* While the session is open, enqueue_write, current_write and consume_write *)
(* keep every accepted message, in order, on the wire or in the queue.       *)
THEOREM NothingLost == Spec => []NothingLostWhileOpen
<1>1. IInv => NothingLostWhileOpen
  BY DEF IInv
<1> QED BY <1>1, SpecInv, PTL

(* The read completion hands notify_read every byte async_read_some stored,  *)
(* once, whatever happens to the session before it runs.                     *)
THEOREM EveryByte == Spec => []EveryByteReported
<1>1. IInv => EveryByteReported
  BY DEF IInv
<1> QED BY <1>1, SpecInv, PTL

(* The branch of do_write that cancels a read for a write is unreachable,    *)
(* for every number of messages, sizes and modes: read_pause_for_write_      *)
(* never is set.                                                             *)
THEOREM NeverPaused == Spec => []ReadNeverPaused
<1>1. IInv => ReadNeverPaused
  BY DEF IInv, SessionInv, FlagsInv, ReadNeverPaused
<1> QED BY <1>1, SpecInv, PTL

(* With one thread running the io_context, the message an async_write reads  *)
(* from stays at the front of write_queue_ until it completes.               *)
THEOREM WriteBuffer ==
  ASSUME ~SeveralThreads
  PROVE  Spec => []WriteBufferLive
<1>1. IInv => WriteBufferLive
  BY DEF IInv, SessionInv, PortInv, WriteBufferLive, has_pending_writes,
         current_write
<1> QED BY <1>1, SpecInv, PTL

(* can_start_read and can_start_write both test closed_. *)
LEMMA ClosedCannotStart ==
  ASSUME NEW s, s.closed
  PROVE  NoStart(s)
BY DEF NoStart, can_start_read, can_start_write

(* schedule_operations does not change closed_, starts nothing on a closed   *)
(* session, and in half duplex starts nothing next to what is in progress.   *)
LEMMA ScheduleTurns ==
  ASSUME NEW s \in Session, SessionInv(s), NEW t, t = Schedule(s)
  PROVE  /\ t.closed = s.closed
         /\ s.closed => Fewer(s, t)
         /\ t.duplex_mode = "half_duplex" =>
              (t.read_in_progress /\ t.write_in_progress
                 => s.read_in_progress /\ s.write_in_progress)
<1>1. OpsStarted(s, t)
  BY ScheduleEffect DEF Scheduled
<1> QED
  BY <1>1
     DEF OpsStarted, ReadStarted, WriteStarted, SameBut, SameRead, SameWrite,
         Fewer,
     can_start_read, can_start_write

(* close() starts nothing, keeps the buffer and gives the port up. *)
LEMMA CloseFlags ==
  ASSUME NEW s \in Session, SessionInv(s), NEW t, t = CloseSession(s)
  PROVE  /\ t.closed = TRUE
         /\ t.read_in_progress  => s.read_in_progress
         /\ t.write_in_progress => s.write_in_progress
         /\ t.read_buffer = s.read_buffer
         /\ PortLeft(s) => PortLeft(t)
<1>1. CASE s.closed
  BY <1>1 DEF CloseSession, Core!close, Session
<1>2. CASE ~s.closed
  <2> DEFINE q == Shutting(s)
  <2>1. /\ q \in Session /\ q.closed = TRUE
        /\ q.read_in_progress = s.read_in_progress
        /\ q.write_in_progress = s.write_in_progress
        /\ q.read_buffer = s.read_buffer
    BY EmptySeq DEF Shutting, Session
  <2>2. t = to_close_transport(q)
    BY <1>2 DEF CloseSession, Core!close, Shutting
  <2> HIDE DEF q
  <2>3. CASE SeveralThreads
    BY <2>1, <2>2, <2>3 DEF to_close_transport, Session, PortLeft
  <2>4. CASE ~SeveralThreads
    BY <2>1, <2>2, <2>4, CloseTransportEffect
       DEF to_close_transport, Released, PortLeft
  <2> QED BY <2>3, <2>4
<1> QED BY <1>1, <1>2

(* No step of a closed session starts an operation or reopens it. *)
LEMMA FinalStep ==
  ASSUME IInv, [Next]_vars, session.closed
  PROVE  Fewer(session, session')
<1>1. PICK t : /\ Prepared(t)
               /\ \/ Rested(t)
                  \/ session' = Schedule(t)
                  \/ session' = CloseSession(t)
  BY NextForm DEF StepForm
<1>2. t \in Session /\ SessionInv(t) /\ Fewer(session, t) /\ t.closed
  BY <1>1 DEF Prepared, Fewer
<1>3. CASE session' = Schedule(t)
  BY <1>2, <1>3, ScheduleTurns DEF Fewer
<1>4. CASE session' = CloseSession(t)
  <2>1. t.closed = TRUE /\ session.closed = TRUE
    BY <1>2 DEF Session, IInv, TypeOK
  <2> QED BY <1>2, <1>4, <2>1, CloseFlags DEF Fewer
<1> QED BY <1>1, <1>2, <1>3, <1>4 DEF Rested

(* The fields of the session that create() hands out. *)
LEMMA InitShape ==
  ASSUME Init
  PROVE  /\ session.reads = << >>
         /\ session.write_queue = << >>
         /\ ~session.read_enabled
         /\ ~session.closed
<1>1. PICK config \in Config :
        session = open(NewSession, config, TRUE) /\ session.is_open
  BY DEF Init
<1>2. session = [NewSession EXCEPT !.is_open = TRUE,
                   !.duplex_mode = config.duplex_mode,
                   !.read_buffer = config.read_buffer_size]
  BY <1>1 DEF open, apply_config, NewSession
<1> QED BY <1>2 DEF NewSession

(* close() is final: no later call, completion or rest of a handler queues a *)
(* message, starts an operation or clears closed_.                           *)
THEOREM CloseFinal == Spec => CloseIsFinal
<1>1. IInv /\ IInv' /\ [Next]_vars =>
        [ session.closed =>
            /\ session'.closed
            /\ session'.write_queue = << >>
            /\ Len(session'.reads) <= Len(session.reads)
            /\ Len(session'.writes) <= Len(session.writes) ]_vars
  <2> SUFFICES ASSUME IInv, IInv', [Next]_vars, session.closed
               PROVE  /\ session'.closed
                      /\ session'.write_queue = << >>
                      /\ Len(session'.reads) <= Len(session.reads)
                      /\ Len(session'.writes) <= Len(session.writes)
    OBVIOUS
  <2>1. Fewer(session, session')
    BY FinalStep
  <2> QED BY <2>1 DEF IInv, SessionInv, FlagsInv, Fewer
<1> QED BY <1>1, SpecInv, PTL DEF Spec, CloseIsFinal

(* In half duplex can_start_read and can_start_write never let a read and a  *)
(* write get in progress together, whatever the order of calls, completions  *)
(* and changes of the mode.                                                  *)
THEOREM HalfDuplex == Spec => HalfDuplexTurns
<1>1. IInv /\ [Next]_vars =>
        [ /\ session'.duplex_mode = "half_duplex"
          /\ session'.read_in_progress /\ session'.write_in_progress
          => session.read_in_progress /\ session.write_in_progress ]_vars
  <2> SUFFICES ASSUME IInv, [Next]_vars,
                      session'.duplex_mode = "half_duplex",
                      session'.read_in_progress, session'.write_in_progress
               PROVE  session.read_in_progress /\ session.write_in_progress
    OBVIOUS
  <2>1. PICK t : /\ Prepared(t)
                 /\ \/ Rested(t)
                    \/ session' = Schedule(t)
                    \/ session' = CloseSession(t)
    BY NextForm DEF StepForm
  <2> QED BY <2>1, ScheduleTurns, CloseFlags DEF Prepared, Rested, Fewer
<1> QED BY <1>1, SpecInv, PTL DEF Spec, HalfDuplexTurns

(* No lost wakeup: unless apply_config is called on the running session,     *)
(* every handler that can make an operation startable ends in                *)
(* schedule_operations, and one call of it is enough.                        *)
THEOREM Conserving ==
  ASSUME ~LiveConfig
  PROVE  Spec => []WorkConserving
<1>1. Init => WorkConserving
  <2> SUFFICES ASSUME Init PROVE NoStart(session)
    BY DEF WorkConserving, NoStart
  <2>1. ~session.read_enabled /\ session.write_queue = << >>
    BY InitShape
  <2> QED
    BY <2>1
       DEF NoStart, can_start_read, can_start_write, has_pending_writes
<1>2. IInv /\ WorkConserving /\ [Next]_vars => WorkConserving'
  <2> SUFFICES ASSUME IInv, WorkConserving, [Next]_vars, strand' = "idle"
               PROVE  NoStart(session')
    BY DEF WorkConserving, NoStart
  <2>1. PICK t : /\ Prepared(t)
                 /\ \/ Rested(t)
                    \/ session' = Schedule(t)
                    \/ session' = CloseSession(t)
    BY NextForm DEF StepForm
  <2>2. CASE Rested(t)
    BY <2>2 DEF Rested, WorkConserving, NoStart
  <2>3. CASE session' = Schedule(t)
    BY <2>1, <2>3, ScheduleEffect DEF Prepared, Scheduled, NoStart
  <2>4. CASE session' = CloseSession(t)
    BY <2>1, <2>4, CloseEffect, ClosedCannotStart DEF Prepared
  <2> QED BY <2>1, <2>2, <2>3, <2>4
<1> QED BY <1>1, <1>2, SpecInv, PTL DEF Spec

(* The read buffer keeps its size under an outstanding read, because         *)
(* set_read_buffer_size refuses then; this takes that apply_config and       *)
(* open(), which do not test read_in_progress_, are not called on a running  *)
(* session.                                                                  *)
THEOREM BufferStable ==
  ASSUME ~LiveConfig, ~Reopens
  PROVE  Spec => []ReadBufferStable
<1>1. Init => ReadBufferStable
  <2> SUFFICES ASSUME Init PROVE Fits(session)
    BY DEF Fits, ReadBufferStable
  <2>1. session.reads = << >>
    BY InitShape
  <2> QED BY <2>1, EmptySeq DEF Fits
<1>2. IInv /\ ReadBufferStable /\ [Next]_vars => ReadBufferStable'
  <2> SUFFICES ASSUME IInv, Fits(session), [Next]_vars PROVE Fits(session')
    BY DEF Fits, ReadBufferStable
  <2>1. PICK t : /\ Prepared(t)
                 /\ \/ Rested(t)
                    \/ session' = Schedule(t)
                    \/ session' = CloseSession(t)
    BY NextForm DEF StepForm
  <2>2. t \in Session /\ SessionInv(t) /\ Fits(t)
    BY <2>1 DEF Prepared
  <2>3. CASE session' = Schedule(t)
    <3>1. OpsStarted(t, session')
      BY <2>2, <2>3, ScheduleEffect DEF Scheduled
    <3>2. CASE SameRead(t, session')
      BY <2>2, <3>1, <3>2 DEF OpsStarted, SameBut, SameRead, Fits
    <3>3. CASE ReadStarted(t, session')
      BY <2>2, <3>1, <3>3 DEF OpsStarted, SameBut, ReadStarted, Fits, Session
    <3> QED BY <3>1, <3>2, <3>3 DEF OpsStarted
  <2>4. CASE session' = CloseSession(t)
    <3>1. /\ session'.reads = t.reads \/ session'.reads = Aborted(t.reads)
          /\ session'.read_buffer = t.read_buffer
          /\ t.reads \in Seq(ReadOp)
      BY <2>2, <2>4, CloseEffect, CloseFlags DEF Session
    <3> QED BY <2>2, <3>1, AbortedReads DEF Fits
  <2> QED BY <2>1, <2>2, <2>3, <2>4 DEF Rested
<1> QED BY <1>1, <1>2, SpecInv, PTL DEF Spec

(* The memory that async_write and async_read_some are given stays in place  *)
(* until they complete, on one thread and without calls off the strand.      *)
THEOREM Buffers ==
  ASSUME ~SeveralThreads, ~LiveConfig, ~Reopens
  PROVE  Spec => []BuffersStable
<1>1. Spec => []WriteBufferLive
  BY WriteBuffer
<1>2. Spec => []ReadBufferStable
  BY BufferStable
<1>3. WriteBufferLive /\ ReadBufferStable => BuffersStable
  BY DEF BuffersStable
<1> QED BY <1>1, <1>2, <1>3, PTL

(* A closed session has released its port, unless open() is called on it     *)
(* again.                                                                    *)
THEOREM PortReleased ==
  ASSUME ~Reopens
  PROVE  Spec => []ClosedPortIsClosed
<1>1. Init => ClosedPortIsClosed
  BY InitShape DEF ClosedPortIsClosed
<1>2. IInv /\ ClosedPortIsClosed /\ [Next]_vars => ClosedPortIsClosed'
  <2> SUFFICES ASSUME IInv, PortLeft(session), [Next]_vars
               PROVE  PortLeft(session')
    BY DEF PortLeft, ClosedPortIsClosed
  <2>1. PICK t : /\ Prepared(t)
                 /\ \/ Rested(t)
                    \/ session' = Schedule(t)
                    \/ session' = CloseSession(t)
    BY NextForm DEF StepForm
  <2>2. t \in Session /\ SessionInv(t) /\ PortLeft(t)
    BY <2>1 DEF Prepared
  <2>3. CASE session' = Schedule(t)
    BY <2>2, <2>3, ScheduleEffect DEF Scheduled, OpsStarted, SameBut, PortLeft
  <2>4. CASE session' = CloseSession(t)
    BY <2>2, <2>4, CloseFlags
  <2> QED BY <2>1, <2>2, <2>3, <2>4 DEF Rested
<1> QED BY <1>1, <1>2, SpecInv, PTL DEF Spec

(* With one thread, a write that completes finds its session open and its    *)
(* message at the front of the queue.                                        *)
LEMMA PortWritesOpen ==
  ASSUME IInv, ~SeveralThreads, PortWrites
  PROVE  /\ ~session.closed /\ ~session'.closed
         /\ accepted = wire \o session.write_queue
         /\ session.write_queue # << >>
         /\ wire' = Append(wire, Head(session.write_queue))
         /\ accepted' = accepted
<1>1. session \in Session /\ SessionInv(session)
  BY DEF IInv, TypeOK
<1>2. 1 \in DOMAIN session.writes /\ session.writes[1].status = "pending"
  BY <1>1 DEF PortWrites, WritePending, Session
<1>3. ~session.closed
  BY <1>1, <1>2 DEF SessionInv, PortInv
<1>4. accepted = wire \o Left(session)
  BY <1>3, HistoryDefs DEF IInv
<1> QED BY <1>3, <1>4, PortWritesEffect

(* Such a write is the Transmit step of the link. *)
LEMMA TransmitStep ==
  ASSUME IInv, ~SeveralThreads, PortWrites
  PROVE  Link!Transmit
<1>1. /\ wire \in Seq(Message \cup {Freed})
      /\ session.write_queue \in Seq(Message \cup {Freed})
  <2>1. wire \in Seq(Message \cup {Freed}) /\ session.write_queue \in Seq(Message)
    BY DEF IInv, TypeOK, Session
  <2> QED BY <2>1, SeqMonotonic
<1>2. /\ Len(wire) < Len(accepted)
      /\ accepted[Len(wire) + 1] = Head(session.write_queue)
  <2>1. /\ Len(accepted) = Len(wire) + Len(session.write_queue)
        /\ \A i \in 1 .. Len(wire) + Len(session.write_queue) :
             accepted[i] = IF i <= Len(wire) THEN wire[i]
                           ELSE session.write_queue[i - Len(wire)]
    BY <1>1, PortWritesOpen, ConcatProperties
  <2>2. Len(wire) \in Nat /\ Len(session.write_queue) \in Nat
        /\ Len(session.write_queue) > 0
    BY <1>1, PortWritesOpen, EmptySeq
  <2>3. Head(session.write_queue) = session.write_queue[1]
    BY <1>1, PortWritesOpen
  <2> QED BY <2>1, <2>2, <2>3
<1>3. session'.closed = session.closed
  BY PortWritesEffect
<1> QED BY <1>2, <1>3, PortWritesOpen DEF Link!Transmit

(* enqueue_write on an open session is the Accept step of the link; on a     *)
(* closed session it changes nothing.                                        *)
LEMMA AcceptStep ==
  ASSUME IInv, NEW m \in Message, Send(m)
  PROVE  Link!Accept(m) \/ UNCHANGED <<accepted, wire, session.closed>>
<1>1. session \in Session /\ SessionInv(session)
  BY DEF IInv, TypeOK
<1>2. CASE session.closed
  BY <1>2 DEF Send, Core!enqueue_write, Schedule
<1>3. CASE ~session.closed
  <2> DEFINE t == [session EXCEPT !.write_queue = Append(session.write_queue, m)]
  <2>1. session' = Schedule(t) /\ accepted' = Append(accepted, m) /\ wire' = wire
    BY <1>3 DEF Send, Core!enqueue_write, Schedule
  <2>2. t \in Session /\ SessionInv(t) /\ t.closed = session.closed
    BY <1>1, <1>3, EnqueueEffect DEF Session
  <2> HIDE DEF t
  <2>3. session'.closed = session.closed
    BY <2>1, <2>2, ScheduleKeeps
  <2> QED BY <1>3, <2>1, <2>3 DEF Link!Accept
<1> QED BY <1>2, <1>3

(* A step that leaves both histories alone shuts the link or leaves it as it *)
(* is.                                                                       *)
LEMMA ShutStep ==
  ASSUME IInv, [Next]_vars, accepted' = accepted, wire' = wire
  PROVE  Link!Shut \/ UNCHANGED <<accepted, wire, session.closed>>
<1>1. session.closed \in BOOLEAN /\ session'.closed \in BOOLEAN
  BY NextInv DEF IInv, TypeOK, Session
<1>2. session.closed => session'.closed
  BY FinalStep DEF Fewer
<1> QED BY <1>1, <1>2 DEF Link!Shut

(* Every step of the session is a step of the link or a stutter. *)
LEMMA LinkStep ==
  ASSUME IInv, ~SeveralThreads, [Next]_vars
  PROVE  [Link!Next]_(Link!vars)
<1>1. CASE \E m \in Message : Send(m)
  BY <1>1, AcceptStep DEF Link!Next, Link!vars
<1>2. CASE PortWrites
  BY <1>2, TransmitStep DEF Link!Next
<1>3. CASE accepted' = accepted /\ wire' = wire
  BY <1>3, ShutStep DEF Link!Next, Link!vars
<1> QED
  <2>1. CASE UNCHANGED vars
    BY <2>1, <1>3 DEF vars
  <2>2. CASE User
    BY <2>2, <1>1, <1>3
       DEF User, SetReadHandler, StartReading, StopReading, Close, SetDuplexMode,
           SetReadBufferSize, Open, ApplyConfig
  <2>3. CASE Completion
    BY <2>3, <1>3
       DEF Completion, OnRead, ReadHandlerReturns, OnWrite, CloseTransport
  <2>4. CASE Port
    BY <2>4, <1>2, <1>3 DEF Port, PortReads, PortReadFails, PortWriteFails
  <2> QED BY <2>1, <2>2, <2>3, <2>4 DEF Next

(* With one thread running the io_context, sending through the session       *)
(* (enqueue_write, the write completion and close()) implements the in-order *)
(* link FifoLink.                                                            *)
THEOREM ImplementsFifoLink ==
  ASSUME ~SeveralThreads
  PROVE  Spec => IsFifoLink
<1>1. Init => Link!Init
  <2> SUFFICES ASSUME Init PROVE Link!Init
    OBVIOUS
  <2>1. session.closed = FALSE
    BY InitShape, InitInv DEF IInv, TypeOK, Session
  <2> QED BY <2>1 DEF Init, Link!Init
<1>2. IInv /\ [Next]_vars => [Link!Next]_(Link!vars)
  BY LinkStep
<1> QED BY <1>1, <1>2, SpecInv, PTL DEF Spec, IsFifoLink, Link!Spec

(* With one thread running the io_context, what the port writes out is       *)
(* always a message, never memory that close() freed under the operation.    *)
THEOREM WireIntact ==
  ASSUME ~SeveralThreads
  PROVE  Spec => []WireCarriesMessages
<1>1. Init => WireCarriesMessages
  BY EmptySeq DEF Init, WireCarriesMessages
<1>2. IInv /\ WireCarriesMessages /\ [Next]_vars => WireCarriesMessages'
  <2> SUFFICES ASSUME IInv, WireCarriesMessages, [Next]_vars
               PROVE  WireCarriesMessages'
    OBVIOUS
  <2>1. CASE PortWrites
    <3>1. session.write_queue \in Seq(Message) /\ session.write_queue # << >>
      BY <2>1, PortWritesOpen DEF IInv, TypeOK, Session
    <3>2. Head(session.write_queue) \in Message
      BY <3>1, HeadTailProperties
    <3> QED
      BY <2>1, <3>2, PortWritesOpen, AppendProperties
         DEF WireCarriesMessages
  <2>2. CASE wire' = wire
    BY <2>2 DEF WireCarriesMessages
  <2>3. PortWrites \/ wire' = wire
    BY DEF Next, vars, User, SetReadHandler, StartReading, StopReading, Send,
           Close,
       SetDuplexMode, SetReadBufferSize, Open, ApplyConfig, Completion, OnRead,
       ReadHandlerReturns, OnWrite, CloseTransport, Port, PortReads,
       PortReadFails,
       PortWriteFails
  <2> QED BY <2>1, <2>2, <2>3
<1> QED BY <1>1, <1>2, SpecInv, PTL DEF Spec
=============================================================================
