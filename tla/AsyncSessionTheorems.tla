------------------------ MODULE AsyncSessionTheorems ------------------------
(***************************************************************************)
(* Proofs about the deprecated session: type correctness with the flags,   *)
(* that only the user's close() breaks the queue, and that sending         *)
(* implements the in-order link.                                           *)
(***************************************************************************)
EXTENDS AsyncSession, OperationLemmas

(* What holds of the session object wherever the strand is idle.  The      *)
(* element the write completion will pop is there, and is the message that *)
(* goes out, as long as the user has not called close().                   *)
SessionInv(s, called) ==
  /\ s \in Session
  /\ Len(s.reads)  = IF s.read_in_progress  THEN 1 ELSE 0
  /\ Len(s.writes) = IF s.write_in_progress THEN 1 ELSE 0
  /\ \A i \in DOMAIN s.reads : s.reads[i].room = s.read_buffer
  /\ s.closed => ~IsPending(s.reads) /\ ~IsPending(s.writes)
  /\ ~called /\ s.writes # << >> =>
       s.write_queue # << >> /\ Head(s.write_queue) = Head(s.writes).message

(* The messages that have not gone out: a written one is still in front of *)
(* the queue until its completion pops it.                                 *)
Left(s) == IF s.writes # << >> /\ Head(s.writes).status = "done"
           THEN Tail(s.write_queue) ELSE s.write_queue

IInv ==
  /\ SessionInv(session, close_called)
  /\ process \in {"running", "crashed"}
  /\ close_called \in BOOLEAN
  /\ accepted \in Seq(Message)
  /\ wire \in Seq(Message)
  /\ close_called => session.closed
  /\ BreaksOnlyByClose
  /\ ~session.closed => accepted = wire \o Left(session)

(* t has the queue of s, and is closed or broken as s is. *)
SameQueue(s, t) ==
  /\ t.write_queue = s.write_queue
  /\ t.closed = s.closed
  /\ t.queue_broken = s.queue_broken
  /\ Left(t) = Left(s)
-----------------------------------------------------------------------------
(* The operators. *)

(* A write that is started keeps the invariant. *)
LEMMA DoWrite ==
  ASSUME NEW s, NEW called, SessionInv(s, called), can_start_write(s)
  PROVE  SessionInv(do_write(s), called) /\ SameQueue(s, do_write(s))
<1> DEFINE op == [status |-> Started(s), message |-> Head(s.write_queue)]
           t  == [s EXCEPT !.write_in_progress = TRUE, !.writes = << op >>]
<1>1. /\ s \in Session /\ ~s.write_in_progress /\ s.write_queue # << >>
      /\ ~s.closed
  BY DEF SessionInv, can_start_write
<1>2. s.writes \in Seq(WriteOp) /\ s.writes = << >>
  <2>1. s.writes \in Seq(WriteOp) /\ Len(s.writes) = 0
    BY <1>1 DEF SessionInv, Session
  <2> QED BY <2>1, EmptySeq
<1>3. Head(s.write_queue) \in Message
  BY <1>1, HeadTailProperties DEF Session
<1>4. op \in WriteOp /\ op.status # "done" /\ op.message = Head(s.write_queue)
  BY <1>3 DEF WriteOp, Status, Started
<1>5. do_write(s) = t
  BY <1>2 DEF do_write
<1> HIDE DEF op
<1>6. << op >> \in Seq(WriteOp) /\ Len(<< op >>) = 1 /\ Head(<< op >>) = op
  BY <1>4
<1>7. t \in Session
  BY <1>1, <1>6 DEF Session
<1>8. /\ t.reads = s.reads /\ t.read_in_progress = s.read_in_progress
      /\ t.read_buffer = s.read_buffer /\ t.closed = s.closed
      /\ t.queue_broken = s.queue_broken /\ t.write_queue = s.write_queue
      /\ t.write_in_progress /\ t.writes = << op >>
  BY <1>1 DEF Session
<1> HIDE DEF t
<1>9. SessionInv(t, called)
  BY <1>1, <1>4, <1>6, <1>7, <1>8 DEF SessionInv
<1>10. SameQueue(s, t)
  BY <1>2, <1>4, <1>6, <1>8 DEF SameQueue, Left
<1> QED BY <1>5, <1>9, <1>10

(* So does a read. *)
LEMMA DoRead ==
  ASSUME NEW s, NEW called, SessionInv(s, called), can_start_read(s)
  PROVE  SessionInv(do_read(s), called) /\ SameQueue(s, do_read(s))
<1> DEFINE op == [status |-> Started(s), room |-> s.read_buffer]
           t  == [s EXCEPT !.read_in_progress = TRUE, !.reads = << op >>]
<1>1. s \in Session /\ ~s.read_in_progress /\ ~s.closed
  BY DEF SessionInv, can_start_read
<1>2. s.reads = << >>
  <2>1. s.reads \in Seq(ReadOp) /\ Len(s.reads) = 0
    BY <1>1 DEF SessionInv, Session
  <2> QED BY <2>1, EmptySeq
<1>4. op \in ReadOp /\ op.room = s.read_buffer
  BY <1>1 DEF ReadOp, Status, Started, Session
<1>5. do_read(s) = t
  BY <1>2 DEF do_read
<1> HIDE DEF op
<1>6. /\ << op >> \in Seq(ReadOp) /\ Len(<< op >>) = 1
      /\ \A i \in DOMAIN << op >> : << op >>[i] = op
  BY <1>4
<1>7. t \in Session
  BY <1>1, <1>6 DEF Session
<1>8. /\ t.writes = s.writes /\ t.write_in_progress = s.write_in_progress
      /\ t.read_buffer = s.read_buffer /\ t.closed = s.closed
      /\ t.queue_broken = s.queue_broken /\ t.write_queue = s.write_queue
      /\ t.read_in_progress /\ t.reads = << op >>
  BY <1>1 DEF Session
<1> HIDE DEF t
<1>9. SessionInv(t, called)
  BY <1>1, <1>4, <1>6, <1>7, <1>8 DEF SessionInv
<1>10. SameQueue(s, t)
  BY <1>8 DEF SameQueue, Left
<1> QED BY <1>5, <1>9, <1>10

(* schedule_operations keeps the invariant and the queue. *)
LEMMA ScheduleKeeps ==
  ASSUME NEW s, NEW called, SessionInv(s, called)
  PROVE  /\ SessionInv(schedule_operations(s), called)
         /\ SameQueue(s, schedule_operations(s))
<1> DEFINE w == IF can_start_write(s) THEN do_write(s) ELSE s
<1>1. SessionInv(w, called) /\ SameQueue(s, w)
  BY DoWrite DEF SameQueue
<1>2. schedule_operations(s) = IF can_start_read(w) THEN do_read(w) ELSE w
  BY DEF schedule_operations
<1> HIDE DEF w
<1>3. CASE can_start_read(w)
  <2>1. SessionInv(do_read(w), called) /\ SameQueue(w, do_read(w))
    BY <1>1, <1>3, DoRead
  <2> QED BY <1>1, <1>2, <1>3, <2>1 DEF SameQueue
<1>4. CASE ~can_start_read(w)
  BY <1>1, <1>2, <1>4
<1> QED BY <1>3, <1>4

(* Aborting the operations of a session leaves none pending and changes    *)
(* neither the room of a read nor the message of a write.                  *)
LEMMA AbortedReads ==
  ASSUME NEW ops \in Seq(ReadOp)
  PROVE  /\ Aborted(ops) \in Seq(ReadOp)
         /\ Len(Aborted(ops)) = Len(ops)
         /\ ~IsPending(Aborted(ops))
         /\ DOMAIN Aborted(ops) = DOMAIN ops
         /\ \A i \in DOMAIN ops : Aborted(ops)[i].room = ops[i].room
<1>1. \A op \in ReadOp : /\ [op EXCEPT !.status = "aborted"] \in ReadOp
                         /\ [op EXCEPT !.status = "aborted"].status = "aborted"
                         /\ [op EXCEPT !.status = "aborted"].room = op.room
  BY DEF ReadOp, Status
<1>2. \A i \in DOMAIN ops : ops[i] \in ReadOp
  OBVIOUS
<1>3. /\ Aborted(ops) \in Seq(ReadOp)
      /\ Len(Aborted(ops)) = Len(ops)
      /\ DOMAIN Aborted(ops) = DOMAIN ops
      /\ \A i \in DOMAIN ops :
           Aborted(ops)[i] = IF ops[i].status = "pending"
             THEN [ops[i] EXCEPT !.status = "aborted"] ELSE ops[i]
  BY <1>1, AbortedOps
<1>4. \A i \in DOMAIN ops : Aborted(ops)[i].status # "pending"
  BY <1>1, <1>2, <1>3
<1>5. ~IsPending(Aborted(ops))
  BY <1>3, <1>4, HeadTailProperties, EmptySeq DEF IsPending
<1> QED BY <1>1, <1>2, <1>3, <1>5

(* The same for writes. *)
LEMMA AbortedWrites ==
  ASSUME NEW ops \in Seq(WriteOp)
  PROVE  /\ Aborted(ops) \in Seq(WriteOp)
         /\ Len(Aborted(ops)) = Len(ops)
         /\ ~IsPending(Aborted(ops))
         /\ ops # << >> => Head(Aborted(ops)).message = Head(ops).message
<1>1. \A op \in WriteOp :
        /\ [op EXCEPT !.status = "aborted"] \in WriteOp
        /\ [op EXCEPT !.status = "aborted"].status = "aborted"
        /\ [op EXCEPT !.status = "aborted"].message = op.message
  BY DEF WriteOp, Status
<1>2. \A i \in DOMAIN ops : ops[i] \in WriteOp
  OBVIOUS
<1>3. /\ Aborted(ops) \in Seq(WriteOp)
      /\ Len(Aborted(ops)) = Len(ops)
      /\ DOMAIN Aborted(ops) = DOMAIN ops
      /\ \A i \in DOMAIN ops :
           Aborted(ops)[i] = IF ops[i].status = "pending"
             THEN [ops[i] EXCEPT !.status = "aborted"] ELSE ops[i]
  BY <1>1, AbortedOps
<1>4. \A i \in DOMAIN ops : /\ Aborted(ops)[i].status # "pending"
                            /\ Aborted(ops)[i].message = ops[i].message
  BY <1>1, <1>2, <1>3
<1>5. ~IsPending(Aborted(ops))
  BY <1>3, <1>4, HeadTailProperties, EmptySeq DEF IsPending
<1>6. ops # << >> => Head(Aborted(ops)).message = Head(ops).message
  BY <1>3, <1>4, EmptySeq
<1> QED BY <1>3, <1>5, <1>6

(* close_socket closes, and keeps the queue. *)
LEMMA CloseSocketKeeps ==
  ASSUME NEW s, NEW called, SessionInv(s, called)
  PROVE  /\ SessionInv(close_socket(s), called)
         /\ close_socket(s).closed
         /\ close_socket(s).write_queue = s.write_queue
         /\ close_socket(s).queue_broken = s.queue_broken
<1> DEFINE r == Aborted(s.reads)
           w == Aborted(s.writes)
           t == [s EXCEPT !.closed = TRUE, !.is_open = FALSE,
                          !.reads = r, !.writes = w]
<1>1. s \in Session /\ s.reads \in Seq(ReadOp) /\ s.writes \in Seq(WriteOp)
  BY DEF SessionInv, Session
<1>2. CASE s.closed
  BY <1>1, <1>2 DEF close_socket
<1>3. CASE ~s.closed
  <2>1. close_socket(s) = t
    BY <1>3 DEF close_socket
  <2>2. /\ r \in Seq(ReadOp) /\ Len(r) = Len(s.reads) /\ ~IsPending(r)
        /\ DOMAIN r = DOMAIN s.reads
        /\ \A i \in DOMAIN s.reads : r[i].room = s.reads[i].room
    BY <1>1, AbortedReads
  <2>3. /\ w \in Seq(WriteOp) /\ Len(w) = Len(s.writes) /\ ~IsPending(w)
        /\ s.writes # << >> => Head(w).message = Head(s.writes).message
    BY <1>1, AbortedWrites
  <2>4. w # << >> => s.writes # << >>
    BY <1>1, <2>3, EmptySeq
  <2> HIDE DEF r, w
  <2>5. t \in Session
    BY <1>1, <2>2, <2>3 DEF Session
  <2>6. /\ t.reads = r /\ t.writes = w /\ t.closed
        /\ t.read_in_progress = s.read_in_progress
        /\ t.write_in_progress = s.write_in_progress
        /\ t.read_buffer = s.read_buffer
        /\ t.queue_broken = s.queue_broken /\ t.write_queue = s.write_queue
    BY <1>1 DEF Session
  <2> HIDE DEF t
  <2>7. SessionInv(t, called)
    BY <2>2, <2>3, <2>4, <2>5, <2>6 DEF SessionInv
  <2> QED BY <2>1, <2>6, <2>7
<1> QED BY <1>2, <1>3
-----------------------------------------------------------------------------
(* The actions. *)

(* A step that changes the session but not its queue. *)
LEMMA QuietStep ==
  ASSUME IInv, NEW t, Becomes(t), SessionInv(t, close_called),
         SameQueue(session, t)
  PROVE  IInv'
<1>1. /\ session' = t
      /\ UNCHANGED <<process, close_called, accepted, wire>>
  BY DEF Becomes
<1>2. SessionInv(session', close_called')
  BY <1>1
<1>3. Left(session') = Left(session) /\ session'.closed = session.closed
      /\ session'.queue_broken = session.queue_broken
  BY <1>1 DEF SameQueue
<1> QED BY <1>1, <1>2, <1>3 DEF IInv, BreaksOnlyByClose

(* A step that closes the session without emptying its queue. *)
LEMMA ClosingStep ==
  ASSUME IInv, NEW t, Becomes(t), SessionInv(t, close_called), t.closed,
         t.queue_broken = session.queue_broken
  PROVE  IInv'
<1>1. /\ session' = t
      /\ UNCHANGED <<process, close_called, accepted, wire>>
  BY DEF Becomes
<1> QED BY <1>1 DEF IInv, BreaksOnlyByClose

(* A change of fields the invariant does not look at. *)
Tweaked(s, t) ==
  /\ t \in Session
  /\ t.read_buffer = s.read_buffer \/ s.reads = << >>
  /\ t.write_queue = s.write_queue
  /\ t.queue_broken = s.queue_broken
  /\ t.closed = s.closed
  /\ t.read_in_progress = s.read_in_progress /\ t.reads = s.reads
  /\ t.write_in_progress = s.write_in_progress /\ t.writes = s.writes

(* Such a change keeps the invariant and the queue. *)
LEMMA TweakKeeps ==
  ASSUME NEW s, NEW called, NEW t, SessionInv(s, called), Tweaked(s, t)
  PROVE  SessionInv(t, called) /\ SameQueue(s, t)
<1>1. SessionInv(t, called)
  BY DEF SessionInv, Tweaked
<1>2. SameQueue(s, t)
  BY DEF SameQueue, Left, Tweaked
<1> QED BY <1>1, <1>2

(* A tweak, followed or not by schedule_operations. *)
LEMMA TweakStep ==
  ASSUME IInv, NEW t, Tweaked(session, t),
         Becomes(t) \/ Becomes(schedule_operations(t))
  PROVE  IInv'
<1>1. SessionInv(t, close_called) /\ SameQueue(session, t)
  BY TweakKeeps DEF IInv
<1>2. CASE Becomes(t)
  BY <1>1, <1>2, QuietStep
<1>3. CASE Becomes(schedule_operations(t))
  <2>1. /\ SessionInv(schedule_operations(t), close_called)
        /\ SameQueue(t, schedule_operations(t))
    BY <1>1, ScheduleKeeps
  <2>2. SameQueue(session, schedule_operations(t))
    BY <1>1, <2>1 DEF SameQueue
  <2> QED BY <1>3, <2>1, <2>2, QuietStep
<1> QED BY <1>2, <1>3

(* The calls that move no message. *)
LEMMA CallStep ==
  ASSUME IInv,
         \/ \E succeeds \in BOOLEAN : Open(succeeds)
         \/ \E mode \in DuplexMode : SetDuplexMode(mode)
         \/ \E set \in BOOLEAN : SetReadHandler(set)
         \/ \E size \in BufferSize \cup {0} : SetReadBufferSize(size)
         \/ StartReading
         \/ StopReading
  PROVE  IInv'
<1>1. session \in Session
  BY DEF IInv, SessionInv
<1>2. ASSUME NEW succeeds \in BOOLEAN, Open(succeeds) PROVE IInv'
  <2>1. Tweaked(session, open(session, succeeds))
    BY <1>1 DEF open, Tweaked, Session
  <2> QED BY <1>2, <2>1, TweakStep DEF Open
<1>3. ASSUME NEW mode \in DuplexMode, SetDuplexMode(mode) PROVE IInv'
  <2>1. Tweaked(session, [session EXCEPT !.duplex_mode = mode])
    BY <1>1 DEF Tweaked, Session
  <2> QED BY <1>3, <2>1, TweakStep DEF SetDuplexMode, set_duplex_mode
<1>4. ASSUME NEW set \in BOOLEAN, SetReadHandler(set) PROVE IInv'
  <2>1. Tweaked(session, set_read_handler(session, set))
    BY <1>1 DEF set_read_handler, Tweaked, Session
  <2> QED BY <1>4, <2>1, TweakStep DEF SetReadHandler
<1>5. ASSUME NEW size \in BufferSize \cup {0}, SetReadBufferSize(size)
      PROVE  IInv'
  <2>1. size \in Nat
    BY AsyncSessionAssumption
  <2>2. session.reads \in Seq(ReadOp) /\ Len(<< >>) = 0
    BY <1>1 DEF Session
  <2>3. ~session.read_in_progress => session.reads = << >>
    BY <2>2, EmptySeq DEF IInv, SessionInv
  <2>4. Tweaked(session, set_read_buffer_size(session, size))
    BY <1>1, <2>1, <2>3 DEF set_read_buffer_size, Tweaked, Session
  <2> QED BY <1>5, <2>4, TweakStep DEF SetReadBufferSize
<1>6. CASE StartReading
  <2>1. Tweaked(session, [session EXCEPT !.read_enabled = TRUE])
    BY <1>1 DEF Tweaked, Session
  <2> QED BY <1>6, <2>1, TweakStep DEF StartReading, start_reading
<1>7. CASE StopReading
  <2>1. Tweaked(session, stop_reading(session))
    BY <1>1 DEF stop_reading, Tweaked, Session
  <2> QED BY <1>7, <2>1, TweakStep DEF StopReading
<1> QED BY <1>2, <1>3, <1>4, <1>5, <1>6, <1>7

(* A message queued behind the others. *)
LEMMA SendEffect ==
  ASSUME IInv, NEW m \in Message
  PROVE  /\ SessionInv(send(session, m), close_called)
         /\ send(session, m).closed = session.closed
         /\ send(session, m).queue_broken = session.queue_broken
         /\ ~session.closed =>
              /\ Left(session) \in Seq(Message)
              /\ Left(send(session, m)) = Append(Left(session), m)
<1> DEFINE q == Append(session.write_queue, m)
           t == [session EXCEPT !.write_queue = q]
<1>1. /\ session \in Session /\ session.write_queue \in Seq(Message)
      /\ SessionInv(session, close_called)
  BY DEF IInv, SessionInv, Session
<1>2. /\ q \in Seq(Message) /\ q # << >>
      /\ session.write_queue # << >> =>
           /\ Head(q) = Head(session.write_queue)
           /\ Tail(q) = Append(Tail(session.write_queue), m)
           /\ Tail(session.write_queue) \in Seq(Message)
  BY <1>1
<1>3. send(session, m) = schedule_operations(t)
  BY DEF send
<1>4. Left(session) = IF /\ session.writes # << >>
                         /\ Head(session.writes).status = "done"
                      THEN Tail(session.write_queue) ELSE session.write_queue
  BY DEF Left
<1>5. q = Append(session.write_queue, m)
  OBVIOUS
<1> HIDE DEF q
<1>6. /\ t \in Session /\ t.write_queue = q /\ t.closed = session.closed
      /\ t.queue_broken = session.queue_broken
      /\ t.read_buffer = session.read_buffer
      /\ t.read_in_progress = session.read_in_progress
      /\ t.reads = session.reads /\ t.writes = session.writes
      /\ t.write_in_progress = session.write_in_progress
  BY <1>1, <1>2 DEF Session
<1> HIDE DEF t
<1>7. SessionInv(t, close_called)
  BY <1>1, <1>2, <1>6 DEF SessionInv
<1>8. ASSUME ~session.closed
      PROVE  /\ Left(session) \in Seq(Message)
             /\ Left(t) = Append(Left(session), m)
  <2>1. session.writes # << >> => session.write_queue # << >>
    BY <1>1, <1>8 DEF IInv, SessionInv
  <2>2. Left(t) = IF /\ session.writes # << >>
                     /\ Head(session.writes).status = "done"
                  THEN Tail(q) ELSE q
    BY <1>6 DEF Left
  <2>3. CASE session.writes # << >> /\ Head(session.writes).status = "done"
    BY <1>2, <1>4, <2>1, <2>2, <2>3
  <2>4. CASE ~(session.writes # << >> /\ Head(session.writes).status = "done")
    BY <1>1, <1>4, <1>5, <2>2, <2>4
  <2> QED BY <2>3, <2>4
<1>9. /\ SessionInv(schedule_operations(t), close_called)
      /\ SameQueue(t, schedule_operations(t))
  BY <1>7, ScheduleKeeps
<1> QED BY <1>3, <1>6, <1>8, <1>9 DEF SameQueue

(* send() keeps the invariant: what is accepted is left to be written. *)
LEMMA SendStep ==
  ASSUME IInv, NEW m \in Message, Send(m)
  PROVE  IInv'
<1>1. /\ session' = send(session, m)
      /\ accepted' = IF session.closed THEN accepted ELSE Append(accepted, m)
      /\ UNCHANGED <<process, close_called, wire>>
  BY DEF Send
<1>2. accepted' \in Seq(Message)
  BY <1>1 DEF IInv
<1>3. ASSUME ~session.closed PROVE accepted' = wire' \o Left(session')
  <2>1. /\ accepted = wire \o Left(session)
        /\ wire \in Seq(Message) /\ Left(session) \in Seq(Message)
    BY <1>3, SendEffect DEF IInv
  <2>2. wire \o Append(Left(session), m) = Append(wire \o Left(session), m)
    BY <2>1, ConcatAppend
  <2> QED BY <1>1, <1>3, <2>1, <2>2, SendEffect
<1> QED BY <1>1, <1>2, <1>3, SendEffect DEF IInv, BreaksOnlyByClose

(* The user's close(). *)
LEMMA CloseStep ==
  ASSUME IInv, Close
  PROVE  IInv'
<1> DEFINE t == [session EXCEPT !.read_enabled = FALSE, !.write_queue = << >>]
<1>1. session \in Session /\ SessionInv(session, close_called)
  BY DEF IInv, SessionInv
<1>2. t \in Session /\ t.queue_broken = session.queue_broken
  BY <1>1, EmptySeq DEF Session
<1>3. SessionInv(t, TRUE)
  BY <1>1, <1>2 DEF SessionInv, Session
<1>4. session' = close_socket(t)
  BY DEF Close, close
<1> HIDE DEF t
<1>5. /\ SessionInv(session', TRUE)
      /\ session'.closed
      /\ session'.queue_broken = session.queue_broken
  BY <1>2, <1>3, <1>4, CloseSocketKeeps
<1>6. close_called' = TRUE /\ UNCHANGED <<process, accepted, wire>>
  BY DEF Close
<1> QED BY <1>5, <1>6 DEF IInv, BreaksOnlyByClose

(* A completed read leaves nothing outstanding to read. *)
LEMMA OnReadStep ==
  ASSUME IInv, OnRead
  PROVE  IInv'
<1> DEFINE t == [session EXCEPT !.read_in_progress = FALSE,
                                !.reads = Tail(session.reads)]
<1>1. /\ session \in Session /\ SessionInv(session, close_called)
      /\ session.reads \in Seq(ReadOp) /\ session.reads # << >>
  BY DEF IInv, SessionInv, Session, OnRead, IsComplete
<1>2. Tail(session.reads) = << >>
  <2>1. Len(session.reads) = 1
    BY <1>1, EmptySeq DEF SessionInv
  <2> QED BY <1>1, <2>1, TailOfOne
<1>3. /\ t \in Session /\ t.reads = << >> /\ ~t.read_in_progress
      /\ t.write_queue = session.write_queue /\ t.closed = session.closed
      /\ t.queue_broken = session.queue_broken
      /\ t.writes = session.writes
      /\ t.write_in_progress = session.write_in_progress
  BY <1>1, <1>2, EmptySeq DEF Session
<1>4. Becomes(IF Head(session.reads).status = "done"
              THEN schedule_operations(t) ELSE close_socket(t))
  BY DEF OnRead
<1> HIDE DEF t
<1>5. SessionInv(t, close_called)
  BY <1>1, <1>3, EmptySeq DEF SessionInv, IsPending
<1>6. CASE Head(session.reads).status = "done"
  <2>1. /\ SessionInv(schedule_operations(t), close_called)
        /\ SameQueue(t, schedule_operations(t))
    BY <1>5, ScheduleKeeps
  <2>2. SameQueue(session, schedule_operations(t))
    BY <1>3, <2>1 DEF SameQueue, Left
  <2> QED BY <1>4, <1>6, <2>1, <2>2, QuietStep
<1>7. CASE Head(session.reads).status # "done"
  <2>1. /\ SessionInv(close_socket(t), close_called)
        /\ close_socket(t).closed
        /\ close_socket(t).queue_broken = session.queue_broken
    BY <1>3, <1>5, CloseSocketKeeps
  <2> QED BY <1>4, <1>7, <2>1, ClosingStep
<1> QED BY <1>6, <1>7

(* A completed write pops what it has written, or finds the queue emptied  *)
(* by close().                                                             *)
LEMMA OnWriteStep ==
  ASSUME IInv, OnWrite
  PROVE  IInv'
<1> DEFINE t == [session EXCEPT !.write_in_progress = FALSE,
                                !.writes = Tail(session.writes)]
<1>1. /\ session \in Session /\ SessionInv(session, close_called)
      /\ session.writes \in Seq(WriteOp) /\ session.writes # << >>
      /\ session.write_queue \in Seq(Message)
  BY DEF IInv, SessionInv, Session, OnWrite, IsComplete
<1>2. Tail(session.writes) = << >>
  <2>1. Len(session.writes) = 1
    BY <1>1, EmptySeq DEF SessionInv
  <2> QED BY <1>1, <2>1, TailOfOne
<1>3. /\ t \in Session /\ t.writes = << >> /\ ~t.write_in_progress
      /\ t.write_queue = session.write_queue /\ t.closed = session.closed
      /\ t.queue_broken = session.queue_broken
      /\ t.reads = session.reads
      /\ t.read_buffer = session.read_buffer
      /\ t.read_in_progress = session.read_in_progress
  BY <1>1, <1>2, EmptySeq DEF Session
<1>4. Becomes(IF Head(session.writes).status = "done"
              THEN schedule_operations(pop_front(t)) ELSE close_socket(t))
  BY DEF OnWrite
<1> HIDE DEF t
<1>5. SessionInv(t, close_called)
  BY <1>1, <1>3, EmptySeq DEF SessionInv, IsPending
<1>6. CASE Head(session.writes).status # "done"
  <2>1. /\ SessionInv(close_socket(t), close_called)
        /\ close_socket(t).closed
        /\ close_socket(t).queue_broken = session.queue_broken
    BY <1>3, <1>5, CloseSocketKeeps
  <2> QED BY <1>4, <1>6, <2>1, ClosingStep
<1>7. CASE Head(session.writes).status = "done"
  <2> DEFINE p == pop_front(t)
  <2>1. Becomes(schedule_operations(p))
    BY <1>4, <1>7
  <2>2. CASE session.write_queue = << >>
    <3>1. close_called /\ session.closed
      BY <1>1, <2>2 DEF IInv, SessionInv
    <3>2. p = [t EXCEPT !.queue_broken = TRUE]
      BY <1>3, <2>2 DEF pop_front
    <3>3. /\ p \in Session /\ p.closed = session.closed
          /\ p.reads = t.reads /\ p.writes = t.writes
          /\ p.read_in_progress = t.read_in_progress
          /\ p.write_in_progress = t.write_in_progress
          /\ p.read_buffer = t.read_buffer /\ p.write_queue = t.write_queue
      BY <1>3, <3>2 DEF Session
    <3> HIDE DEF p
    <3>4. SessionInv(p, close_called)
      BY <1>5, <1>3, <3>3 DEF SessionInv
    <3>5. /\ SessionInv(schedule_operations(p), close_called)
          /\ schedule_operations(p).closed
      BY <3>1, <3>3, <3>4, ScheduleKeeps DEF SameQueue
    <3> QED BY <2>1, <3>1, <3>5 DEF Becomes, IInv, BreaksOnlyByClose
  <2>3. CASE session.write_queue # << >>
    <3>1. p = [t EXCEPT !.write_queue = Tail(session.write_queue)]
      BY <1>3, <2>3 DEF pop_front
    <3>2. Tail(session.write_queue) \in Seq(Message)
      BY <1>1, <2>3, HeadTailProperties
    <3>3. /\ p \in Session /\ p.closed = session.closed
          /\ p.queue_broken = session.queue_broken
          /\ p.reads = t.reads /\ p.writes = t.writes
          /\ p.read_in_progress = t.read_in_progress
          /\ p.write_in_progress = t.write_in_progress
          /\ p.read_buffer = t.read_buffer
          /\ p.write_queue = Tail(session.write_queue)
      BY <1>3, <3>1, <3>2 DEF Session
    <3> HIDE DEF p
    <3>4. SessionInv(p, close_called)
      BY <1>5, <1>3, <3>3 DEF SessionInv
    <3>5. /\ SessionInv(schedule_operations(p), close_called)
          /\ schedule_operations(p).closed = session.closed
          /\ schedule_operations(p).queue_broken = session.queue_broken
          /\ Left(schedule_operations(p)) = Left(session)
      BY <1>1, <1>3, <1>7, <3>3, <3>4, ScheduleKeeps DEF SameQueue, Left
    <3> HIDE DEF Left
    <3> QED BY <2>1, <3>5 DEF Becomes, IInv, BreaksOnlyByClose
  <2> QED BY <2>2, <2>3
<1> QED BY <1>6, <1>7

(* The death of the process leaves everything else as it is. *)
LEMMA CrashStep ==
  ASSUME IInv, Crash
  PROVE  IInv'
BY DEF IInv, Crash, BreaksOnlyByClose, SessionInv, Left

(* The socket decides the result of the read. *)
LEMMA SocketReadsStep ==
  ASSUME IInv, NEW status \in {"done", "failed"}, SocketReads(status)
  PROVE  IInv'
<1> DEFINE op == [session.reads[1] EXCEPT !.status = status]
           r  == [session.reads EXCEPT ![1] = op]
           t  == [session EXCEPT !.reads = r]
<1>1. /\ session \in Session /\ SessionInv(session, close_called)
      /\ session.reads \in Seq(ReadOp) /\ session.reads # << >>
      /\ ~session.closed
  BY DEF IInv, SessionInv, Session, SocketReads, IsPending
<1>2. /\ Len(session.reads) \in Nat \ {0}
      /\ session.reads[1] \in ReadOp
      /\ session.reads[1].room = session.read_buffer
  BY <1>1, EmptySeq DEF SessionInv
<1>3. op \in ReadOp /\ op.room = session.read_buffer
  BY <1>2 DEF ReadOp, Status
<1>4. Becomes(t)
  BY DEF SocketReads
<1> HIDE DEF op
<1>5. /\ r \in Seq(ReadOp) /\ Len(r) = Len(session.reads)
      /\ \A i \in 1 .. Len(session.reads) :
           r[i] = IF i = 1 THEN op ELSE session.reads[i]
  BY <1>1, <1>2, <1>3, ExceptSeq
<1> HIDE DEF r
<1>6. \A i \in DOMAIN r : r[i].room = session.read_buffer
  BY <1>1, <1>3, <1>5 DEF SessionInv
<1>7. /\ t \in Session /\ t.reads = r /\ t.closed = session.closed
      /\ t.read_in_progress = session.read_in_progress
      /\ t.read_buffer = session.read_buffer
      /\ t.writes = session.writes
      /\ t.write_in_progress = session.write_in_progress
      /\ t.write_queue = session.write_queue
      /\ t.queue_broken = session.queue_broken
  BY <1>1, <1>5 DEF Session
<1> HIDE DEF t
<1>8. SessionInv(t, close_called) /\ SameQueue(session, t)
  BY <1>1, <1>5, <1>6, <1>7 DEF SessionInv, SameQueue, Left
<1> QED BY <1>4, <1>8, QuietStep

(* What a decided write leaves: an open session, whose write has the status *)
(* decided and the message it had.                                          *)
LEMMA WriteDecided ==
  ASSUME IInv, IsPending(session.writes), NEW status \in {"done", "failed"},
         NEW t, t = [session EXCEPT !.writes[1].status = status]
  PROVE  /\ SessionInv(t, close_called)
         /\ ~session.closed /\ ~t.closed /\ ~close_called
         /\ t.queue_broken = session.queue_broken
         /\ t.write_queue = session.write_queue
         /\ t.write_queue # << >>
         /\ Head(t.write_queue) = Head(session.writes).message
         /\ Left(session) = session.write_queue
         /\ Left(t) = IF status = "done" THEN Tail(session.write_queue)
                      ELSE session.write_queue
<1> DEFINE op == [session.writes[1] EXCEPT !.status = status]
           w  == [session.writes EXCEPT ![1] = op]
<1>1. /\ session \in Session /\ SessionInv(session, close_called)
      /\ session.writes \in Seq(WriteOp) /\ session.writes # << >>
      /\ Head(session.writes).status = "pending"
      /\ ~session.closed /\ ~close_called
  BY DEF IInv, SessionInv, Session, IsPending
<1>2. /\ Len(session.writes) \in Nat \ {0}
      /\ session.writes[1] \in WriteOp
      /\ Head(session.writes) = session.writes[1]
  BY <1>1, EmptySeq
<1>3. /\ op \in WriteOp /\ op.status = status
      /\ op.message = session.writes[1].message
  BY <1>2 DEF WriteOp, Status
<1>4. t = [session EXCEPT !.writes = w]
  OBVIOUS
<1> HIDE DEF op
<1>5. /\ w \in Seq(WriteOp) /\ Len(w) = Len(session.writes) /\ w[1] = op
  BY <1>1, <1>2, <1>3, ExceptSeq
<1>6. w # << >> /\ Head(w) = op
  BY <1>2, <1>5, EmptySeq
<1> HIDE DEF w
<1>7. /\ t \in Session /\ t.writes = w /\ t.closed = session.closed
      /\ t.read_in_progress = session.read_in_progress
      /\ t.read_buffer = session.read_buffer
      /\ t.reads = session.reads
      /\ t.write_in_progress = session.write_in_progress
      /\ t.write_queue = session.write_queue
      /\ t.queue_broken = session.queue_broken
  BY <1>1, <1>4, <1>5 DEF Session
<1>8. /\ session.write_queue # << >>
      /\ Head(session.write_queue) = Head(session.writes).message
  BY <1>1 DEF SessionInv
<1>9. SessionInv(t, close_called)
  BY <1>1, <1>2, <1>3, <1>5, <1>6, <1>7, <1>8 DEF SessionInv
<1>10. /\ Left(session) = session.write_queue
       /\ Left(t) = IF status = "done" THEN Tail(session.write_queue)
                    ELSE session.write_queue
  BY <1>1, <1>3, <1>6, <1>7 DEF Left
<1> QED BY <1>1, <1>7, <1>8, <1>9, <1>10

(* A write that fails leaves its message in the queue. *)
LEMMA SocketWriteFailsStep ==
  ASSUME IInv, SocketWriteFails
  PROVE  IInv'
<1> DEFINE t == [session EXCEPT !.writes[1].status = "failed"]
<1>1. IsPending(session.writes) /\ Becomes(t)
  BY DEF SocketWriteFails
<1>2. t = [session EXCEPT !.writes[1].status = "failed"]
  OBVIOUS
<1> HIDE DEF t
<1>3. SessionInv(t, close_called) /\ SameQueue(session, t)
  BY <1>1, <1>2, WriteDecided DEF SameQueue
<1> QED BY <1>1, <1>3, QuietStep

(* A write that succeeds moves its message from what is left to the wire. *)
LEMMA SocketWritesStep ==
  ASSUME IInv, SocketWrites
  PROVE  IInv'
<1> DEFINE t == [session EXCEPT !.writes[1].status = "done"]
<1>1. /\ IsPending(session.writes)
      /\ session' = t
      /\ wire' = Append(wire, Head(session.writes).message)
      /\ UNCHANGED <<process, close_called, accepted>>
  BY DEF SocketWrites
<1>2. t = [session EXCEPT !.writes[1].status = "done"]
  OBVIOUS
<1> HIDE DEF t
<1>3. /\ SessionInv(t, close_called)
      /\ ~session.closed /\ ~close_called
      /\ t.queue_broken = session.queue_broken
      /\ session.write_queue # << >>
      /\ Head(session.write_queue) = Head(session.writes).message
      /\ Left(session) = session.write_queue
      /\ Left(t) = Tail(session.write_queue)
  BY <1>1, <1>2, WriteDecided
<1>4. /\ session.write_queue \in Seq(Message)
      /\ Head(session.write_queue) \in Message
      /\ wire \in Seq(Message)
      /\ accepted = wire \o session.write_queue
  BY <1>3, HeadTailProperties DEF IInv, SessionInv, Session
<1>5. Append(wire, Head(session.write_queue)) \o Tail(session.write_queue)
        = accepted
  BY <1>3, <1>4, ConcatHeadTail
<1>6. wire' = Append(wire, Head(session.write_queue))
  BY <1>1, <1>3
<1>7. wire' \in Seq(Message)
  BY <1>4, <1>6, AppendProperties
<1>8. Left(session') = Tail(session.write_queue)
  BY <1>1, <1>3
<1>9. accepted' = wire' \o Left(session')
  BY <1>1, <1>5, <1>6, <1>8
<1> QED BY <1>1, <1>3, <1>7, <1>9 DEF IInv, BreaksOnlyByClose
-----------------------------------------------------------------------------
(* The invariant holds of a new session. *)
LEMMA InitInv == Init => IInv
<1> SUFFICES ASSUME Init PROVE IInv
  OBVIOUS
<1>1. session \in Session
  BY EmptySeq DEF Init, Session, DuplexMode, default_read_buffer_size
<1>2. SessionInv(session, close_called)
  BY <1>1, EmptySeq DEF Init, SessionInv, IsPending
<1>3. accepted = wire \o Left(session)
  BY EmptySeq, ConcatEmptySeq DEF Init, Left
<1> QED BY <1>2, <1>3, EmptySeq DEF Init, IInv, BreaksOnlyByClose

(* Every step keeps the invariant. *)
LEMMA NextInv == IInv /\ [Next]_vars => IInv'
<1> SUFFICES ASSUME IInv, [Next]_vars PROVE IInv'
  OBVIOUS
<1>1. CASE UNCHANGED vars
  BY <1>1 DEF vars, IInv, BreaksOnlyByClose, SessionInv, Left
<1>2. CASE User
  BY <1>2, CallStep, SendStep, CloseStep DEF User
<1>3. CASE OnRead
  BY <1>3, OnReadStep
<1>4. CASE OnWrite
  BY <1>4, OnWriteStep
<1>5. CASE Crash
  BY <1>5, CrashStep
<1>6. CASE Socket
  BY <1>6, SocketReadsStep, SocketWritesStep, SocketWriteFailsStep DEF Socket
<1> QED BY <1>1, <1>2, <1>3, <1>4, <1>5, <1>6 DEF Next

(* The invariant holds throughout. *)
LEMMA SpecInv == Spec => []IInv
BY InitInv, NextInv, PTL DEF Spec
-----------------------------------------------------------------------------
(* The deprecated session keeps its types, a flag is up exactly while its  *)
(* operation is outstanding, and the buffer of an outstanding read is not  *)
(* resized.                                                                *)
THEOREM TypeCorrect == Spec => []TypeOK
<1>1. IInv => TypeOK
  BY DEF IInv, SessionInv, TypeOK
<1> QED BY <1>1, SpecInv, PTL

(* The write completion pops from an empty queue only after the user's own *)
(* close(): no error on the socket, in whatever order, makes it do so.     *)
THEOREM OnlyCloseBreaks == Spec => []BreaksOnlyByClose
<1>1. IInv => BreaksOnlyByClose
  BY DEF IInv
<1> QED BY <1>1, SpecInv, PTL

(* A write that succeeds is the Transmit step of the link. *)
LEMMA TransmitStep ==
  ASSUME IInv, SocketWrites
  PROVE  Link!Transmit
<1> DEFINE t == [session EXCEPT !.writes[1].status = "done"]
<1>1. /\ IsPending(session.writes)
      /\ session' = t
      /\ wire' = Append(wire, Head(session.writes).message)
      /\ accepted' = accepted
  BY DEF SocketWrites
<1>2. t = [session EXCEPT !.writes[1].status = "done"]
  OBVIOUS
<1> HIDE DEF t
<1>3. /\ ~session.closed /\ ~t.closed
      /\ session.write_queue # << >>
      /\ Head(session.write_queue) = Head(session.writes).message
      /\ Left(session) = session.write_queue
  BY <1>1, <1>2, WriteDecided
<1>4. session.closed \in BOOLEAN /\ session'.closed \in BOOLEAN
  BY SocketWritesStep DEF IInv, SessionInv, Session
<1>5. /\ session.write_queue \in Seq(Message)
      /\ wire \in Seq(Message)
      /\ accepted = wire \o session.write_queue
  BY <1>3 DEF IInv, SessionInv, Session
<1>6. /\ Len(wire) < Len(accepted)
      /\ accepted[Len(wire) + 1] = Head(session.write_queue)
  <2>1. /\ Len(accepted) = Len(wire) + Len(session.write_queue)
        /\ \A i \in 1 .. Len(wire) + Len(session.write_queue) :
             accepted[i] = IF i <= Len(wire) THEN wire[i]
                           ELSE session.write_queue[i - Len(wire)]
    BY <1>5, ConcatProperties
  <2>2. Len(wire) \in Nat /\ Len(session.write_queue) \in Nat
        /\ Len(session.write_queue) > 0
    BY <1>3, <1>5, EmptySeq
  <2>3. Head(session.write_queue) = session.write_queue[1]
    BY <1>3, <1>5
  <2> QED BY <2>1, <2>2, <2>3
<1> QED BY <1>1, <1>3, <1>4, <1>6 DEF Link!Transmit

(* send() on an open session is the Accept step, on a closed one nothing.  *)
LEMMA AcceptStep ==
  ASSUME IInv, NEW m \in Message, Send(m)
  PROVE  Link!Accept(m) \/ UNCHANGED <<accepted, wire, session.closed>>
<1>1. session'.closed = session.closed /\ wire' = wire
  BY SendEffect DEF Send
<1>2. accepted' = IF session.closed THEN accepted ELSE Append(accepted, m)
  BY DEF Send
<1> QED BY <1>1, <1>2 DEF Link!Accept

(* A closed session starts nothing. *)
LEMMA ClosedStartsNothing ==
  ASSUME NEW s, s.closed
  PROVE  schedule_operations(s) = s /\ close_socket(s) = s
BY DEF schedule_operations, can_start_read, can_start_write, close_socket

(* Once closed, a session stays closed, also when it is opened again. *)
LEMMA StaysClosed ==
  ASSUME IInv, [Next]_vars, session.closed
  PROVE  session'.closed
<1>1. session \in Session
  BY DEF IInv, SessionInv
<1>2. CASE UNCHANGED vars \/ Crash
  BY <1>2 DEF vars, Crash
<1>3. CASE User
  <2>1. ASSUME NEW succeeds \in BOOLEAN, Open(succeeds) PROVE session'.closed
    BY <1>1, <2>1 DEF Open, open, Becomes, Session
  <2>2. ASSUME NEW mode \in DuplexMode, SetDuplexMode(mode)
        PROVE  session'.closed
    <3> DEFINE t == [session EXCEPT !.duplex_mode = mode]
    <3>1. t.closed
      BY <1>1 DEF Session
    <3>2. session' = schedule_operations(t)
      BY <2>2 DEF SetDuplexMode, set_duplex_mode, Becomes
    <3> HIDE DEF t
    <3> QED BY <3>1, <3>2, ClosedStartsNothing
  <2>3. CASE \/ \E set \in BOOLEAN : SetReadHandler(set)
             \/ \E size \in BufferSize \cup {0} : SetReadBufferSize(size)
             \/ StopReading
    BY <1>1, <2>3
       DEF SetReadHandler, set_read_handler, SetReadBufferSize,
           set_read_buffer_size, StopReading, stop_reading, Becomes, Session
  <2>4. CASE StartReading
    <3> DEFINE t == [session EXCEPT !.read_enabled = TRUE]
    <3>1. t.closed
      BY <1>1 DEF Session
    <3>2. session' = schedule_operations(t)
      BY <2>4 DEF StartReading, start_reading, Becomes
    <3> HIDE DEF t
    <3> QED BY <3>1, <3>2, ClosedStartsNothing
  <2>5. ASSUME NEW m \in Message, Send(m) PROVE session'.closed
    BY <2>5, SendEffect DEF Send
  <2>6. CASE Close
    BY <2>6, CloseStep DEF IInv, Close
  <2> QED BY <1>3, <2>1, <2>2, <2>3, <2>4, <2>5, <2>6 DEF User
<1>4. CASE OnRead
  <2> DEFINE t == [session EXCEPT !.read_in_progress = FALSE,
                                  !.reads = Tail(session.reads)]
  <2>1. t.closed
    BY <1>1 DEF Session
  <2>2. session' = schedule_operations(t) \/ session' = close_socket(t)
    BY <1>4 DEF OnRead, Becomes
  <2> HIDE DEF t
  <2> QED BY <2>1, <2>2, ClosedStartsNothing
<1>5. CASE OnWrite
  <2> DEFINE t == [session EXCEPT !.write_in_progress = FALSE,
                                  !.writes = Tail(session.writes)]
  <2>1. t.closed /\ pop_front(t).closed
    BY <1>1 DEF Session, pop_front
  <2>2. \/ session' = schedule_operations(pop_front(t))
        \/ session' = close_socket(t)
    BY <1>5 DEF OnWrite, Becomes
  <2> HIDE DEF t
  <2> QED BY <2>1, <2>2, ClosedStartsNothing
<1>6. CASE Socket
  BY <1>1, <1>6
     DEF Socket, SocketReads, SocketWrites, SocketWriteFails, Becomes, Session
<1> QED BY <1>2, <1>3, <1>4, <1>5, <1>6 DEF Next

(* A step that leaves both histories alone shuts the link or stutters. *)
LEMMA ShutStep ==
  ASSUME IInv, [Next]_vars, accepted' = accepted, wire' = wire
  PROVE  Link!Shut \/ UNCHANGED <<accepted, wire, session.closed>>
<1>1. session.closed \in BOOLEAN /\ session'.closed \in BOOLEAN
  BY NextInv DEF IInv, SessionInv, Session
<1>2. session.closed => session'.closed
  BY StaysClosed
<1> QED BY <1>1, <1>2 DEF Link!Shut

(* Every step of the session is a step of the link or a stutter. *)
LEMMA LinkStep ==
  ASSUME IInv, [Next]_vars
  PROVE  [Link!Next]_(Link!vars)
<1>1. CASE \E m \in Message : Send(m)
  BY <1>1, AcceptStep DEF Link!Next, Link!vars
<1>2. CASE SocketWrites
  BY <1>2, TransmitStep DEF Link!Next
<1>3. CASE accepted' = accepted /\ wire' = wire
  BY <1>3, ShutStep DEF Link!Next, Link!vars
<1> QED
  BY <1>1, <1>2, <1>3
     DEF Next, vars, User, Open, SetDuplexMode, SetReadHandler,
         SetReadBufferSize, StartReading, StopReading, Close, OnRead, OnWrite,
         Crash, Socket, SocketReads, SocketWriteFails, Becomes

(* Sending through the deprecated session implements the in-order link     *)
(* FifoLink, undefined pops included.                                      *)
THEOREM ImplementsFifoLink == Spec => IsFifoLink
<1>1. Init => Link!Init
  BY DEF Init, Link!Init
<1>2. IInv /\ [Next]_vars => [Link!Next]_(Link!vars)
  BY LinkStep
<1> QED BY <1>1, <1>2, SpecInv, PTL DEF Spec, IsFifoLink, Link!Spec
=============================================================================
