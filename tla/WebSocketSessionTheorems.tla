---------------------- MODULE WebSocketSessionTheorems ----------------------
(***************************************************************************)
(* Proofs about the traffic of a WebSocket session, client or server: its  *)
(* types and flags, that sending implements the in-order link although the *)
(* stream sends in pieces, and that a server never sends from memory that  *)
(* was freed; for any messages, in any number of pieces.                   *)
(***************************************************************************)
EXTENDS WebSocketSession, OperationLemmas

(* No piece came from freed memory. *)
Live(s) == \A i \in DOMAIN s.writes : Freed \notin s.writes[i].sources

(* What holds of the session object also between the calls a handler makes. *)
(* All pieces of a write came from the front of the queue, as long as the   *)
(* session is open; close() frees the queue, and leaves nothing pending.    *)
SessionInv(s) ==
  /\ s \in Session
  /\ Len(s.reads)  = IF s.read_in_progress  THEN 1 ELSE 0
  /\ Len(s.writes) = IF s.write_in_progress THEN 1 ELSE 0
  /\ s.closed => /\ ~s.is_open /\ s.write_queue = << >>
                 /\ ~IsPending(s.reads) /\ ~IsPending(s.writes)
  /\ ~s.closed /\ s.writes # << >> =>
       /\ s.write_queue # << >>
       /\ Head(s.writes).sources \subseteq {Head(s.write_queue)}
       /\ s.role = "client" => Head(s.writes).sources = {Head(s.write_queue)}
  /\ s.role = "server" => Live(s)

(* Whenever the strand is idle, or the read handler runs, all that is      *)
(* queued has been scheduled: the front of the queue is being written.     *)
Scheduled(s) ==
  ~s.closed /\ s.write_queue # << >> => s.write_in_progress

(* The messages that are not out yet.  The one whose last piece is out is  *)
(* still in front of the queue until its completion removes it.            *)
Left(s) == IF /\ s.writes # << >>
              /\ Head(s.writes).status = "done" /\ Head(s.writes).left = 0
           THEN Tail(s.write_queue) ELSE s.write_queue

(* a is the beginning of b. *)
Begins(a, b) ==
  /\ Len(a) <= Len(b)
  /\ \A i \in 1 .. Len(a) : a[i] = b[i]

(* A session s, with the strand at k, that has accepted acc and sent w.    *)
(* While it is open, what it has accepted is what has gone out and what is *)
(* left, and afterwards nothing more goes out; nothing freed ever does;    *)
(* and whatever ran last has left no read to be started.                   *)
Sound(s, k, acc, w) ==
  /\ SessionInv(s)
  /\ Scheduled(s)
  /\ k = "idle" => ~can_start_read(s)
  /\ k \in {"idle", "after_data", "after_error"}
  /\ acc \in Seq(Message)
  /\ w \in Seq(Message)
  /\ ~s.closed => acc = w \o Left(s)
  /\ Begins(w, acc)

IInv == Sound(session, strand, accepted, wire)

(* t holds the messages of s, and is closed if s is. *)
SameMessages(s, t) ==
  t.write_queue = s.write_queue /\ t.closed = s.closed /\ Left(t) = Left(s)
-----------------------------------------------------------------------------
(* The operators. *)

(* A history is the beginning of what it is continued to. *)
LEMMA BeginsConcat ==
  ASSUME NEW a \in Seq(Message), NEW b \in Seq(Message)
  PROVE  Begins(a, a \o b)
<1>1. /\ Len(a \o b) = Len(a) + Len(b)
      /\ \A i \in 1 .. Len(a) + Len(b) :
           (a \o b)[i] = IF i <= Len(a) THEN a[i] ELSE b[i - Len(a)]
  BY ConcatProperties
<1>2. Len(a) \in Nat /\ Len(b) \in Nat
  BY LenProperties
<1> QED BY <1>1, <1>2 DEF Begins

(* It stays so when that is continued by one more message. *)
LEMMA BeginsAppend ==
  ASSUME NEW a \in Seq(Message), NEW b \in Seq(Message), Begins(a, b),
         NEW m \in Message
  PROVE  Begins(a, Append(b, m))
<1>1. /\ Len(Append(b, m)) = Len(b) + 1
      /\ \A i \in 1 .. Len(b) : Append(b, m)[i] = b[i]
  BY AppendProperties
<1>2. Len(a) \in Nat /\ Len(b) \in Nat
  BY LenProperties
<1> QED BY <1>1, <1>2 DEF Begins

(* A session with no write outstanding has none that took freed memory.    *)
LEMMA NoWriteIsLive ==
  ASSUME NEW s, s.writes = << >>
  PROVE  Live(s)
BY DEF Live

(* A session with one write.                                               *)
LEMMA OneWriteIsLive ==
  ASSUME NEW s, NEW op \in WriteOp, s.writes = << op >>, Freed \notin op.sources
  PROVE  Live(s)
BY DEF Live

(* The messages left are some of the queue.                                *)
LEMMA LeftType ==
  ASSUME NEW s, SessionInv(s), ~s.closed
  PROVE  Left(s) \in Seq(Message)
<1>1. s.write_queue \in Seq(Message)
  BY DEF SessionInv, Session
<1>2. s.writes # << >> => s.write_queue # << >>
  BY DEF SessionInv
<1> QED BY <1>1, <1>2, HeadTailProperties DEF Left

(* close() closes, and leaves nothing pending.                             *)
LEMMA CloseKeeps ==
  ASSUME NEW s, SessionInv(s)
  PROVE  SessionInv(Core!close(s)) /\ Core!close(s).closed
<1> DEFINE r == Aborted(s.reads)
           w == Aborted(s.writes)
           t == [s EXCEPT !.read_enabled = FALSE, !.write_queue = << >>,
                          !.closed = TRUE, !.is_open = FALSE,
                          !.connected = FALSE, !.reads = r, !.writes = w]
<1>1. s \in Session /\ s.reads \in Seq(ReadOp) /\ s.writes \in Seq(WriteOp)
  BY DEF SessionInv, Session
<1>2. CASE s.closed
  BY <1>2 DEF Core!close
<1>3. CASE ~s.closed
  <2>1. Core!close(s) = t
    BY <1>1, <1>3 DEF Core!close, close_transport, Session
  <2>2. /\ \A op \in ReadOp :
             /\ [op EXCEPT !.status = "aborted"] \in ReadOp
             /\ [op EXCEPT !.status = "aborted"].status = "aborted"
        /\ \A op \in WriteOp :
             /\ [op EXCEPT !.status = "aborted"] \in WriteOp
             /\ [op EXCEPT !.status = "aborted"].status = "aborted"
    BY DEF ReadOp, WriteOp, Status
  <2>3. r \in Seq(ReadOp) /\ Len(r) = Len(s.reads) /\ ~IsPending(r)
    BY <1>1, <2>2, AbortedOps, AbortedNotPending
  <2>4. w \in Seq(WriteOp) /\ Len(w) = Len(s.writes) /\ ~IsPending(w)
    BY <1>1, <2>2, AbortedOps, AbortedNotPending
  <2>5. /\ DOMAIN w = DOMAIN s.writes
        /\ \A i \in DOMAIN w : w[i].sources = s.writes[i].sources
    <3>1. /\ DOMAIN w = DOMAIN s.writes
          /\ \A i \in DOMAIN s.writes :
               w[i] = IF s.writes[i].status = "pending"
                      THEN [s.writes[i] EXCEPT !.status = "aborted"]
                      ELSE s.writes[i]
      BY DEF Aborted
    <3>2. \A i \in DOMAIN s.writes : s.writes[i] \in WriteOp
      BY <1>1
    <3>3. \A op \in WriteOp :
            [op EXCEPT !.status = "aborted"].sources = op.sources
      BY DEF WriteOp
    <3> HIDE DEF w
    <3> QED BY <3>1, <3>2, <3>3
  <2> HIDE DEF r, w
  <2>6. /\ t \in Session /\ t.reads = r /\ t.writes = w /\ t.closed
        /\ ~t.is_open /\ t.role = s.role
        /\ t.read_in_progress = s.read_in_progress
        /\ t.write_in_progress = s.write_in_progress
        /\ t.write_queue = << >>
    BY <1>1, <2>3, <2>4, EmptySeq DEF Session
  <2> HIDE DEF t
  <2>7. Live(s) => Live(t)
    BY <2>5, <2>6 DEF Live
  <2>8. SessionInv(t)
    BY <2>3, <2>4, <2>6, <2>7, <1>1 DEF SessionInv
  <2> QED BY <2>1, <2>6, <2>8
<1> QED BY <1>2, <1>3

(* A write is started on the front of the queue.                           *)
LEMMA DoWrite ==
  ASSUME NEW s, SessionInv(s), can_start_write(s)
  PROVE  /\ SessionInv(do_write(s)) /\ SameMessages(s, do_write(s))
         /\ Scheduled(do_write(s))
<1> DEFINE m  == Head(s.write_queue)
           c  == Copies(s)
           op == [status |-> InitialStatus(s), left |-> Pieces[m] - 1,
                  sources |-> c]
           t  == [s EXCEPT !.write_in_progress = TRUE, !.writes = << op >>]
<1>1. /\ s \in Session /\ ~s.write_in_progress /\ s.write_queue # << >>
      /\ ~s.closed
  BY DEF SessionInv, can_start_write, has_pending_writes, Session
<1>2. m \in Message
  BY <1>1, HeadTailProperties DEF Session
<1>3. s.writes = << >>
  <2>1. s.writes \in Seq(WriteOp) /\ Len(s.writes) = 0
    BY <1>1 DEF SessionInv, Session
  <2> QED BY <2>1, EmptySeq
<1>4. /\ c \subseteq {m} /\ c \in SUBSET (Message \cup {Freed})
      /\ s.role = "client" => c = {m}
      /\ Freed \notin c
  BY <1>1, <1>2, WebSocketSessionAssumption
     DEF Copies, Front, has_pending_writes, current_write
<1>5. Pieces[m] - 1 \in Nat
  BY <1>2, WebSocketSessionAssumption
<1>6. do_write(s) = t
  <2> DEFINE u == mark_write_started(s)
  <2>1. do_write(s) = async_write(u, m)
    BY <1>1 DEF do_write, has_pending_writes, current_write
  <2>2. /\ u = [s EXCEPT !.write_in_progress = TRUE]
        /\ u.writes = << >> /\ Copies(u) = c
        /\ InitialStatus(u) = InitialStatus(s)
    BY <1>1, <1>3 DEF mark_write_started, Session, InitialStatus, Copies, Front,
                      has_pending_writes, current_write
  <2> HIDE DEF u, c
  <2>3. async_write(u, m) = [u EXCEPT !.writes = Append(<< >>, op)]
    BY <2>2 DEF async_write
  <2> QED BY <1>1, <2>1, <2>2, <2>3 DEF Session
<1> HIDE DEF c
<1>7. /\ op \in WriteOp /\ op.status # "done" /\ op.sources = c
  BY <1>4, <1>5 DEF WriteOp, Status, InitialStatus
<1> HIDE DEF op
<1>8. << op >> \in Seq(WriteOp) /\ Len(<< op >>) = 1 /\ Head(<< op >>) = op
  BY <1>7
<1>9. /\ t \in Session /\ t.reads = s.reads /\ t.role = s.role
      /\ t.read_in_progress = s.read_in_progress
      /\ t.closed = s.closed /\ t.write_queue = s.write_queue
      /\ t.write_in_progress /\ t.writes = << op >>
  BY <1>1, <1>8 DEF Session
<1> HIDE DEF t
<1>10. Live(t)
  BY <1>4, <1>7, <1>9, OneWriteIsLive
<1>11. SessionInv(t)
  BY <1>1, <1>4, <1>7, <1>8, <1>9, <1>10 DEF SessionInv
<1>12. SameMessages(s, t) /\ Scheduled(t)
  BY <1>3, <1>7, <1>8, <1>9 DEF SameMessages, Left, Scheduled
<1> QED BY <1>6, <1>11, <1>12

(* A read that is started changes nothing about the messages.              *)
LEMMA DoRead ==
  ASSUME NEW s, SessionInv(s), can_start_read(s)
  PROVE  /\ SessionInv(do_read(s)) /\ SameMessages(s, do_read(s))
         /\ do_read(s).write_in_progress = s.write_in_progress
         /\ ~can_start_read(do_read(s))
<1> DEFINE op == [status |-> InitialStatus(s)]
           t  == [s EXCEPT !.read_in_progress = TRUE, !.reads = << op >>]
<1>1. s \in Session /\ ~s.read_in_progress /\ ~s.closed
  BY DEF SessionInv, can_start_read
<1>2. s.reads = << >>
  <2>1. s.reads \in Seq(ReadOp) /\ Len(s.reads) = 0
    BY <1>1 DEF SessionInv, Session
  <2> QED BY <2>1, EmptySeq
<1>3. op \in ReadOp
  BY DEF ReadOp, Status, InitialStatus
<1>4. do_read(s) = t
  <2> DEFINE u == mark_read_started(s)
  <2>1. /\ u = [s EXCEPT !.read_in_progress = TRUE]
        /\ u.reads = << >> /\ InitialStatus(u) = InitialStatus(s)
    BY <1>1, <1>2 DEF mark_read_started, Session, InitialStatus
  <2>2. do_read(s) = async_read(u)
    BY DEF do_read
  <2> HIDE DEF u
  <2>3. async_read(u) = [u EXCEPT !.reads = Append(<< >>, op)]
    BY <2>1 DEF async_read
  <2> QED BY <1>1, <2>1, <2>2, <2>3 DEF Session
<1> HIDE DEF op
<1>5. << op >> \in Seq(ReadOp) /\ Len(<< op >>) = 1
  BY <1>3
<1>6. /\ t \in Session /\ t.writes = s.writes /\ t.role = s.role
      /\ t.write_in_progress = s.write_in_progress
      /\ t.closed = s.closed /\ t.write_queue = s.write_queue
      /\ t.read_in_progress /\ t.reads = << op >>
  BY <1>1, <1>5 DEF Session
<1> HIDE DEF t
<1>7. SessionInv(t)
  BY <1>1, <1>5, <1>6 DEF SessionInv, Live
<1>8. SameMessages(s, t)
  BY <1>6 DEF SameMessages, Left
<1> QED BY <1>4, <1>6, <1>7, <1>8 DEF can_start_read

(* schedule_operations keeps the messages and starts their writing.        *)
LEMMA ScheduleKeeps ==
  ASSUME NEW s, SessionInv(s)
  PROVE  /\ SessionInv(Core!schedule_operations(s))
         /\ Scheduled(Core!schedule_operations(s))
         /\ ~can_start_read(Core!schedule_operations(s))
         /\ SameMessages(s, Core!schedule_operations(s))
<1> DEFINE w == IF can_start_write(s) THEN do_write(s) ELSE s
           t == IF can_start_read(w) THEN do_read(w) ELSE w
<1>1. Core!schedule_operations(s) = t
  BY DEF Core!schedule_operations
<1>2. SessionInv(w) /\ Scheduled(w) /\ SameMessages(s, w)
  <2>1. CASE can_start_write(s)
    BY <2>1, DoWrite
  <2>2. CASE ~can_start_write(s)
    BY <2>2 DEF can_start_write, has_pending_writes, Scheduled, SameMessages
  <2> QED BY <2>1, <2>2
<1> HIDE DEF w
<1>3. CASE can_start_read(w)
  <2>1. t = do_read(w)
    BY <1>3
  <2>2. /\ SessionInv(t) /\ SameMessages(w, t)
        /\ t.write_in_progress = w.write_in_progress
        /\ ~can_start_read(t)
    BY <1>2, <1>3, <2>1, DoRead
  <2> HIDE DEF t
  <2> QED BY <1>1, <1>2, <2>2 DEF SameMessages, Scheduled
<1>4. CASE ~can_start_read(w)
  BY <1>1, <1>2, <1>4
<1> QED BY <1>3, <1>4
-----------------------------------------------------------------------------
(* What the operations and completions of any session keep.                *)

(* A step of session s, with the strand at k, that prepares a session u    *)
(* with the messages of s, and rests there or schedules.  It does not      *)
(* close the session.                                                      *)
LEMMA QuietKeeps ==
  ASSUME NEW s, NEW k, NEW acc, NEW w, Sound(s, k, acc, w),
         NEW u, SessionInv(u), SameMessages(s, u),
         NEW t, NEW l \in {"idle", "after_data", "after_error"},
         \/ /\ t = u
            /\ u.write_in_progress = s.write_in_progress
            /\ l = "idle" =>
                 k = "idle" /\ (can_start_read(u) => can_start_read(s))
         \/ t = Core!schedule_operations(u)
  PROVE  Sound(t, l, acc, w) /\ SameMessages(s, t)
<1>1. /\ SessionInv(t) /\ Scheduled(t) /\ SameMessages(s, t)
      /\ l = "idle" => ~can_start_read(t)
  <2>1. CASE /\ t = u
             /\ u.write_in_progress = s.write_in_progress
             /\ l = "idle" =>
                  k = "idle" /\ (can_start_read(u) => can_start_read(s))
    BY <2>1 DEF Sound, Scheduled, SameMessages
  <2>2. CASE t = Core!schedule_operations(u)
    BY <2>2, ScheduleKeeps DEF SameMessages
  <2> QED BY <2>1, <2>2
<1>2. ~t.closed => acc = w \o Left(t)
  BY <1>1 DEF Sound, SameMessages
<1> QED BY <1>1, <1>2 DEF Sound

(* A step that changes no message and starts nothing, and is not the end of *)
(* a handler.                                                              *)
LEMMA RestKeeps ==
  ASSUME NEW s, NEW k, NEW acc, NEW w, Sound(s, k, acc, w),
         NEW t, SessionInv(t), SameMessages(s, t),
         t.write_in_progress = s.write_in_progress,
         can_start_read(t) => can_start_read(s)
  PROVE  Sound(t, k, acc, w)
<1>1. k \in {"idle", "after_data", "after_error"}
  BY DEF Sound
<1> QED BY <1>1, QuietKeeps

(* A step that closes the session.                                         *)
LEMMA ClosingKeeps ==
  ASSUME NEW s, NEW k, NEW acc, NEW w, Sound(s, k, acc, w),
         NEW u, SessionInv(u), NEW t, t = Core!close(u),
         NEW l \in {"idle", "after_data", "after_error"}
  PROVE  Sound(t, l, acc, w) /\ t.closed
<1>1. SessionInv(t) /\ t.closed
  BY CloseKeeps
<1>2. Scheduled(t) /\ ~can_start_read(t)
  BY <1>1 DEF Scheduled, can_start_read
<1> QED BY <1>1, <1>2 DEF Sound

(* A change of fields the invariant does not look at.                      *)
Tweaked(s, t) ==
  /\ t \in Session
  /\ t.role = s.role
  /\ t.write_queue = s.write_queue
  /\ t.closed = s.closed /\ t.is_open = s.is_open
  /\ t.read_in_progress = s.read_in_progress /\ t.reads = s.reads
  /\ t.write_in_progress = s.write_in_progress /\ t.writes = s.writes

(* Such a change is nothing the invariant depends on, unless it enables    *)
(* reading: then schedule_operations has to follow.                        *)
LEMMA TweakKeeps ==
  ASSUME NEW s, NEW k, NEW acc, NEW w, Sound(s, k, acc, w),
         NEW u, Tweaked(s, u), NEW t,
         \/ t = u /\ (u.read_enabled => s.read_enabled)
         \/ t = Core!schedule_operations(u)
  PROVE  Sound(t, k, acc, w) /\ SameMessages(s, t)
<1>1. /\ s \in Session /\ SessionInv(s)
      /\ k \in {"idle", "after_data", "after_error"}
  BY DEF Sound, SessionInv
<1>2. SessionInv(u) /\ SameMessages(s, u)
  BY <1>1 DEF Tweaked, SessionInv, SameMessages, Left, Live
<1>3. u.write_in_progress = s.write_in_progress
  BY DEF Tweaked
<1>4. CASE t = u /\ (u.read_enabled => s.read_enabled)
  <2>1. can_start_read(u) => can_start_read(s)
    BY <1>4 DEF Tweaked, can_start_read
  <2> QED BY <1>1, <1>2, <1>3, <1>4, <2>1, QuietKeeps
<1>5. CASE t = Core!schedule_operations(u)
  BY <1>1, <1>2, <1>5, QuietKeeps
<1> QED BY <1>4, <1>5

(* set_read_handler(), start_reading(), stop_reading() and the silent loss *)
(* of the connection move no message and do not close.                     *)
LEMMA CallKeeps ==
  ASSUME NEW s, NEW k, NEW acc, NEW w, Sound(s, k, acc, w), NEW t,
         \/ \E set \in BOOLEAN : t = set_read_handler(s, set)
         \/ t = Core!start_reading(s)
         \/ t = stop_reading(s)
         \/ t = [s EXCEPT !.connected = FALSE]
  PROVE  Sound(t, k, acc, w) /\ SameMessages(s, t)
<1>1. s \in Session
  BY DEF Sound, SessionInv
<1>2. ASSUME NEW set \in BOOLEAN, t = set_read_handler(s, set)
      PROVE  Sound(t, k, acc, w) /\ SameMessages(s, t)
  <2>1. Tweaked(s, t) /\ t.read_enabled = s.read_enabled
    BY <1>1, <1>2 DEF set_read_handler, Tweaked, Session
  <2> QED BY <2>1, TweakKeeps
<1>3. CASE t = Core!start_reading(s)
  <2>1. Tweaked(s, [s EXCEPT !.read_enabled = TRUE])
    BY <1>1 DEF Tweaked, Session
  <2>2. Tweaked(s, s)
    BY <1>1 DEF Tweaked
  <2> QED BY <1>3, <2>1, <2>2, TweakKeeps DEF Core!start_reading
<1>4. CASE t = stop_reading(s)
  <2>1. Tweaked(s, t) /\ ~t.read_enabled
    BY <1>1, <1>4 DEF stop_reading, Tweaked, Session
  <2> QED BY <2>1, TweakKeeps
<1>5. CASE t = [s EXCEPT !.connected = FALSE]
  <2>1. Tweaked(s, t) /\ t.read_enabled = s.read_enabled
    BY <1>1, <1>5 DEF Tweaked, Session
  <2> QED BY <2>1, TweakKeeps
<1> QED BY <1>2, <1>3, <1>4, <1>5

(* send(): on an open session the message is queued behind the others, on  *)
(* a closed one nothing happens.                                           *)
LEMMA SendKeeps ==
  ASSUME NEW s, NEW k, NEW acc, NEW w, Sound(s, k, acc, w),
         NEW m \in Message, NEW t, t = Core!enqueue_write(s, m),
         NEW bcc, bcc = IF s.closed THEN acc ELSE Append(acc, m)
  PROVE  Sound(t, k, bcc, w) /\ t.closed = s.closed
<1> DEFINE q == Append(s.write_queue, m)
           u == [s EXCEPT !.write_queue = q]
<1>1. /\ s \in Session /\ SessionInv(s) /\ Scheduled(s)
      /\ s.write_queue \in Seq(Message)
      /\ s.writes \in Seq(WriteOp)
      /\ acc \in Seq(Message) /\ w \in Seq(Message)
      /\ k \in {"idle", "after_data", "after_error"}
  BY DEF Sound, SessionInv, Session
<1>2. CASE s.closed
  BY <1>2 DEF Core!enqueue_write
<1>3. CASE ~s.closed
  <2>1. t = Core!schedule_operations(u) /\ bcc = Append(acc, m)
    BY <1>3 DEF Core!enqueue_write
  <2>2. /\ q \in Seq(Message) /\ q # << >>
        /\ s.write_queue # << >> =>
             /\ Head(q) = Head(s.write_queue)
             /\ Tail(q) = Append(Tail(s.write_queue), m)
    BY <1>1, HeadTailAppend, AppendProperties
  <2>3. q = Append(s.write_queue, m)
    OBVIOUS
  <2> HIDE DEF q
  <2>4. /\ u \in Session /\ u.write_queue = q /\ ~u.closed
        /\ u.role = s.role /\ u.is_open = s.is_open
        /\ u.read_in_progress = s.read_in_progress
        /\ u.reads = s.reads /\ u.writes = s.writes
        /\ u.write_in_progress = s.write_in_progress
    BY <1>1, <1>3, <2>2 DEF Session
  <2> HIDE DEF u
  <2>5. SessionInv(u)
    BY <1>1, <1>3, <2>2, <2>4 DEF SessionInv, Live
  <2>6. Left(u) = Append(Left(s), m)
    <3>1. s.writes # << >> => s.write_queue # << >>
      BY <1>1, <1>3 DEF SessionInv
    <3>2. CASE /\ s.writes # << >>
               /\ Head(s.writes).status = "done"
               /\ Head(s.writes).left = 0
      BY <2>2, <2>4, <3>1, <3>2 DEF Left
    <3>3. CASE ~(/\ s.writes # << >>
                 /\ Head(s.writes).status = "done"
                 /\ Head(s.writes).left = 0)
      BY <2>3, <2>4, <3>3 DEF Left
    <3> QED BY <3>2, <3>3
  <2>7. /\ SessionInv(t) /\ Scheduled(t)
        /\ ~can_start_read(t)
        /\ SameMessages(u, t)
    BY <2>1, <2>5, ScheduleKeeps
  <2>8. Left(s) \in Seq(Message) /\ acc = w \o Left(s)
    BY <1>1, <1>3, LeftType DEF Sound
  <2>9. w \o Append(Left(s), m) = Append(w \o Left(s), m)
    BY <1>1, <2>8, ConcatAppend
  <2>10. bcc \in Seq(Message) /\ bcc = w \o Left(t)
    BY <1>1, <1>3, <2>1, <2>6, <2>7, <2>8, <2>9, AppendProperties
       DEF SameMessages
  <2>11. t.closed = s.closed
    <3>1. t \in Session
      BY <2>7 DEF SessionInv
    <3> QED BY <1>1, <1>3, <2>4, <2>7, <3>1 DEF SameMessages, Session
  <2>12. Begins(w, bcc)
    BY <1>1, <2>1, BeginsAppend DEF Sound
  <2> QED BY <1>1, <2>7, <2>10, <2>11, <2>12 DEF Sound
<1> QED BY <1>2, <1>3

(* What the read completion does first. *)
ReadTaken(s) == mark_read_finished([s EXCEPT !.reads = Tail(@)])

(* The read completion takes its operation and leaves none outstanding.    *)
LEMMA ReadTakenKeeps ==
  ASSUME NEW s, SessionInv(s), s.reads # << >>
  PROVE  /\ SessionInv(ReadTaken(s)) /\ SameMessages(s, ReadTaken(s))
         /\ ReadTaken(s) =
              [s EXCEPT !.reads = << >>, !.read_in_progress = FALSE]
         /\ ReadTaken(s).write_in_progress = s.write_in_progress
<1> DEFINE t == ReadTaken(s)
<1>1. s \in Session /\ s.reads \in Seq(ReadOp)
  BY DEF SessionInv, Session
<1>2. Tail(s.reads) = << >>
  <2>1. Len(s.reads) = 1
    BY <1>1, EmptySeq DEF SessionInv
  <2> QED BY <1>1, <2>1, TailOfOne
<1>3. t = [s EXCEPT !.reads = << >>, !.read_in_progress = FALSE]
  BY <1>1, <1>2 DEF ReadTaken, mark_read_finished, Session
<1> HIDE DEF t
<1>4. /\ t \in Session /\ t.reads = << >> /\ ~t.read_in_progress
      /\ t.write_queue = s.write_queue /\ t.closed = s.closed
      /\ t.is_open = s.is_open /\ t.role = s.role
      /\ t.writes = s.writes
      /\ t.write_in_progress = s.write_in_progress
  BY <1>1, <1>3, EmptySeq DEF Session
<1>5. SessionInv(t) /\ SameMessages(s, t)
  BY <1>1, <1>4, EmptySeq
     DEF SessionInv, IsPending, SameMessages, Left, Live
<1> QED BY <1>3, <1>4, <1>5 DEF t

(* The rest of a read completion reads on, or closes the session.          *)
LEMMA AfterReadKeeps ==
  ASSUME NEW s, NEW k, NEW acc, NEW w, Sound(s, k, acc, w),
         NEW u, SessionInv(u), SameMessages(s, u),
         NEW rest \in {"after_data", "after_error"},
         NEW t, t = AfterRead(u, rest)
  PROVE  /\ Sound(t, "idle", acc, w)
         /\ SameMessages(s, t) \/ t.closed
<1>1. CASE rest = "after_data"
  BY <1>1, QuietKeeps DEF AfterRead
<1>2. CASE rest = "after_error"
  BY <1>2, ClosingKeeps DEF AfterRead
<1> QED BY <1>1, <1>2

(* A step that only replaces the one write, which stays on its message.    *)
LEMMA WriteReplaced ==
  ASSUME NEW s, SessionInv(s), s.writes # << >>, NEW op \in WriteOp,
         s.closed => op.status # "pending",
         ~s.closed =>
           /\ op.sources \subseteq {Head(s.write_queue)}
           /\ s.role = "client" => op.sources = {Head(s.write_queue)},
         s.role = "server" => Freed \notin op.sources,
         NEW t, t = [s EXCEPT !.writes = << op >>]
  PROVE  /\ SessionInv(t) /\ t.closed = s.closed
         /\ t.write_in_progress = s.write_in_progress
         /\ t.write_queue = s.write_queue
         /\ can_start_read(t) => can_start_read(s)
         /\ Left(t) = IF op.status = "done" /\ op.left = 0
                      THEN Tail(s.write_queue) ELSE s.write_queue
<1> DEFINE w == << op >>
<1>1. s \in Session /\ s.writes \in Seq(WriteOp)
  BY DEF SessionInv, Session
<1>2. Len(s.writes) = 1
  BY <1>1, EmptySeq DEF SessionInv
<1>3. /\ w \in Seq(WriteOp) /\ Len(w) = 1 /\ Head(w) = op /\ w # << >>
  OBVIOUS
<1> HIDE DEF w
<1>4. /\ t \in Session /\ t.writes = w /\ t.closed = s.closed
      /\ t.role = s.role /\ t.is_open = s.is_open
      /\ t.read_in_progress = s.read_in_progress
      /\ t.read_enabled = s.read_enabled
      /\ t.reads = s.reads
      /\ t.write_in_progress = s.write_in_progress
      /\ t.write_queue = s.write_queue
  BY <1>1, <1>3 DEF Session, w
<1>5. t.role = "server" => Live(t)
  BY <1>4, OneWriteIsLive DEF w
<1>6. ~IsPending(t.writes) \/ ~t.closed
  BY <1>3, <1>4 DEF IsPending
<1>7. ~s.closed => s.write_queue # << >>
  BY DEF SessionInv
<1>8. SessionInv(t)
  BY <1>1, <1>2, <1>3, <1>4, <1>5, <1>6, <1>7 DEF SessionInv
<1>9. Left(t) = IF op.status = "done" /\ op.left = 0
                THEN Tail(s.write_queue) ELSE s.write_queue
  BY <1>3, <1>4 DEF Left
<1>10. can_start_read(t) => can_start_read(s)
  BY <1>4 DEF can_start_read
<1> QED BY <1>4, <1>8, <1>9, <1>10

(* What a piece is copied from when it is started, and what it is gathered *)
(* from when it goes out, is on an open session the front of the queue.    *)
LEMMA PieceSource ==
  ASSUME NEW s, SessionInv(s), s.writes # << >>
  PROVE  /\ Copies(s) \cup Gathers(s) = {Front(s)}
         /\ Copies(s) \in SUBSET (Message \cup {Freed})
         /\ Gathers(s) \in SUBSET (Message \cup {Freed})
         /\ s.role = "client" => Copies(s) = {Front(s)}
         /\ s.role = "server" => Copies(s) = {}
         /\ ~s.closed => Front(s) = Head(s.write_queue)
<1>1. s.role \in {"client", "server"} /\ s.write_queue \in Seq(Message)
  BY DEF SessionInv, Session
<1>2. Front(s) \in Message \cup {Freed}
  BY <1>1, HeadTailProperties DEF Front, has_pending_writes, current_write
<1>3. ~s.closed => Front(s) = Head(s.write_queue)
  BY DEF SessionInv, Front, has_pending_writes, current_write
<1> QED BY <1>1, <1>2, <1>3 DEF Copies, Gathers

(* The stream starts the next piece of a message.                          *)
LEMMA PieceKeeps ==
  ASSUME NEW s, NEW k, NEW acc, NEW w, Sound(s, k, acc, w),
         s.writes # << >>, HasMore(Head(s.writes)),
         NEW t, t = next_piece(s)
  PROVE  Sound(t, k, acc, w) /\ SameMessages(s, t)
<1> DEFINE old == Head(s.writes)
           op == [status |-> InitialStatus(s), left |-> old.left - 1,
                  sources |-> old.sources \cup Copies(s)]
<1>1. /\ s \in Session /\ SessionInv(s)
      /\ s.writes \in Seq(WriteOp)
      /\ old \in WriteOp /\ old.status = "done" /\ old.left > 0
      /\ k \in {"idle", "after_data", "after_error"}
  BY HeadTailProperties DEF Sound, SessionInv, Session, HasMore
<1>2. t = [s EXCEPT !.writes = << op >>]
  BY <1>1 DEF next_piece, Session
<1>3. /\ Copies(s) \in SUBSET (Message \cup {Freed})
      /\ s.role = "client" => Copies(s) = {Front(s)}
      /\ s.role = "server" => Copies(s) = {}
      /\ s.role \in {"client", "server"}
      /\ ~s.closed => Front(s) = Head(s.write_queue)
  BY <1>1, PieceSource DEF Session
<1>4. /\ old.left - 1 \in Nat /\ old.left # 0
      /\ old.sources \in SUBSET (Message \cup {Freed})
  BY <1>1 DEF WriteOp
<1>5. /\ ~s.closed =>
           /\ old.sources \subseteq {Head(s.write_queue)}
           /\ s.role = "client" => old.sources = {Head(s.write_queue)}
      /\ s.role = "server" => Freed \notin old.sources
  BY <1>1, EmptySeq DEF SessionInv, Live
<1>6. s.closed => InitialStatus(s) = "failed"
  BY <1>1 DEF SessionInv, InitialStatus
<1>7. Left(s) = s.write_queue
  BY <1>1, <1>4 DEF Left
<1> HIDE DEF old
<1>8. /\ op \in WriteOp /\ op.status # "done" /\ op.status = InitialStatus(s)
      /\ op.sources = old.sources \cup Copies(s)
  BY <1>3, <1>4 DEF WriteOp, Status, InitialStatus
<1> HIDE DEF op
<1>9. /\ SessionInv(t) /\ t.closed = s.closed
      /\ t.write_in_progress = s.write_in_progress
      /\ t.write_queue = s.write_queue
      /\ can_start_read(t) => can_start_read(s)
      /\ Left(t) = s.write_queue
  BY <1>1, <1>2, <1>3, <1>5, <1>6, <1>8, WriteReplaced
<1>10. SameMessages(s, t)
  BY <1>7, <1>9 DEF SameMessages
<1> QED BY <1>9, <1>10, RestKeeps

(* The write completion takes its operation.                               *)
WriteTaken(s) == mark_write_finished([s EXCEPT !.writes = Tail(@)])

(* The write completion removes the message, whose last piece is out, and  *)
(* starts the next one; or it closes.                                      *)
WriteOver(s) ==
  IF Head(s.writes).status = "done"
  THEN Core!schedule_operations(consume_write(WriteTaken(s)))
  ELSE Core!close(WriteTaken(s))

(* It keeps the session sound: the message it removes is the one that has  *)
(* gone out whole.                                                         *)
LEMMA WriteOverKeeps ==
  ASSUME NEW s, NEW k, NEW acc, NEW w, Sound(s, k, acc, w),
         s.writes # << >>, ~HasMore(Head(s.writes)),
         NEW t, t = WriteOver(s)
  PROVE  Sound(t, k, acc, w) /\ (t.closed = s.closed \/ t.closed)
<1> DEFINE u == WriteTaken(s)
           p == consume_write(u)
<1>1. /\ s \in Session /\ SessionInv(s)
      /\ s.writes \in Seq(WriteOp)
      /\ s.write_queue \in Seq(Message)
      /\ Head(s.writes) \in WriteOp
      /\ k \in {"idle", "after_data", "after_error"}
  BY HeadTailProperties DEF Sound, SessionInv, Session
<1>2. Tail(s.writes) = << >>
  <2>1. Len(s.writes) = 1
    BY <1>1, EmptySeq DEF SessionInv
  <2> QED BY <1>1, <2>1, TailOfOne
<1>3. u = [s EXCEPT !.writes = << >>, !.write_in_progress = FALSE]
  BY <1>1, <1>2 DEF WriteTaken, mark_write_finished, Session
<1>4. t = IF Head(s.writes).status = "done"
          THEN Core!schedule_operations(p) ELSE Core!close(u)
  BY DEF WriteOver
<1>5. p = IF u.write_queue # << >>
          THEN [u EXCEPT !.write_queue = Tail(@)] ELSE u
  BY DEF consume_write, has_pending_writes
<1> HIDE DEF p, u
<1>6. /\ u \in Session /\ u.writes = << >> /\ ~u.write_in_progress
      /\ u.role = s.role /\ u.is_open = s.is_open
      /\ u.write_queue = s.write_queue /\ u.closed = s.closed
      /\ u.reads = s.reads
      /\ u.read_in_progress = s.read_in_progress
  BY <1>1, <1>3, EmptySeq DEF Session
<1>7. SessionInv(u)
  BY <1>1, <1>6, EmptySeq, NoWriteIsLive DEF SessionInv, IsPending
<1>8. CASE Head(s.writes).status # "done"
  BY <1>1, <1>4, <1>7, <1>8, ClosingKeeps
<1>9. CASE Head(s.writes).status = "done"
  <2>1. /\ p \in Session /\ p.writes = << >> /\ ~p.write_in_progress
        /\ p.role = s.role /\ p.is_open = s.is_open
        /\ p.closed = s.closed /\ p.reads = s.reads
        /\ p.read_in_progress = s.read_in_progress
        /\ s.write_queue # << >> => p.write_queue = Tail(s.write_queue)
        /\ s.write_queue = << >> => p.write_queue = << >>
    BY <1>1, <1>5, <1>6, HeadTailProperties DEF Session
  <2>2. SessionInv(p)
    BY <1>1, <2>1, EmptySeq, NoWriteIsLive DEF SessionInv, IsPending
  <2>3. /\ SessionInv(t) /\ Scheduled(t)
        /\ ~can_start_read(t)
        /\ SameMessages(p, t)
    BY <1>4, <1>9, <2>2, ScheduleKeeps
  <2>4. Head(s.writes).left = 0
    <3>1. ~(Head(s.writes).left > 0) /\ Head(s.writes).left \in Nat
      BY <1>1, <1>9 DEF HasMore, WriteOp
    <3> QED BY <3>1
  <2>5. ~s.closed => Left(s) = p.write_queue
    BY <1>1, <1>9, <2>1, <2>4 DEF SessionInv, Left
  <2>6. Left(t) = p.write_queue /\ t.closed = s.closed
    BY <2>1, <2>3 DEF SameMessages, Left
  <2>7. ~t.closed => acc = w \o Left(t)
    BY <2>5, <2>6 DEF Sound
  <2> QED BY <2>3, <2>6, <2>7 DEF Sound
<1> QED BY <1>8, <1>9

(* A read ends, one way or the other.                                      *)
LEMMA StreamReadKeeps ==
  ASSUME NEW s, NEW k, NEW acc, NEW w, Sound(s, k, acc, w),
         IsPending(s.reads), NEW status \in {"done", "failed"},
         NEW t, t = [s EXCEPT !.reads = << [status |-> status] >>]
  PROVE  Sound(t, k, acc, w) /\ SameMessages(s, t)
<1> DEFINE op == [status |-> status]
           r == << op >>
<1>1. /\ s \in Session /\ SessionInv(s) /\ ~s.closed
      /\ s.reads \in Seq(ReadOp) /\ s.reads # << >>
      /\ k \in {"idle", "after_data", "after_error"}
  BY DEF Sound, SessionInv, Session, IsPending
<1>2. Len(s.reads) = 1
  BY <1>1, EmptySeq DEF SessionInv
<1>3. op \in ReadOp
  BY DEF ReadOp, Status
<1>4. t = [s EXCEPT !.reads = r]
  OBVIOUS
<1> HIDE DEF op
<1>5. r \in Seq(ReadOp) /\ Len(r) = 1
  BY <1>3
<1> HIDE DEF r
<1>6. /\ t \in Session /\ t.reads = r /\ t.closed = s.closed
      /\ t.role = s.role
      /\ t.read_in_progress = s.read_in_progress
      /\ t.read_enabled = s.read_enabled
      /\ t.write_in_progress = s.write_in_progress
      /\ t.write_queue = s.write_queue /\ t.writes = s.writes
  BY <1>1, <1>4, <1>5 DEF Session
<1>7. SessionInv(t) /\ SameMessages(s, t)
  BY <1>1, <1>2, <1>5, <1>6 DEF SessionInv, SameMessages, Left, Live
<1>8. can_start_read(t) => can_start_read(s)
  BY <1>6 DEF can_start_read
<1>9. t.write_in_progress = s.write_in_progress
  BY <1>6
<1> QED BY <1>7, <1>8, <1>9, RestKeeps

(* A write fails, and its message stays in the queue.                      *)
LEMMA StreamWriteFailsKeeps ==
  ASSUME NEW s, NEW k, NEW acc, NEW w, Sound(s, k, acc, w),
         IsPending(s.writes),
         NEW t, t = [s EXCEPT !.writes =
                       << [Head(@) EXCEPT !.status = "failed"] >>]
  PROVE  Sound(t, k, acc, w) /\ SameMessages(s, t)
<1> DEFINE old == Head(s.writes)
           op == [old EXCEPT !.status = "failed"]
<1>1. /\ s \in Session /\ SessionInv(s) /\ ~s.closed
      /\ s.writes \in Seq(WriteOp) /\ s.writes # << >>
      /\ old \in WriteOp /\ old.status = "pending"
      /\ k \in {"idle", "after_data", "after_error"}
  BY HeadTailProperties DEF Sound, SessionInv, Session, IsPending
<1>2. t = [s EXCEPT !.writes = << op >>]
  BY <1>1 DEF Session
<1>3. /\ old.sources \subseteq {Head(s.write_queue)}
      /\ s.role = "client" => old.sources = {Head(s.write_queue)}
      /\ s.role = "server" => Freed \notin old.sources
  BY <1>1, EmptySeq DEF SessionInv, Live
<1>4. Left(s) = s.write_queue
  BY <1>1 DEF Left
<1> HIDE DEF old
<1>5. op \in WriteOp /\ op.status = "failed" /\ op.sources = old.sources
  BY <1>1 DEF WriteOp, Status
<1> HIDE DEF op
<1>6. /\ SessionInv(t) /\ t.closed = s.closed
      /\ t.write_in_progress = s.write_in_progress
      /\ t.write_queue = s.write_queue
      /\ can_start_read(t) => can_start_read(s)
      /\ Left(t) = s.write_queue
  BY <1>1, <1>2, <1>3, <1>5, <1>4, WriteReplaced DEF old
<1>7. SameMessages(s, t)
  BY <1>4, <1>6 DEF SameMessages
<1> QED BY <1>6, <1>7, RestKeeps

(* A piece goes out.  *)
Outgoing(s)  == Head(s.writes).sources \cup Gathers(s)
PieceOut(s)  ==
  [s EXCEPT !.writes = << [Head(s.writes) EXCEPT !.status = "done",
                                                 !.sources = Outgoing(s)] >>]
WireAfter(s, w) ==
  IF Head(s.writes).left > 0 THEN w
  ELSE Append(w, IF \E m \in Message : Outgoing(s) = {m}
                 THEN CHOOSE m \in Outgoing(s) : TRUE
                 ELSE Freed)

(* It was taken from the front of the queue, as all others of its message; *)
(* with the last one, that message is on the wire.                         *)
LEMMA PieceOutEffect ==
  ASSUME NEW s, SessionInv(s), IsPending(s.writes), NEW w
  PROVE  /\ SessionInv(PieceOut(s)) /\ ~s.closed /\ ~PieceOut(s).closed
         /\ PieceOut(s).write_in_progress = s.write_in_progress
         /\ PieceOut(s).write_queue = s.write_queue
         /\ can_start_read(PieceOut(s)) => can_start_read(s)
         /\ s.write_queue # << >>
         /\ Left(s) = s.write_queue
         /\ \/ /\ WireAfter(s, w) = w
               /\ Left(PieceOut(s)) = s.write_queue
            \/ /\ WireAfter(s, w) = Append(w, Head(s.write_queue))
               /\ Left(PieceOut(s)) = Tail(s.write_queue)
<1> DEFINE t == PieceOut(s)
           x == WireAfter(s, w)
           old == Head(s.writes)
           front == Head(s.write_queue)
           sources == Outgoing(s)
           op == [old EXCEPT !.status = "done", !.sources = sources]
<1>1. /\ s \in Session /\ ~s.closed
      /\ s.writes \in Seq(WriteOp) /\ s.writes # << >>
      /\ s.write_queue # << >>
      /\ s.write_queue \in Seq(Message)
      /\ old \in WriteOp /\ old.status = "pending"
  BY HeadTailProperties DEF SessionInv, Session, IsPending
<1>2. /\ t = [s EXCEPT !.writes = << op >>]
      /\ x = IF old.left > 0 THEN w
             ELSE Append(w, IF \E m \in Message : sources = {m}
                            THEN CHOOSE m \in sources : TRUE
                            ELSE Freed)
  BY DEF PieceOut, WireAfter
<1> HIDE DEF t, x
<1>3. front \in Message /\ front # Freed
  BY <1>1, HeadTailProperties, WebSocketSessionAssumption
<1>4. sources = {front}
  <2>1. /\ old.sources \subseteq {front}
        /\ s.role = "client" => old.sources = {front}
    BY <1>1 DEF SessionInv
  <2>2. /\ s.role = "server" => Gathers(s) = {front}
        /\ s.role = "client" => Gathers(s) = {}
    BY <1>1 DEF Gathers, Front, has_pending_writes, current_write
  <2>3. s.role \in {"client", "server"}
    BY <1>1 DEF Session
  <2> QED BY <2>1, <2>2, <2>3 DEF Outgoing
<1>5. Left(s) = s.write_queue
  BY <1>1 DEF Left
<1>6. old.left \in Nat /\ sources \in SUBSET (Message \cup {Freed})
  BY <1>1, <1>3, <1>4 DEF WriteOp
<1> HIDE DEF sources
<1>7. /\ op \in WriteOp /\ op.status = "done" /\ op.sources = sources
      /\ op.left = old.left
  BY <1>1, <1>6 DEF WriteOp, Status
<1> HIDE DEF op
<1>8. /\ SessionInv(t) /\ t.closed = s.closed
      /\ can_start_read(t) => can_start_read(s)
      /\ t.write_in_progress = s.write_in_progress
      /\ t.write_queue = s.write_queue
      /\ Left(t) = IF op.left = 0
                   THEN Tail(s.write_queue) ELSE s.write_queue
  BY <1>1, <1>2, <1>3, <1>4, <1>7, WriteReplaced
<1>9. ~t.closed
  BY <1>1, <1>8
<1>10. ASSUME old.left > 0
       PROVE  x = w /\ Left(t) = s.write_queue
  <2>1. x = w /\ op.left # 0
    BY <1>2, <1>6, <1>7, <1>10
  <2> QED BY <1>8, <2>1
<1>11. ASSUME ~(old.left > 0)
       PROVE  x = Append(w, front) /\ Left(t) = Tail(s.write_queue)
  <2>1. op.left = 0
    BY <1>6, <1>7, <1>11
  <2>2. (CHOOSE m \in sources : TRUE) = front
    BY <1>4
  <2>3. \E m \in Message : sources = {m}
    BY <1>3, <1>4
  <2>4. x = Append(w, front)
    BY <1>2, <1>11, <2>2, <2>3
  <2> QED BY <1>8, <2>1, <2>4
<1>12. \/ x = w /\ Left(t) = s.write_queue
       \/ x = Append(w, front) /\ Left(t) = Tail(s.write_queue)
  BY <1>10, <1>11
<1> QED BY <1>1, <1>5, <1>8, <1>9, <1>12 DEF t, x

(* A piece that goes out keeps the invariant. *)
LEMMA PieceOutKeeps ==
  ASSUME NEW s, NEW k, NEW acc, NEW w, Sound(s, k, acc, w),
         IsPending(s.writes)
  PROVE  Sound(PieceOut(s), k, acc, WireAfter(s, w))
<1> DEFINE q == s.write_queue
           t == PieceOut(s)
           x == WireAfter(s, w)
<1>0. SessionInv(s)
  BY DEF Sound
<1>1. /\ SessionInv(t) /\ ~s.closed /\ ~t.closed
      /\ t.write_in_progress = s.write_in_progress
      /\ can_start_read(t) => can_start_read(s)
      /\ t.write_queue = q /\ q # << >> /\ Left(s) = q
      /\ \/ x = w /\ Left(t) = q
         \/ x = Append(w, Head(q)) /\ Left(t) = Tail(q)
  BY <1>0, PieceOutEffect
<1> HIDE DEF t, x
<1>2. /\ q \in Seq(Message) /\ w \in Seq(Message)
      /\ acc = w \o q /\ Scheduled(s)
  BY <1>1 DEF Sound, SessionInv, Session
<1>3. Scheduled(t) /\ (k = "idle" => ~can_start_read(t))
  BY <1>1, <1>2 DEF Scheduled, Sound
<1> HIDE DEF q
<1>4. x \in Seq(Message) /\ Left(t) \in Seq(Message) /\ acc = x \o Left(t)
  <2>1. CASE x = w /\ Left(t) = q
    BY <1>2, <2>1
  <2>2. CASE x = Append(w, Head(q)) /\ Left(t) = Tail(q)
    <3>1. Head(q) \in Message /\ Tail(q) \in Seq(Message)
      BY <1>1, <1>2, HeadTailProperties
    <3>2. Append(w, Head(q)) \o Tail(q) = w \o q
      BY <1>1, <1>2, ConcatHeadTail
    <3> QED BY <1>2, <2>2, <3>1, <3>2, AppendProperties
  <2> QED BY <1>1, <2>1, <2>2
<1>5. Begins(x, acc)
  BY <1>4, BeginsConcat
<1> QED BY <1>1, <1>3, <1>4, <1>5 DEF Sound, t, x
-----------------------------------------------------------------------------
(* The actions. *)

(* The calls that move no message and do not close, and the silent loss of *)
(* the connection.                                                         *)
LEMMA CallStep ==
  ASSUME IInv,
         \/ \E set \in BOOLEAN : SetReadHandler(set)
         \/ StartReading
         \/ StopReading
         \/ ConnectionLost
  PROVE  IInv' /\ SameMessages(session, session')
<1>1. /\ \/ \E set \in BOOLEAN : session' = set_read_handler(session, set)
         \/ session' = Core!start_reading(session)
         \/ session' = stop_reading(session)
         \/ session' = [session EXCEPT !.connected = FALSE]
      /\ UNCHANGED <<strand, accepted, wire>>
  BY DEF SetReadHandler, StartReading, StopReading, ConnectionLost
<1>2. /\ Sound(session', strand, accepted, wire)
      /\ SameMessages(session, session')
  BY <1>1, CallKeeps DEF IInv
<1> QED BY <1>1, <1>2 DEF IInv

(* The user's send(). *)
LEMMA SendStep ==
  ASSUME IInv, NEW m \in Message, Send(m)
  PROVE  IInv' /\ session'.closed = session.closed
<1>1. /\ session' = Core!enqueue_write(session, m)
      /\ accepted' = IF session.closed THEN accepted ELSE Append(accepted, m)
      /\ UNCHANGED <<strand, wire>>
  BY DEF Send
<1>2. /\ Sound(session', strand, accepted', wire)
      /\ session'.closed = session.closed
  BY <1>1, SendKeeps DEF IInv
<1> QED BY <1>1, <1>2 DEF IInv

(* The user's close(). *)
LEMMA CloseStep ==
  ASSUME IInv, Close
  PROVE  IInv' /\ session'.closed
<1>1. /\ session' = Core!close(session) /\ UNCHANGED <<strand, accepted, wire>>
      /\ SessionInv(session)
      /\ strand \in {"idle", "after_data", "after_error"}
  BY DEF Close, IInv, Sound
<1>2. Sound(session', strand, accepted, wire) /\ session'.closed
  BY <1>1, ClosingKeeps DEF IInv
<1> QED BY <1>1, <1>2 DEF IInv

(* The completion of a read. *)
LEMMA OnReadStep ==
  ASSUME IInv, OnRead
  PROVE  IInv' /\ (SameMessages(session, session') \/ session'.closed)
<1> DEFINE t == ReadTaken(session)
           rest == IF Head(session.reads).status = "done"
                   THEN "after_data" ELSE "after_error"
<1>1. /\ session' = IF t.read_handler THEN t ELSE AfterRead(t, rest)
      /\ strand' = IF t.read_handler THEN rest ELSE "idle"
      /\ UNCHANGED <<accepted, wire>>
      /\ session.reads # << >> /\ SessionInv(session)
      /\ rest \in {"after_data", "after_error"}
  BY DEF OnRead, ReadTaken, IsComplete, IInv, Sound
<1>2. /\ SessionInv(t) /\ SameMessages(session, t)
      /\ t.write_in_progress = session.write_in_progress
  BY <1>1, ReadTakenKeeps
<1> HIDE DEF t, rest
<1>3. /\ Sound(session', strand', accepted, wire)
      /\ SameMessages(session, session') \/ session'.closed
  <2>1. CASE t.read_handler
    <3>1. session' = t /\ strand' = rest /\ rest # "idle"
      BY <1>1, <2>1
    <3> QED BY <1>1, <1>2, <3>1, QuietKeeps DEF IInv
  <2>2. CASE ~t.read_handler
    <3>1. session' = AfterRead(t, rest) /\ strand' = "idle"
      BY <1>1, <2>2
    <3> QED BY <1>1, <1>2, <3>1, AfterReadKeeps DEF IInv
  <2> QED BY <2>1, <2>2
<1> QED BY <1>1, <1>3 DEF IInv

(* The read handler returns, and the session reads on or closes.           *)
LEMMA ReadHandlerReturnsStep ==
  ASSUME IInv, ReadHandlerReturns
  PROVE  IInv' /\ (SameMessages(session, session') \/ session'.closed)
<1>1. /\ session' = AfterRead(session, strand) /\ strand' = "idle"
      /\ UNCHANGED <<accepted, wire>>
      /\ strand \in {"after_data", "after_error"}
      /\ SessionInv(session) /\ SameMessages(session, session)
  BY DEF ReadHandlerReturns, IInv, Sound, SameMessages
<1>2. /\ Sound(session', "idle", accepted, wire)
      /\ SameMessages(session, session') \/ session'.closed
  BY <1>1, AfterReadKeeps DEF IInv
<1> QED BY <1>1, <1>2 DEF IInv

(* The stream starts the next piece of a message. *)
LEMMA OnPieceStep ==
  ASSUME IInv, OnPiece
  PROVE  IInv' /\ SameMessages(session, session')
<1>1. /\ session.writes # << >> /\ HasMore(Head(session.writes))
      /\ session' = next_piece(session)
      /\ UNCHANGED <<strand, accepted, wire>>
  BY DEF OnPiece, IsComplete
<1>2. /\ Sound(session', strand, accepted, wire)
      /\ SameMessages(session, session')
  BY <1>1, PieceKeeps DEF IInv
<1> QED BY <1>1, <1>2 DEF IInv

(* The completion of a write. *)
LEMMA OnWriteStep ==
  ASSUME IInv, OnWrite
  PROVE  IInv' /\ (session'.closed = session.closed \/ session'.closed)
<1>1. /\ session.writes # << >> /\ ~HasMore(Head(session.writes))
      /\ session' = WriteOver(session)
      /\ UNCHANGED <<strand, accepted, wire>>
  BY DEF OnWrite, IsComplete, WriteOver, WriteTaken
<1>2. /\ Sound(session', strand, accepted, wire)
      /\ session'.closed = session.closed \/ session'.closed
  BY <1>1, WriteOverKeeps DEF IInv
<1> QED BY <1>1, <1>2 DEF IInv

(* A read ends. *)
LEMMA StreamReadStep ==
  ASSUME IInv, StreamReads \/ StreamReadFails
  PROVE  IInv' /\ SameMessages(session, session')
<1>1. PICK status \in {"done", "failed"} :
        /\ IsPending(session.reads)
        /\ session' = [session EXCEPT !.reads = << [status |-> status] >>]
        /\ UNCHANGED <<strand, accepted, wire>>
  BY DEF StreamReads, StreamReadFails
<1>2. /\ Sound(session', strand, accepted, wire)
      /\ SameMessages(session, session')
  BY <1>1, StreamReadKeeps DEF IInv
<1> QED BY <1>1, <1>2 DEF IInv

(* A write fails. *)
LEMMA StreamWriteFailsStep ==
  ASSUME IInv, StreamWriteFails
  PROVE  IInv' /\ SameMessages(session, session')
<1>1. /\ IsPending(session.writes)
      /\ session' = [session EXCEPT !.writes =
                       << [Head(@) EXCEPT !.status = "failed"] >>]
      /\ UNCHANGED <<strand, accepted, wire>>
  BY DEF StreamWriteFails
<1>2. /\ Sound(session', strand, accepted, wire)
      /\ SameMessages(session, session')
  BY <1>1, StreamWriteFailsKeeps DEF IInv
<1> QED BY <1>1, <1>2 DEF IInv

(* A piece goes out: the terms of the lemmas above. *)
LEMMA StreamWritesForm ==
  ASSUME StreamWrites
  PROVE  /\ IsPending(session.writes)
         /\ session' = PieceOut(session) /\ wire' = WireAfter(session, wire)
         /\ UNCHANGED <<strand, accepted>>
BY DEF StreamWrites, PieceOut, WireAfter, Outgoing

(* A piece goes out of an open session only, and completes at most the     *)
(* message at the front of the queue.                                      *)
LEMMA StreamWritesStep ==
  ASSUME IInv, StreamWrites
  PROVE  /\ IInv' /\ ~session.closed /\ ~session'.closed
         /\ session.write_queue # << >>
         /\ Left(session) = session.write_queue
         /\ \/ wire' = wire
            \/ wire' = Append(wire, Head(session.write_queue))
<1>1. /\ IsPending(session.writes)
      /\ session' = PieceOut(session) /\ wire' = WireAfter(session, wire)
      /\ UNCHANGED <<strand, accepted>>
  BY StreamWritesForm
<1>2. Sound(session', strand, accepted, wire')
  BY <1>1, PieceOutKeeps DEF IInv
<1>3. /\ ~session.closed /\ ~session'.closed
      /\ session.write_queue # << >>
      /\ Left(session) = session.write_queue
      /\ \/ wire' = wire
         \/ wire' = Append(wire, Head(session.write_queue))
  <2>1. SessionInv(session)
    BY DEF IInv, Sound
  <2> QED BY <1>1, <2>1, PieceOutEffect
<1> QED BY <1>1, <1>2, <1>3 DEF IInv
-----------------------------------------------------------------------------
(* A session that has just been opened is sound. *)
LEMMA NewSound ==
  ASSUME NEW role \in {"client", "server"}, NEW s,
         s = [NewSession(role) EXCEPT !.is_open = TRUE, !.connected = TRUE]
  PROVE  /\ Sound(s, "idle", << >>, << >>)
         /\ s.reads = << >> /\ ~s.closed /\ ~s.read_enabled
<1>1. /\ s \in Session /\ s.write_queue = << >>
      /\ s.reads = << >> /\ s.writes = << >>
      /\ ~s.read_in_progress /\ ~s.write_in_progress
      /\ ~s.closed /\ ~s.read_enabled
  BY EmptySeq DEF NewSession, Session
<1>2. SessionInv(s) /\ Scheduled(s)
  BY <1>1, EmptySeq, NoWriteIsLive DEF SessionInv, Scheduled, IsPending
<1>3. << >> \in Seq(Message) /\ << >> \o << >> = << >>
  BY EmptySeq, ConcatEmptySeq
<1>4. Left(s) = << >>
  BY <1>1 DEF Left
<1>5. Begins(<< >>, << >>)
  BY <1>3, BeginsConcat
<1> QED BY <1>1, <1>2, <1>3, <1>4, <1>5 DEF Sound, can_start_read

(* The invariant holds at the start. *)
LEMMA InitInv == Init => IInv
<1> SUFFICES ASSUME Init PROVE IInv
  OBVIOUS
<1>1. PICK role \in Role :
        session = [NewSession(role) EXCEPT !.is_open = TRUE, !.connected = TRUE]
  BY DEF Init
<1>2. role \in {"client", "server"}
  BY WebSocketSessionAssumption
<1> QED BY <1>1, <1>2, NewSound DEF Init, IInv

(* Every step keeps the invariant, and leaves a closed session closed.     *)
LEMMA Step ==
  ASSUME IInv, [Next]_vars
  PROVE  IInv' /\ (session.closed => session'.closed)
<1>1. CASE UNCHANGED vars
  BY <1>1 DEF vars, IInv
<1>2. CASE \/ \E set \in BOOLEAN : SetReadHandler(set)
           \/ StartReading
           \/ StopReading
           \/ ConnectionLost
  BY <1>2, CallStep DEF SameMessages
<1>3. CASE \E m \in Message : Send(m)
  BY <1>3, SendStep
<1>4. CASE Close
  BY <1>4, CloseStep
<1>5. CASE OnRead
  BY <1>5, OnReadStep DEF SameMessages
<1>6. CASE ReadHandlerReturns
  BY <1>6, ReadHandlerReturnsStep DEF SameMessages
<1>7. CASE OnPiece
  BY <1>7, OnPieceStep DEF SameMessages
<1>8. CASE OnWrite
  BY <1>8, OnWriteStep
<1>9. CASE StreamReads \/ StreamReadFails
  BY <1>9, StreamReadStep DEF SameMessages
<1>10. CASE StreamWrites
  BY <1>10, StreamWritesStep
<1>11. CASE StreamWriteFails
  BY <1>11, StreamWriteFailsStep DEF SameMessages
<1> QED
  BY <1>1, <1>2, <1>3, <1>4, <1>5, <1>6, <1>7, <1>8, <1>9, <1>10, <1>11
     DEF Next, User, Completion, Connection

(* The invariant holds throughout. *)
LEMMA SpecInv == Spec => []IInv
<1>1. IInv /\ [Next]_vars => IInv'
  BY Step
<1> QED BY <1>1, InitInv, PTL DEF Spec
-----------------------------------------------------------------------------
(* A WebSocket session keeps its types, and gives its stream at most one   *)
(* read and one write at a time, as the stream demands.                    *)
THEOREM TypeCorrect == Spec => []TypeOK
<1>1. IInv => TypeOK
  <2> SUFFICES ASSUME IInv PROVE TypeOK
    OBVIOUS
  <2>1. wire \in Seq(Message \cup {Freed})
    <3>1. wire \in Seq(Message)
      BY DEF IInv, Sound
    <3> QED BY <3>1
  <2>2. Len(session.reads) <= 1 /\ Len(session.writes) <= 1
    BY DEF IInv, Sound, SessionInv
  <2> QED BY <2>1, <2>2 DEF IInv, Sound, SessionInv, TypeOK
<1> QED BY <1>1, SpecInv, PTL

(* Whenever the strand rests, nothing is left waiting for a call: the      *)
(* front of the queue is being written, and a session that is to read      *)
(* reads.  Nobody but the session itself would ever start them.            *)
WorkConserving ==
  strand = "idle" => ~can_start_write(session) /\ ~can_start_read(session)

(* A WebSocket session is work conserving: whichever of its calls or       *)
(* completions ran last has started all that could be started.             *)
THEOREM Conserving == Spec => []WorkConserving
<1>1. IInv => WorkConserving
  BY DEF IInv, Sound, Scheduled, WorkConserving, can_start_write,
         has_pending_writes
<1> QED BY <1>1, SpecInv, PTL

(* Closing is final: afterwards no step, not even the rest of a handler    *)
(* that was under way, queues a message or starts an operation.            *)
CloseIsFinal ==
  [][ session.closed =>
        /\ session'.closed
        /\ session'.write_queue = << >>
        /\ Len(session'.reads) <= Len(session.reads)
        /\ Len(session'.writes) <= Len(session.writes) ]_vars

(* No more is in progress in t than in s, and t is closed as s is. *)
Fewer(s, t) ==
  /\ t.closed = s.closed
  /\ t.read_in_progress  => s.read_in_progress
  /\ t.write_in_progress => s.write_in_progress

(* What a handler would do next with a session that is closed does nothing.*)
LEMMA ClosedRests ==
  ASSUME NEW s, s.closed
  PROVE  /\ Core!schedule_operations(s) = s /\ Core!close(s) = s
         /\ Core!start_reading(s) = s
         /\ \A m : Core!enqueue_write(s, m) = s
         /\ \A continuation : AfterRead(s, continuation) = s
BY DEF Core!schedule_operations, Core!close, Core!start_reading,
       Core!enqueue_write, can_start_write, can_start_read, AfterRead

(* No step of a closed session clears closed_ or starts an operation.      *)
LEMMA ClosedStep ==
  ASSUME IInv, [Next]_vars, session.closed
  PROVE  Fewer(session, session')
<1>1. /\ session \in Session /\ session.write_queue = << >>
      /\ ~IsPending(session.reads) /\ ~IsPending(session.writes)
  BY DEF IInv, Sound, SessionInv
<1>2. CASE session' = session
  BY <1>2 DEF Fewer
<1>3. CASE \E set \in BOOLEAN : SetReadHandler(set)
  BY <1>1, <1>3 DEF SetReadHandler, set_read_handler, Fewer, Session
<1>4. CASE \/ StartReading \/ Close \/ ReadHandlerReturns
           \/ \E m \in Message : Send(m)
  BY <1>2, <1>4, ClosedRests
     DEF StartReading, Close, ReadHandlerReturns, Send
<1>5. CASE StopReading
  BY <1>1, <1>5 DEF StopReading, stop_reading, Fewer, Session
<1>6. CASE OnRead
  <2> DEFINE t == mark_read_finished([session EXCEPT !.reads = Tail(@)])
  <2>1. Fewer(session, t)
    BY <1>1 DEF mark_read_finished, Fewer, Session
  <2>2. \/ session' = t
        \/ \E continuation : session' = AfterRead(t, continuation)
    BY <1>6 DEF OnRead
  <2> HIDE DEF t
  <2>3. t.closed
    BY <2>1 DEF Fewer
  <2> QED BY <2>1, <2>2, <2>3, ClosedRests
<1>7. CASE OnWrite
  <2> DEFINE t == mark_write_finished([session EXCEPT !.writes = Tail(@)])
  <2>1. Fewer(session, t) /\ t.write_queue = << >>
    BY <1>1 DEF mark_write_finished, Fewer, Session
  <2>2. \/ session' = Core!schedule_operations(consume_write(t))
        \/ session' = Core!close(t)
    BY <1>7 DEF OnWrite
  <2> HIDE DEF t
  <2>3. t.closed /\ consume_write(t) = t
    BY <2>1 DEF Fewer, consume_write, has_pending_writes
  <2> QED BY <2>1, <2>2, <2>3, ClosedRests
<1>8. CASE OnPiece
  BY <1>1, <1>8 DEF OnPiece, next_piece, Fewer, Session
<1>9. CASE Connection
  <2>1. ConnectionLost
    BY <1>1, <1>9 DEF Connection, StreamReads, StreamReadFails, StreamWrites,
                      StreamWriteFails
  <2> QED BY <1>1, <2>1 DEF ConnectionLost, Fewer, Session
<1> QED BY <1>2, <1>3, <1>4, <1>5, <1>6, <1>7, <1>8, <1>9
        DEF Next, vars, User, Completion

(* A WebSocket session that is closed stays closed and idle, whatever calls *)
(* are made to it and whatever its outstanding operations come to.         *)
THEOREM CloseFinal == Spec => CloseIsFinal
<1>1. IInv /\ IInv' /\ [Next]_vars =>
        [ session.closed =>
            /\ session'.closed
            /\ session'.write_queue = << >>
            /\ Len(session'.reads) <= Len(session.reads)
            /\ Len(session'.writes) <= Len(session.writes) ]_vars
  <2> SUFFICES ASSUME IInv, IInv', [Next]_vars, session.closed
               PROVE  /\ session'.closed
                      /\ session'.write_queue = << >>
                      /\ Len(session'.reads) <= Len(session.reads)
                      /\ Len(session'.writes) <= Len(session.writes)
    OBVIOUS
  <2>1. Fewer(session, session')
    BY ClosedStep
  <2> QED BY <2>1 DEF IInv, Sound, SessionInv, Fewer
<1> QED BY <1>1, SpecInv, PTL DEF Spec, CloseIsFinal

(* A server's writes never take a piece from a message that was freed, on  *)
(* whatever schedule: it reads the message when the piece goes out, and    *)
(* nothing goes out of a closed session.  (A client's do, see the README.) *)
THEOREM ServerPiecesAreLive ==
  Spec => [](session.role = "server" => PiecesAreLive)
<1>1. IInv => (session.role = "server" => PiecesAreLive)
  BY DEF IInv, Sound, SessionInv, Live, PiecesAreLive
<1> QED BY <1>1, SpecInv, PTL

(* Every step of the session is a step of the link or a stutter. *)
LEMMA LinkStep ==
  ASSUME IInv, [Next]_vars
  PROVE  [Link!Next]_(Link!vars)
<1>1. session.closed \in BOOLEAN /\ session'.closed \in BOOLEAN
  BY Step DEF IInv, Sound, SessionInv, Session
<1>2. session.closed => session'.closed
  BY Step
<1>3. CASE accepted' = accepted /\ wire' = wire
  BY <1>1, <1>2, <1>3 DEF Link!Next, Link!Shut, Link!vars
<1>4. ASSUME NEW m \in Message, Send(m)
      PROVE  Link!Next \/ UNCHANGED Link!vars
  <2>1. session'.closed = session.closed
    BY <1>4, SendStep
  <2>2. CASE session.closed
    BY <1>4, <2>1, <2>2 DEF Send, Link!vars
  <2>3. CASE ~session.closed
    BY <1>1, <1>4, <2>1, <2>3 DEF Send, Link!Next, Link!Accept
  <2> QED BY <2>2, <2>3
<1>5. CASE StreamWrites
  <2>1. CASE wire' = wire
    BY <1>3, <1>5, <2>1 DEF StreamWrites
  <2>2. CASE wire' = Append(wire, Head(session.write_queue))
    <3> DEFINE q == session.write_queue
    <3>1. /\ q \in Seq(Message) /\ wire \in Seq(Message)
          /\ q # << >> /\ accepted = wire \o q
          /\ ~session.closed /\ ~session'.closed
      BY <1>5, StreamWritesStep DEF IInv, Sound, SessionInv, Session
    <3> HIDE DEF q
    <3>2. Len(wire) < Len(accepted) /\ accepted[Len(wire) + 1] = Head(q)
      <4>1. /\ Len(accepted) = Len(wire) + Len(q)
            /\ \A i \in 1 .. Len(wire) + Len(q) :
                 accepted[i] = IF i <= Len(wire) THEN wire[i]
                               ELSE q[i - Len(wire)]
        BY <3>1, ConcatProperties
      <4>2. Len(wire) \in Nat /\ Len(q) \in Nat /\ Len(q) > 0
        BY <3>1, EmptySeq, LenProperties
      <4>3. Head(q) = q[1]
        BY <3>1
      <4> QED BY <4>1, <4>2, <4>3
    <3>3. accepted' = accepted /\ session'.closed = session.closed
      BY <1>1, <1>5, <3>1 DEF StreamWrites
    <3> QED BY <2>2, <3>1, <3>2, <3>3 DEF Link!Next, Link!Transmit, q
  <2> QED BY <1>5, <2>1, <2>2, StreamWritesStep
<1> QED
  BY <1>3, <1>4, <1>5
     DEF Next, vars, User, Completion, Connection, SetReadHandler,
         StartReading, StopReading, Close, OnRead, ReadHandlerReturns,
         OnPiece, OnWrite, StreamReads, StreamReadFails, StreamWriteFails,
         ConnectionLost

(* Sending through a WebSocket session, client or server, implements the   *)
(* in-order link FifoLink: messages go out whole and in the order they     *)
(* were accepted, in however many pieces the stream sends each.            *)
THEOREM ImplementsFifoLink == Spec => IsFifoLink
<1>1. Init => Link!Init
  BY DEF Init, NewSession, Link!Init
<1>2. IInv /\ [Next]_vars => [Link!Next]_(Link!vars)
  BY LinkStep
<1> QED BY <1>1, <1>2, SpecInv, PTL DEF Spec, IsFifoLink, Link!Spec
=============================================================================
