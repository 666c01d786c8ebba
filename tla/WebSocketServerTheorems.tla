---------------------- MODULE WebSocketServerTheorems -----------------------
(***************************************************************************)
(* Proofs about the WebSocket server: its types, that every session is     *)
(* reported once, that one accept is outstanding, and that the set of      *)
(* active sessions follows the sessions, for any number of connections and *)
(* of starts.                                                              *)
(***************************************************************************)
EXTENDS WebSocketServer, OperationLemmas

(* A task of a connection in a queue of tasks. *)
Queued(q, do, c) == \E i \in DOMAIN q : q[i].do = do /\ q[i].connection = c

(* No task is in a queue twice. *)
Distinct(q) ==
  \A i, j \in DOMAIN q :
    q[i].do = q[j].do /\ q[i].connection = q[j].connection => i = j

(* The life of one connection: its session s, whether a report and an      *)
(* erasure of it are queued, how often it was reported and whether it is   *)
(* in the set of active sessions.  Before the handshake is over nobody but *)
(* the session itself knows of it.  Afterwards it is reported once, and    *)
(* until then nobody can close it, so that its report comes before its     *)
(* erasure.                                                                *)
Life(s, report, erasure, count, active) ==
  /\ s.handshake = "none" => s = NewSession
  /\ s.handshake # "over" =>
       /\ ~s.up /\ ~s.known /\ ~s.closed /\ ~s.close_notified /\ ~s.close_queued
       /\ ~report /\ ~erasure /\ count = 0
  /\ s.handshake = "over" => count = IF report THEN 0 ELSE 1
  /\ erasure => s.close_notified
  /\ s.known \/ s.close_queued => s.up /\ ~report
  /\ s.up /\ report => ~s.close_notified
  /\ s.up /\ s.close_notified => s.closed
  /\ active <=> s.up /\ ~report /\ (s.close_notified => erasure)

LivesInv ==
  \A c \in Connection :
    Life(sessions[c], Queued(inbox, "report", c), Queued(inbox, "erase", c),
         reports[c], c \in server.active_sessions)

(* A report tells how the handshake ended. *)
ReportsInv ==
  \A i \in DOMAIN inbox :
    inbox[i].do = "report" =>
      inbox[i].succeeded = sessions[inbox[i].connection].up

(* A connection that was accepted has no session yet, and is the result of *)
(* one accept.                                                             *)
Accepted(ops, ss) ==
  /\ \A i \in DOMAIN ops : \A c \in ops[i].connections : ss[c].handshake = "none"
  /\ \A i, j \in DOMAIN ops :
       ops[i].connections \cap ops[j].connections # {} => i = j

AcceptedInv == Accepted(server.accepts, sessions)

(* While the acceptor is open no accept was aborted: only stop() aborts    *)
(* them, and it closes the acceptor for ever.                              *)
NoneAborted(v) ==
  v.acceptor_open => \A i \in DOMAIN v.accepts : v.accepts[i].status # "aborted"

(* A server that listens and was not started has no accept outstanding.    *)
NotYetStarted ==
  server.acceptor_open /\ ~server.started =>
    server.accepts = << >> /\ callback # "do_accept"

(* One accept, outstanding or about to be started. *)
ListensOnce ==
  server.started /\ server.acceptor_open =>
    Len(server.accepts) + (IF callback = "do_accept" THEN 1 ELSE 0) = 1

LoopInv == NoneAborted(server) /\ NotYetStarted /\ ListensOnce

IInv ==
  /\ TypeOK
  /\ Distinct(inbox)
  /\ LivesInv
  /\ ReportsInv
  /\ AcceptedInv
  /\ LoopInv
-----------------------------------------------------------------------------
(* Queues of tasks. *)

(* The tasks of the model's queue, in the words of the property.           *)
LEMMA QueuedInbox ==
  \A do, c : IsQueued(do, c) = Queued(inbox, do, c)
BY DEF IsQueued, Queued

(* Taking the first task of a queue leaves the others queued.              *)
LEMMA QueueTail ==
  ASSUME NEW q \in Seq(Task), q # << >>, Distinct(q)
  PROVE  /\ Head(q) \in Task
         /\ Tail(q) \in Seq(Task)
         /\ Distinct(Tail(q))
         /\ \A i \in DOMAIN Tail(q) : i + 1 \in DOMAIN q /\ Tail(q)[i] = q[i + 1]
         /\ \A do, c :
              Queued(Tail(q), do, c) <=>
                /\ Queued(q, do, c)
                /\ ~(Head(q).do = do /\ Head(q).connection = c)
<1>1. /\ Head(q) \in Task /\ Head(q) = q[1]
      /\ Tail(q) \in Seq(Task) /\ Len(Tail(q)) = Len(q) - 1
      /\ \A i \in 1 .. Len(Tail(q)) : Tail(q)[i] = q[i + 1]
  BY HeadTailProperties
<1>2. /\ Len(q) \in Nat /\ Len(q) # 0 /\ DOMAIN q = 1 .. Len(q)
      /\ DOMAIN Tail(q) = 1 .. (Len(q) - 1)
  BY <1>1, EmptySeq, LenProperties
<1>3. \A i \in DOMAIN Tail(q) : i + 1 \in DOMAIN q /\ Tail(q)[i] = q[i + 1]
  BY <1>1, <1>2
<1>4. \A i \in DOMAIN q : i # 1 => i - 1 \in DOMAIN Tail(q) /\ Tail(q)[i - 1] = q[i]
  <2> TAKE i \in DOMAIN q
  <2> HAVE i # 1
  <2>1. i - 1 \in DOMAIN Tail(q) /\ (i - 1) + 1 = i
    BY <1>2
  <2> QED BY <1>3, <2>1
<1>5. Distinct(Tail(q))
  <2> SUFFICES ASSUME NEW i \in DOMAIN Tail(q), NEW j \in DOMAIN Tail(q),
                      Tail(q)[i].do = Tail(q)[j].do,
                      Tail(q)[i].connection = Tail(q)[j].connection
               PROVE  i = j
    BY DEF Distinct
  <2>1. i + 1 = j + 1
    BY <1>3 DEF Distinct
  <2> QED BY <2>1, <1>2
<1>6. ASSUME NEW do, NEW c
      PROVE  Queued(Tail(q), do, c) <=>
               /\ Queued(q, do, c)
               /\ ~(Head(q).do = do /\ Head(q).connection = c)
  <2>1. ASSUME Queued(Tail(q), do, c)
        PROVE  Queued(q, do, c) /\ ~(Head(q).do = do /\ Head(q).connection = c)
    <3>1. PICK i \in DOMAIN Tail(q) :
            Tail(q)[i].do = do /\ Tail(q)[i].connection = c
      BY <2>1 DEF Queued
    <3>2. /\ i + 1 \in DOMAIN q /\ i + 1 # 1 /\ 1 \in DOMAIN q
          /\ q[i + 1].do = do /\ q[i + 1].connection = c
      BY <1>2, <1>3, <3>1
    <3>3. ~(q[1].do = do /\ q[1].connection = c)
      BY <3>2 DEF Distinct
    <3> QED BY <1>1, <3>2, <3>3 DEF Queued
  <2>2. ASSUME Queued(q, do, c), ~(Head(q).do = do /\ Head(q).connection = c)
        PROVE  Queued(Tail(q), do, c)
    <3>1. PICK i \in DOMAIN q : q[i].do = do /\ q[i].connection = c
      BY <2>2 DEF Queued
    <3>2. i # 1
      BY <1>1, <2>2, <3>1
    <3> QED BY <1>4, <3>1, <3>2 DEF Queued
  <2> QED BY <2>1, <2>2
<1> QED BY <1>1, <1>3, <1>5, <1>6

(* Queueing tasks r behind those of q queues both, and no task twice if    *)
(* none of r is in q.                                                      *)
LEMMA QueueConcat ==
  ASSUME NEW q \in Seq(Task), NEW r \in Seq(Task), Distinct(q), Distinct(r),
         \A i \in DOMAIN r : ~Queued(q, r[i].do, r[i].connection)
  PROVE  /\ q \o r \in Seq(Task)
         /\ Distinct(q \o r)
         /\ \A i \in DOMAIN (q \o r) :
              \/ i \in DOMAIN q /\ (q \o r)[i] = q[i]
              \/ i - Len(q) \in DOMAIN r /\ (q \o r)[i] = r[i - Len(q)]
         /\ \A do, c :
              Queued(q \o r, do, c) <=> Queued(q, do, c) \/ Queued(r, do, c)
<1> DEFINE z == q \o r
<1>1. /\ z \in Seq(Task) /\ Len(z) = Len(q) + Len(r)
      /\ \A i \in 1 .. Len(z) :
           z[i] = IF i \in 1 .. Len(q) THEN q[i] ELSE r[i - Len(q)]
  BY ConcatProperties
<1>2. /\ Len(q) \in Nat /\ Len(r) \in Nat
      /\ DOMAIN q = 1 .. Len(q) /\ DOMAIN r = 1 .. Len(r)
      /\ DOMAIN z = 1 .. (Len(q) + Len(r))
  BY <1>1, LenProperties
<1> HIDE DEF z
<1>3. \A i \in DOMAIN z :
        \/ i \in DOMAIN q /\ z[i] = q[i]
        \/ i - Len(q) \in DOMAIN r /\ z[i] = r[i - Len(q)]
  BY <1>1, <1>2
<1>4. /\ \A i \in DOMAIN q : i \in DOMAIN z /\ z[i] = q[i]
      /\ \A i \in DOMAIN r : i + Len(q) \in DOMAIN z /\ z[i + Len(q)] = r[i]
  <2>1. \A i \in DOMAIN q : i \in DOMAIN z /\ z[i] = q[i]
    BY <1>1, <1>2
  <2>2. ASSUME NEW i \in DOMAIN r
        PROVE  i + Len(q) \in DOMAIN z /\ z[i + Len(q)] = r[i]
    <3>1. /\ i + Len(q) \in 1 .. Len(z) /\ i + Len(q) \notin 1 .. Len(q)
          /\ (i + Len(q)) - Len(q) = i
      BY <1>1, <1>2
    <3>2. z[i + Len(q)] = r[(i + Len(q)) - Len(q)]
      BY <1>1, <3>1
    <3> QED BY <1>1, <1>2, <3>1, <3>2
  <2> QED BY <2>1, <2>2
<1>5. Distinct(z)
  <2> SUFFICES ASSUME NEW i \in DOMAIN z, NEW j \in DOMAIN z,
                      z[i].do = z[j].do, z[i].connection = z[j].connection
               PROVE  i = j
    BY DEF Distinct
  <2>1. CASE i \in DOMAIN q /\ z[i] = q[i] /\ j \in DOMAIN q /\ z[j] = q[j]
    BY <2>1 DEF Distinct
  <2>2. CASE /\ i - Len(q) \in DOMAIN r /\ z[i] = r[i - Len(q)]
             /\ j - Len(q) \in DOMAIN r /\ z[j] = r[j - Len(q)]
    <3>1. i - Len(q) = j - Len(q)
      BY <2>2 DEF Distinct
    <3> QED BY <1>2, <3>1
  <2>3. CASE /\ i \in DOMAIN q /\ z[i] = q[i]
             /\ j - Len(q) \in DOMAIN r /\ z[j] = r[j - Len(q)]
    BY <2>3 DEF Queued
  <2>4. CASE /\ j \in DOMAIN q /\ z[j] = q[j]
             /\ i - Len(q) \in DOMAIN r /\ z[i] = r[i - Len(q)]
    BY <2>4 DEF Queued
  <2> QED BY <1>3, <2>1, <2>2, <2>3, <2>4
<1>6. \A do, c : Queued(z, do, c) <=> Queued(q, do, c) \/ Queued(r, do, c)
  BY <1>3, <1>4 DEF Queued
<1> QED BY <1>1, <1>3, <1>5, <1>6 DEF z

(* The tasks of a close handler and of a handshake, one by one.            *)
LEMMA SmallQueues ==
  /\ << >> \in Seq(Task) /\ Distinct(<< >>)
  /\ \A do, c : ~Queued(<< >>, do, c)
  /\ \A t \in Task :
       /\ << t >> \in Seq(Task) /\ Distinct(<< t >>)
       /\ \A do, c : Queued(<< t >>, do, c) <=> t.do = do /\ t.connection = c
  /\ \A t, u \in Task :
       /\ << t, u >> \in Seq(Task)
       /\ t.do # u.do => Distinct(<< t, u >>)
       /\ \A do, c : Queued(<< t, u >>, do, c) <=>
            \/ t.do = do /\ t.connection = c
            \/ u.do = do /\ u.connection = c
<1>1. << >> \in Seq(Task) /\ Distinct(<< >>) /\ \A do, c : ~Queued(<< >>, do, c)
  BY DEF Distinct, Queued
<1>2. ASSUME NEW t \in Task
      PROVE  /\ << t >> \in Seq(Task) /\ Distinct(<< t >>)
             /\ \A do, c : Queued(<< t >>, do, c) <=> t.do = do /\ t.connection = c
  BY DEF Distinct, Queued
<1>3. ASSUME NEW t \in Task, NEW u \in Task
      PROVE  /\ << t, u >> \in Seq(Task)
             /\ t.do # u.do => Distinct(<< t, u >>)
             /\ \A do, c : Queued(<< t, u >>, do, c) <=>
                  \/ t.do = do /\ t.connection = c
                  \/ u.do = do /\ u.connection = c
  BY DEF Distinct, Queued
<1> QED BY <1>1, <1>2, <1>3
-----------------------------------------------------------------------------
(* The queue of outstanding accepts. *)

(* The record types, by their fields.                                      *)
LEMMA ServerFields ==
  \A v \in Server :
    /\ v.started \in BOOLEAN /\ v.acceptor_open \in BOOLEAN
    /\ v.session_handler \in BOOLEAN
    /\ v.active_sessions \in SUBSET Connection
    /\ v.accepts \in Seq(AcceptOp)
BY DEF Server

(* What is left of the accepts after one is popped was accepted before,    *)
(* and none of it is a connection of the popped one.                       *)
LEMMA AcceptedTail ==
  ASSUME NEW ops \in Seq(AcceptOp), ops # << >>, NEW ss, Accepted(ops, ss)
  PROVE  /\ Head(ops) \in AcceptOp
         /\ Tail(ops) \in Seq(AcceptOp)
         /\ Len(Tail(ops)) = Len(ops) - 1
         /\ Accepted(Tail(ops), ss)
         /\ \A c \in Head(ops).connections : ss[c].handshake = "none"
         /\ \A i \in DOMAIN Tail(ops) :
              /\ \E j \in DOMAIN ops : Tail(ops)[i] = ops[j]
              /\ Head(ops).connections \cap Tail(ops)[i].connections = {}
<1>1. /\ Head(ops) \in AcceptOp /\ Head(ops) = ops[1]
      /\ Tail(ops) \in Seq(AcceptOp) /\ Len(Tail(ops)) = Len(ops) - 1
      /\ \A i \in 1 .. Len(Tail(ops)) : Tail(ops)[i] = ops[i + 1]
  BY HeadTailProperties
<1>2. /\ Len(ops) \in Nat /\ Len(ops) # 0 /\ DOMAIN ops = 1 .. Len(ops)
      /\ DOMAIN Tail(ops) = 1 .. (Len(ops) - 1)
  BY <1>1, EmptySeq, LenProperties
<1>3. \A i \in DOMAIN Tail(ops) :
        i \in Nat /\ i + 1 \in DOMAIN ops /\ i + 1 # 1 /\ Tail(ops)[i] = ops[i + 1]
  BY <1>1, <1>2
<1>4. 1 \in DOMAIN ops
  BY <1>2
<1>5. \A c \in Head(ops).connections : ss[c].handshake = "none"
  BY <1>1, <1>4 DEF Accepted
<1>6. ASSUME NEW i \in DOMAIN Tail(ops)
      PROVE  /\ \E j \in DOMAIN ops : Tail(ops)[i] = ops[j]
             /\ Head(ops).connections \cap Tail(ops)[i].connections = {}
  BY <1>1, <1>3, <1>4 DEF Accepted
<1>7. Accepted(Tail(ops), ss)
  <2>1. ASSUME NEW i \in DOMAIN Tail(ops), NEW c \in Tail(ops)[i].connections
        PROVE  ss[c].handshake = "none"
    BY <1>3 DEF Accepted
  <2>2. ASSUME NEW i \in DOMAIN Tail(ops), NEW j \in DOMAIN Tail(ops),
               Tail(ops)[i].connections \cap Tail(ops)[j].connections # {}
        PROVE  i = j
    <3>1. i + 1 = j + 1
      BY <1>3, <2>2 DEF Accepted
    <3> QED BY <1>3, <3>1
  <2> QED BY <2>1, <2>2 DEF Accepted
<1> QED BY <1>1, <1>5, <1>6, <1>7

(* Whatever the sessions do that have begun, what was accepted stays so.   *)
LEMMA AcceptedFrame ==
  ASSUME NEW ops, NEW ss, NEW tt, Accepted(ops, ss),
         \A i \in DOMAIN ops : \A c \in ops[i].connections :
           ss[c].handshake = "none" => tt[c].handshake = "none"
  PROVE  Accepted(ops, tt)
BY DEF Accepted

(* do_accept() adds one accept, which has no connection yet, and aborts    *)
(* none.                                                                   *)
LEMMA DoAccept ==
  ASSUME NEW v \in Server, NEW ss, Accepted(v.accepts, ss)
  PROVE  /\ do_accept(v) \in Server
         /\ do_accept(v).started = v.started
         /\ do_accept(v).acceptor_open = v.acceptor_open
         /\ do_accept(v).session_handler = v.session_handler
         /\ do_accept(v).active_sessions = v.active_sessions
         /\ Accepted(do_accept(v).accepts, ss)
         /\ Len(do_accept(v).accepts) = Len(v.accepts) + 1
         /\ NoneAborted(v) => NoneAborted(do_accept(v))
<1> DEFINE op == [status |-> IF v.acceptor_open THEN "pending" ELSE "failed",
                  connections |-> {}]
           w  == do_accept(v)
<1>1. /\ op \in AcceptOp /\ op.connections = {} /\ op.status # "aborted"
  BY DEF AcceptOp, Status
<1>2. /\ w = [v EXCEPT !.accepts = Append(@, op)]
  BY DEF do_accept
<1> HIDE DEF op, w
<1>3. /\ Append(v.accepts, op) \in Seq(AcceptOp)
      /\ Len(Append(v.accepts, op)) = Len(v.accepts) + 1
      /\ \A i \in 1 .. Len(v.accepts) : Append(v.accepts, op)[i] = v.accepts[i]
      /\ Append(v.accepts, op)[Len(v.accepts) + 1] = op
  BY <1>1, ServerFields, AppendProperties
<1>4. /\ Len(v.accepts) \in Nat /\ DOMAIN v.accepts = 1 .. Len(v.accepts)
      /\ DOMAIN Append(v.accepts, op) = 1 .. (Len(v.accepts) + 1)
  BY <1>3, ServerFields, LenProperties
<1>5. \A i \in DOMAIN Append(v.accepts, op) :
        \/ i \in DOMAIN v.accepts /\ Append(v.accepts, op)[i] = v.accepts[i]
        \/ i = Len(v.accepts) + 1 /\ Append(v.accepts, op)[i] = op
  BY <1>3, <1>4
<1>6. /\ w \in Server /\ w.accepts = Append(v.accepts, op)
      /\ w.started = v.started /\ w.acceptor_open = v.acceptor_open
      /\ w.session_handler = v.session_handler
      /\ w.active_sessions = v.active_sessions
  BY <1>2, <1>3 DEF Server
<1>7. Accepted(w.accepts, ss)
  BY <1>1, <1>5, <1>6 DEF Accepted
<1>8. NoneAborted(v) => NoneAborted(w)
  BY <1>1, <1>5, <1>6 DEF NoneAborted
<1> QED BY <1>3, <1>6, <1>7, <1>8 DEF w
-----------------------------------------------------------------------------
(* Sessions. *)

(* close() notifies a session's close handler unless it was closed before. *)
LEMMA CloseFacts ==
  ASSUME NEW s \in ServerSession
  PROVE  /\ close(s) \in ServerSession
         /\ close(s).handshake = s.handshake
         /\ close(s).up = s.up
         /\ close(s).known = s.known
         /\ close(s).close_queued = s.close_queued
         /\ close(s).closed
         /\ close(s).close_notified <=> s.close_notified \/ ~s.closed
         /\ NotifiesClose(s, close(s)) <=> ~s.close_notified /\ ~s.closed
<1>1. CASE s.closed
  BY <1>1 DEF close, ServerSession, NotifiesClose
<1>2. CASE ~s.closed
  <2>1. close(s) = [s EXCEPT !.closed = TRUE, !.close_notified = TRUE]
    BY <1>2 DEF close, close_transport, ServerSession
  <2> QED BY <1>2, <2>1 DEF ServerSession, NotifiesClose
<1> QED BY <1>1, <1>2

(* What the invariant says of a step that changes one session, and for no  *)
(* other one whether it is queued, reported or active.                     *)
LEMMA LivesStep ==
  ASSUME LivesInv, NEW d \in Connection,
         \A c \in Connection \ {d} :
           /\ sessions'[c] = sessions[c] /\ reports'[c] = reports[c]
           /\ c \in server'.active_sessions <=> c \in server.active_sessions
           /\ \A do : Queued(inbox', do, c) <=> Queued(inbox, do, c),
         Life(sessions'[d], Queued(inbox', "report", d),
              Queued(inbox', "erase", d), reports'[d],
              d \in server'.active_sessions)
  PROVE  LivesInv'
<1> SUFFICES ASSUME NEW c \in Connection \ {d}
             PROVE  Life(sessions[c], Queued(inbox, "report", c),
                         Queued(inbox, "erase", c), reports[c],
                         c \in server.active_sessions)'
  BY DEF LivesInv
<1>1. Life(sessions[c], Queued(inbox, "report", c), Queued(inbox, "erase", c),
           reports[c], c \in server.active_sessions)
  BY DEF LivesInv
<1> QED BY <1>1 DEF Life

(* The same for a step that changes none of it.                            *)
LEMMA LivesFrame ==
  ASSUME LivesInv, UNCHANGED <<inbox, sessions, reports>>,
         server'.active_sessions = server.active_sessions
  PROVE  LivesInv'
BY DEF LivesInv, Life, Queued
-----------------------------------------------------------------------------
(* Calls of the user. *)

(* The invariant holds of a server that was just created.                  *)
LEMMA InitInv == Init => IInv
<1> SUFFICES ASSUME Init PROVE IInv
  OBVIOUS
<1> USE DEF Init
<1>1. NewSession \in ServerSession
  BY DEF NewSession, ServerSession
<1>2. /\ << >> \in Seq(AcceptOp) /\ << >> \in Seq(Task)
      /\ Len(<< >>) = 0 /\ DOMAIN << >> = {}
  BY EmptySeq
<1>3. TypeOK
  BY <1>1, <1>2, WebSocketServerAssumption DEF TypeOK, Server
<1>4. LivesInv
  <2> SUFFICES ASSUME NEW c \in Connection
               PROVE  Life(sessions[c], Queued(inbox, "report", c),
                           Queued(inbox, "erase", c), reports[c],
                           c \in server.active_sessions)
    BY DEF LivesInv
  <2>1. /\ ~Queued(inbox, "report", c) /\ ~Queued(inbox, "erase", c)
        /\ sessions[c] = NewSession /\ reports[c] = 0
        /\ c \notin server.active_sessions
    BY <1>2 DEF Queued
  <2> QED BY <2>1 DEF Life, NewSession
<1>5. Distinct(inbox) /\ ReportsInv /\ AcceptedInv
  BY <1>2 DEF Distinct, ReportsInv, AcceptedInv, Accepted
<1>6. LoopInv
  BY <1>2 DEF LoopInv, NoneAborted, NotYetStarted, ListensOnce
<1> QED BY <1>3, <1>4, <1>5, <1>6 DEF IInv

(* Nor does the invariant change where nothing does.                       *)
LEMMA Stutter == IInv /\ UNCHANGED vars => IInv'
<1> SUFFICES ASSUME IInv, UNCHANGED vars PROVE IInv'
  OBVIOUS
<1>1. UNCHANGED <<server, callback, inbox, sessions, reports, starts>>
  BY DEF vars
<1>2. TypeOK'
  BY <1>1 DEF IInv, TypeOK
<1>3. LivesInv'
  BY <1>1, LivesFrame DEF IInv
<1>4. Distinct(inbox)' /\ ReportsInv' /\ AcceptedInv'
  BY <1>1 DEF IInv, Distinct, ReportsInv, AcceptedInv, Accepted
<1>5. LoopInv'
  BY <1>1 DEF IInv, LoopInv, NoneAborted, NotYetStarted, ListensOnce
<1> QED BY <1>2, <1>3, <1>4, <1>5 DEF IInv

(* The user sets or clears the session handler.                            *)
LEMMA SetSessionHandlerStep ==
  ASSUME IInv, NEW set \in BOOLEAN, SetSessionHandler(set)
  PROVE  IInv'
<1> USE DEF SetSessionHandler, IInv
<1>1. server \in Server
  BY DEF TypeOK
<1>2. /\ server' \in Server
      /\ server'.started = server.started
      /\ server'.acceptor_open = server.acceptor_open
      /\ server'.active_sessions = server.active_sessions
      /\ server'.accepts = server.accepts
  BY <1>1 DEF Server
<1>3. TypeOK'
  BY <1>2 DEF TypeOK
<1>4. LivesInv'
  BY <1>2, LivesFrame
<1>5. Distinct(inbox)' /\ ReportsInv' /\ AcceptedInv'
  BY <1>2 DEF Distinct, ReportsInv, AcceptedInv, Accepted
<1>6. LoopInv'
  BY <1>2 DEF LoopInv, NoneAborted, NotYetStarted, ListensOnce
<1> QED BY <1>3, <1>4, <1>5, <1>6

(* The user starts the server: if it was not started and still listens,    *)
(* nothing is outstanding and the one accept is.                           *)
LEMMA StartStep == IInv /\ Start => IInv'
<1> SUFFICES ASSUME IInv, Start PROVE IInv'
  OBVIOUS
<1> DEFINE v == [server EXCEPT !.started = TRUE]
           w == do_accept(v)
<1>1. /\ server \in Server /\ TypeOK /\ LivesInv /\ LoopInv
      /\ Accepted(server.accepts, sessions)
      /\ Len(server.accepts) \in Nat
  BY ServerFields, LenProperties DEF IInv, TypeOK, AcceptedInv
<1>2. CASE server.started
  <2>1. UNCHANGED vars
    BY <1>2 DEF Start, start, vars
  <2> QED BY <2>1, Stutter
<1>3. CASE ~server.started
  <2>1. /\ server' = w /\ starts' = starts + 1 /\ starts < MaxStarts
        /\ UNCHANGED <<callback, inbox, sessions, reports>>
    BY <1>3 DEF Start, start
  <2>2. /\ v \in Server /\ v.started
        /\ v.acceptor_open = server.acceptor_open
        /\ v.active_sessions = server.active_sessions
        /\ v.accepts = server.accepts
    BY <1>1 DEF Server
  <2> HIDE DEF v
  <2>3. NoneAborted(v)
    BY <1>1, <2>2 DEF LoopInv, NoneAborted
  <2>4. /\ w \in Server /\ w.started
        /\ w.acceptor_open = server.acceptor_open
        /\ w.active_sessions = server.active_sessions
        /\ Accepted(w.accepts, sessions)
        /\ Len(w.accepts) = Len(server.accepts) + 1
        /\ NoneAborted(w)
    BY <1>1, <2>2, <2>3, DoAccept
  <2> HIDE DEF w
  <2>5. TypeOK'
    BY <1>1, <2>1, <2>4, WebSocketServerAssumption DEF TypeOK
  <2>6. LivesInv'
    BY <1>1, <2>1, <2>4, LivesFrame
  <2>7. Distinct(inbox)' /\ ReportsInv' /\ AcceptedInv'
    BY <2>1, <2>4 DEF IInv, Distinct, ReportsInv, AcceptedInv, Accepted
  <2>8. server.acceptor_open => Len(server.accepts) = 0 /\ callback # "do_accept"
    BY <1>1, <1>3, EmptySeq DEF LoopInv, NotYetStarted
  <2>9. LoopInv'
    <3>1. NoneAborted(server)' /\ NotYetStarted'
      BY <2>1, <2>4 DEF NoneAborted, NotYetStarted
    <3>2. ASSUME server'.acceptor_open
          PROVE  Len(server'.accepts) = 1 /\ callback' # "do_accept"
      BY <2>1, <2>4, <2>8, <3>2
    <3>3. ListensOnce'
      BY <3>2 DEF ListensOnce
    <3> QED BY <3>1, <3>3 DEF LoopInv
  <2> QED BY <2>5, <2>6, <2>7, <2>9 DEF IInv
<1> QED BY <1>2, <1>3

(* The user stops the server: the acceptor is closed, and the sessions of  *)
(* the set are closed at once or have their close queued.                  *)
LEMMA StopStep == IInv /\ Stop => IInv'
<1> SUFFICES ASSUME IInv, Stop PROVE IInv'
  OBVIOUS
<1>1. PICK inline \in SUBSET server.active_sessions,
           queued \in SUBSET server.active_sessions :
        /\ inline \cap queued = {}
        /\ \A c \in inline : ~sessions[c].closed
        /\ sessions' = [c \in Connection |->
             IF c \in inline THEN close(sessions[c])
             ELSE IF c \in queued THEN [sessions[c] EXCEPT !.close_queued = TRUE]
             ELSE sessions[c]]
        /\ server' = [stop_accepting(server) EXCEPT !.active_sessions = @ \ inline]
  BY DEF Stop
<1>2. UNCHANGED <<callback, inbox, reports, starts>>
  BY DEF Stop
<1>3. /\ server \in Server /\ TypeOK /\ LivesInv
      /\ Accepted(server.accepts, sessions)
      /\ server.accepts \in Seq(AcceptOp)
      /\ server.active_sessions \in SUBSET Connection
  BY ServerFields DEF IInv, TypeOK, AcceptedInv
<1>4. \A op \in AcceptOp : op.status = "pending" =>
        [op EXCEPT !.status = "aborted"] \in AcceptOp
  BY DEF AcceptOp, Status
<1>5. /\ Aborted(server.accepts) \in Seq(AcceptOp)
      /\ DOMAIN Aborted(server.accepts) = DOMAIN server.accepts
      /\ \A i \in DOMAIN server.accepts :
           Aborted(server.accepts)[i] = IF server.accepts[i].status = "pending"
             THEN [server.accepts[i] EXCEPT !.status = "aborted"]
             ELSE server.accepts[i]
  BY <1>3, <1>4, AbortedOps
<1>6. \A i \in DOMAIN server.accepts : server.accepts[i] \in AcceptOp
  BY <1>3
<1>7. \A i \in DOMAIN server.accepts :
        Aborted(server.accepts)[i].connections = server.accepts[i].connections
  BY <1>5, <1>6 DEF AcceptOp
<1>8. /\ server' \in Server /\ ~server'.started /\ ~server'.acceptor_open
      /\ server'.accepts = Aborted(server.accepts)
      /\ server'.active_sessions = server.active_sessions \ inline
  BY <1>1, <1>3, <1>5 DEF stop_accepting, Server
<1>9. ASSUME NEW c \in Connection
      PROVE  /\ sessions'[c] \in ServerSession
             /\ sessions'[c].handshake = sessions[c].handshake
             /\ sessions'[c].up = sessions[c].up
             /\ Life(sessions'[c], Queued(inbox, "report", c),
                     Queued(inbox, "erase", c), reports[c],
                     c \in server'.active_sessions)
  <2> DEFINE s == sessions[c]
             t == sessions'[c]
  <2>1. /\ s \in ServerSession
        /\ Life(s, Queued(inbox, "report", c), Queued(inbox, "erase", c),
                reports[c], c \in server.active_sessions)
    BY <1>3 DEF TypeOK, LivesInv
  <2>2. CASE c \in inline
    <3>1. t = close(s) /\ ~s.closed /\ c \in server.active_sessions
      BY <1>1, <2>2
    <3>2. /\ t \in ServerSession /\ t.handshake = s.handshake /\ t.up = s.up
          /\ t.known = s.known /\ t.close_queued = s.close_queued
          /\ t.closed /\ t.close_notified
      BY <2>1, <3>1, CloseFacts
    <3> HIDE DEF s, t
    <3>3. c \notin server'.active_sessions
      BY <1>8, <2>2
    <3>4. Life(t, Queued(inbox, "report", c), Queued(inbox, "erase", c),
               reports[c], c \in server'.active_sessions)
      BY <2>1, <3>1, <3>2, <3>3 DEF Life
    <3> QED BY <3>2, <3>4 DEF s, t
  <2>3. CASE c \in queued
    <3>1. /\ t = [s EXCEPT !.close_queued = TRUE]
          /\ c \in server.active_sessions /\ c \notin inline
      BY <1>1, <2>3
    <3>2. /\ t \in ServerSession /\ t.handshake = s.handshake /\ t.up = s.up
          /\ t.known = s.known /\ t.close_queued
          /\ t.closed = s.closed /\ t.close_notified = s.close_notified
      BY <2>1, <3>1 DEF ServerSession
    <3> HIDE DEF s, t
    <3>3. c \in server'.active_sessions
      BY <1>8, <3>1
    <3>4. Life(t, Queued(inbox, "report", c), Queued(inbox, "erase", c),
               reports[c], c \in server'.active_sessions)
      BY <2>1, <3>1, <3>2, <3>3 DEF Life
    <3> QED BY <3>2, <3>4 DEF s, t
  <2>4. CASE c \notin inline /\ c \notin queued
    <3>1. t = s /\ (c \in server'.active_sessions <=> c \in server.active_sessions)
      BY <1>1, <1>8, <2>4
    <3> QED BY <2>1, <3>1 DEF Life
  <2> QED BY <2>2, <2>3, <2>4
<1>10. TypeOK'
  <2>1. sessions' \in [Connection -> ServerSession]
    BY <1>1, <1>9
  <2> QED BY <1>2, <1>3, <1>8, <2>1 DEF TypeOK
<1>11. LivesInv'
  BY <1>2, <1>9 DEF LivesInv, Life, Queued
<1>12. Distinct(inbox)'
  BY <1>2 DEF IInv, Distinct
<1>13. ReportsInv'
  <2>1. \A i \in DOMAIN inbox : inbox[i] \in Task
    BY <1>3 DEF TypeOK
  <2>2. \A i \in DOMAIN inbox : inbox[i].connection \in Connection
    BY <2>1 DEF Task
  <2> QED BY <1>2, <1>9, <2>2 DEF IInv, ReportsInv
<1>14. AcceptedInv'
  <2>1. \A i \in DOMAIN server.accepts :
          server.accepts[i].connections \in SUBSET Connection
    BY <1>6 DEF AcceptOp
  <2>2. Accepted(server.accepts, sessions')
    BY <1>3, <1>9, <2>1, AcceptedFrame
  <2> QED BY <1>5, <1>7, <1>8, <2>2 DEF AcceptedInv, Accepted
<1>15. LoopInv'
  BY <1>8 DEF LoopInv, NoneAborted, NotYetStarted, ListensOnce
<1> QED BY <1>10, <1>11, <1>12, <1>13, <1>14, <1>15 DEF IInv
-----------------------------------------------------------------------------
(* The accept handlers. *)

(* An accept handler first takes the accept that completed.                *)
LEMMA PopAccept ==
  ASSUME IInv, IsComplete(server.accepts)
  PROVE  /\ Popped \in Server
         /\ Popped.started = server.started
         /\ Popped.acceptor_open = server.acceptor_open
         /\ Popped.session_handler = server.session_handler
         /\ Popped.active_sessions = server.active_sessions
         /\ Len(Popped.accepts) = Len(server.accepts) - 1
         /\ Accepted(Popped.accepts, sessions)
         /\ NoneAborted(Popped)
         /\ Head(server.accepts) \in AcceptOp
         /\ server.acceptor_open => Head(server.accepts).status # "aborted"
         /\ \A c \in Head(server.accepts).connections :
              sessions[c].handshake = "none"
         /\ \A i \in DOMAIN Popped.accepts :
              Head(server.accepts).connections \cap Popped.accepts[i].connections = {}
<1> DEFINE ops == server.accepts
<1>1. /\ server \in Server /\ ops \in Seq(AcceptOp) /\ ops # << >>
      /\ Accepted(ops, sessions) /\ NoneAborted(server)
  BY ServerFields DEF IInv, TypeOK, AcceptedInv, LoopInv, IsComplete
<1>2. /\ Head(ops) \in AcceptOp
      /\ Tail(ops) \in Seq(AcceptOp)
      /\ Len(Tail(ops)) = Len(ops) - 1
      /\ Accepted(Tail(ops), sessions)
      /\ \A c \in Head(ops).connections : sessions[c].handshake = "none"
      /\ \A i \in DOMAIN Tail(ops) :
           /\ \E j \in DOMAIN ops : Tail(ops)[i] = ops[j]
           /\ Head(ops).connections \cap Tail(ops)[i].connections = {}
  BY <1>1, AcceptedTail
<1>3. /\ Popped \in Server /\ Popped.accepts = Tail(ops)
      /\ Popped.started = server.started
      /\ Popped.acceptor_open = server.acceptor_open
      /\ Popped.session_handler = server.session_handler
      /\ Popped.active_sessions = server.active_sessions
  BY <1>1, <1>2 DEF Popped, Server
<1>4. NoneAborted(Popped)
  BY <1>1, <1>2, <1>3 DEF NoneAborted
<1>5. server.acceptor_open => Head(ops).status # "aborted"
  <2>1. Head(ops) = ops[1] /\ 1 \in DOMAIN ops
    BY <1>1, EmptySeq, LenProperties, HeadTailProperties
  <2> QED BY <1>1, <2>1 DEF NoneAborted
<1> HIDE DEF Popped
<1> QED BY <1>2, <1>3, <1>4, <1>5

(* Calling the session handler starts what is left to do, now or when it   *)
(* returns.                                                                *)
LEMMA CallSessionHandlerStep ==
  ASSUME NEW v \in Server, NEW rest \in {"return", "do_accept"},
         CallSessionHandler(v, rest), NEW ss, Accepted(v.accepts, ss),
         NoneAborted(v)
  PROVE  /\ server' \in Server
         /\ server'.started = v.started
         /\ server'.acceptor_open = v.acceptor_open
         /\ server'.active_sessions = v.active_sessions
         /\ Accepted(server'.accepts, ss)
         /\ NoneAborted(server)'
         /\ callback' \in {"none", "return", "do_accept"}
         /\ Len(server'.accepts) + (IF callback' = "do_accept" THEN 1 ELSE 0)
              = Len(v.accepts) + (IF rest = "do_accept" THEN 1 ELSE 0)
<1>1. v.accepts \in Seq(AcceptOp) /\ Len(v.accepts) \in Nat
  BY ServerFields, LenProperties
<1>2. CASE ~v.session_handler /\ rest = "do_accept"
  <2>1. server' = do_accept(v) /\ callback' = "none"
    BY <1>2 DEF CallSessionHandler
  <2>2. /\ do_accept(v) \in Server
        /\ do_accept(v).started = v.started
        /\ do_accept(v).acceptor_open = v.acceptor_open
        /\ do_accept(v).active_sessions = v.active_sessions
        /\ Accepted(do_accept(v).accepts, ss)
        /\ Len(do_accept(v).accepts) = Len(v.accepts) + 1
        /\ NoneAborted(do_accept(v))
    BY DoAccept
  <2>3. NoneAborted(server)'
    BY <2>1, <2>2 DEF NoneAborted
  <2> QED BY <1>1, <1>2, <2>1, <2>2, <2>3
<1>3. CASE v.session_handler \/ rest # "do_accept"
  <2>1. server' = v /\ callback' = IF v.session_handler THEN rest ELSE "none"
    BY <1>3 DEF CallSessionHandler
  <2>2. NoneAborted(server)'
    BY <2>1 DEF NoneAborted
  <2>3. callback' = "do_accept" <=> rest = "do_accept"
    BY <1>3, <2>1
  <2> QED BY <1>1, <2>1, <2>2, <2>3
<1> QED BY <1>2, <1>3

(* The user's handler returns to the server, which starts its next accept  *)
(* if it was called by an accept handler.                                  *)
LEMMA CallbackReturnsStep == IInv /\ CallbackReturns => IInv'
<1> SUFFICES ASSUME IInv, CallbackReturns PROVE IInv'
  OBVIOUS
<1>1. /\ server \in Server /\ TypeOK /\ LivesInv /\ LoopInv
      /\ Accepted(server.accepts, sessions)
      /\ Len(server.accepts) \in Nat
  BY ServerFields, LenProperties DEF IInv, TypeOK, AcceptedInv
<1>2. /\ callback' = "none" /\ UNCHANGED <<inbox, sessions, reports, starts>>
      /\ server' = IF callback = "do_accept" THEN do_accept(server) ELSE server
  BY DEF CallbackReturns
<1>3. /\ server' \in Server
      /\ server'.started = server.started
      /\ server'.acceptor_open = server.acceptor_open
      /\ server'.active_sessions = server.active_sessions
      /\ Accepted(server'.accepts, sessions)
      /\ NoneAborted(server)'
      /\ callback # "do_accept" => server'.accepts = server.accepts
      /\ Len(server'.accepts)
           = Len(server.accepts) + (IF callback = "do_accept" THEN 1 ELSE 0)
  <2>1. NoneAborted(server)
    BY <1>1 DEF LoopInv
  <2>2. CASE callback = "do_accept"
    <3>1. server' = do_accept(server)
      BY <1>2, <2>2
    <3>2. /\ do_accept(server) \in Server
          /\ do_accept(server).started = server.started
          /\ do_accept(server).acceptor_open = server.acceptor_open
          /\ do_accept(server).active_sessions = server.active_sessions
          /\ Accepted(do_accept(server).accepts, sessions)
          /\ Len(do_accept(server).accepts) = Len(server.accepts) + 1
          /\ NoneAborted(do_accept(server))
      BY <1>1, <2>1, DoAccept
    <3>3. NoneAborted(server)'
      BY <3>1, <3>2 DEF NoneAborted
    <3> QED BY <2>2, <3>1, <3>2, <3>3
  <2>3. CASE callback # "do_accept"
    <3>1. server' = server
      BY <1>2, <2>3
    <3>2. NoneAborted(server)'
      BY <2>1, <3>1 DEF NoneAborted
    <3> QED BY <1>1, <2>3, <3>1, <3>2
  <2> QED BY <2>2, <2>3
<1>4. TypeOK'
  BY <1>1, <1>2, <1>3 DEF TypeOK
<1>5. LivesInv'
  BY <1>1, <1>2, <1>3, LivesFrame
<1>6. Distinct(inbox)' /\ ReportsInv' /\ AcceptedInv'
  BY <1>2, <1>3 DEF IInv, Distinct, ReportsInv, AcceptedInv, Accepted
<1>7. NotYetStarted'
  BY <1>1, <1>2, <1>3 DEF LoopInv, NotYetStarted
<1>8. ListensOnce'
  <2> SUFFICES ASSUME server'.started, server'.acceptor_open
               PROVE  Len(server'.accepts) = 1 /\ callback' # "do_accept"
    BY DEF ListensOnce
  <2>1. Len(server.accepts) + (IF callback = "do_accept" THEN 1 ELSE 0) = 1
    BY <1>1, <1>3 DEF LoopInv, ListensOnce
  <2>2. Len(server'.accepts) = 1
    BY <1>3, <2>1
  <2> QED BY <1>2, <2>2
<1> QED BY <1>3, <1>4, <1>5, <1>6, <1>7, <1>8 DEF IInv, LoopInv

(* An accept that completes after stop() ends there.                       *)
LEMMA OnAcceptStoppedStep == IInv /\ OnAcceptStopped => IInv'
<1> SUFFICES ASSUME IInv, OnAcceptStopped PROVE IInv'
  OBVIOUS
<1>1. /\ TypeOK /\ LivesInv /\ LoopInv
      /\ IsComplete(server.accepts) /\ ~server.started /\ server' = Popped
      /\ UNCHANGED <<callback, inbox, sessions, reports, starts>>
  BY DEF IInv, OnAcceptStopped
<1>2. ~server.acceptor_open
  BY <1>1 DEF LoopInv, NotYetStarted, IsComplete
<1>3. /\ server' \in Server
      /\ ~server'.started /\ ~server'.acceptor_open
      /\ server'.active_sessions = server.active_sessions
      /\ Accepted(server'.accepts, sessions)
  BY <1>1, <1>2, PopAccept
<1>4. TypeOK'
  BY <1>1, <1>3 DEF TypeOK
<1>5. LivesInv'
  BY <1>1, <1>3, LivesFrame
<1>6. Distinct(inbox)' /\ ReportsInv' /\ AcceptedInv'
  BY <1>1, <1>3 DEF IInv, Distinct, ReportsInv, AcceptedInv, Accepted
<1>7. LoopInv'
  BY <1>3 DEF LoopInv, NoneAborted, NotYetStarted, ListensOnce
<1> QED BY <1>4, <1>5, <1>6, <1>7 DEF IInv

(* An accept that fails is reported and followed by the next one, unless   *)
(* it was aborted.                                                         *)
LEMMA OnAcceptErrorStep == IInv /\ OnAcceptError => IInv'
<1> SUFFICES ASSUME IInv, OnAcceptError PROVE IInv'
  OBVIOUS
<1> DEFINE rest == IF Head(server.accepts).status = "aborted"
                     THEN "return" ELSE "do_accept"
<1>1. /\ TypeOK /\ LivesInv /\ LoopInv /\ Len(server.accepts) \in Nat
      /\ IsComplete(server.accepts) /\ server.started /\ callback = "none"
      /\ CallSessionHandler(Popped, rest)
      /\ UNCHANGED <<inbox, sessions, reports, starts>>
  BY ServerFields, LenProperties DEF IInv, TypeOK, OnAcceptError, StrandIdle
<1>2. /\ Popped \in Server
      /\ Popped.started = server.started
      /\ Popped.acceptor_open = server.acceptor_open
      /\ Popped.active_sessions = server.active_sessions
      /\ Len(Popped.accepts) = Len(server.accepts) - 1
      /\ Accepted(Popped.accepts, sessions)
      /\ NoneAborted(Popped)
      /\ server.acceptor_open => rest = "do_accept"
  BY <1>1, PopAccept
<1>3. rest \in {"return", "do_accept"}
  OBVIOUS
<1> HIDE DEF rest
<1>4. /\ server' \in Server
      /\ server'.started
      /\ server'.acceptor_open = server.acceptor_open
      /\ server'.active_sessions = server.active_sessions
      /\ Accepted(server'.accepts, sessions)
      /\ NoneAborted(server)'
      /\ callback' \in {"none", "return", "do_accept"}
      /\ Len(server'.accepts) + (IF callback' = "do_accept" THEN 1 ELSE 0)
           = Len(Popped.accepts) + (IF rest = "do_accept" THEN 1 ELSE 0)
  BY <1>1, <1>2, <1>3, CallSessionHandlerStep
<1>5. TypeOK'
  BY <1>1, <1>4 DEF TypeOK
<1>6. LivesInv'
  BY <1>1, <1>4, LivesFrame
<1>7. Distinct(inbox)' /\ ReportsInv' /\ AcceptedInv'
  BY <1>1, <1>4 DEF IInv, Distinct, ReportsInv, AcceptedInv, Accepted
<1>8. ListensOnce'
  <2>1. server.acceptor_open => Len(server.accepts) = 1
    BY <1>1 DEF LoopInv, ListensOnce
  <2> SUFFICES ASSUME server'.acceptor_open
               PROVE  Len(server'.accepts)
                        + (IF callback' = "do_accept" THEN 1 ELSE 0) = 1
    BY DEF ListensOnce
  <2>2. rest = "do_accept" /\ Len(Popped.accepts) = 0
    BY <1>2, <1>4, <2>1
  <2>3. Len(server'.accepts) \in Nat
    BY <1>4, ServerFields, LenProperties
  <2>4. CASE callback' = "do_accept"
    BY <1>4, <2>2, <2>3, <2>4
  <2>5. CASE callback' # "do_accept"
    BY <1>4, <2>2, <2>3, <2>5
  <2> QED BY <2>4, <2>5
<1>9. NotYetStarted'
  BY <1>4 DEF NotYetStarted
<1> QED BY <1>4, <1>5, <1>6, <1>7, <1>8, <1>9 DEF IInv, LoopInv

(* An accepted connection whose session is set up starts its handshake,    *)
(* and the next accept is started.                                         *)
LEMMA OnAcceptStarts ==
  ASSUME IInv, IsComplete(server.accepts), server.started, callback = "none",
         NEW c \in Head(server.accepts).connections,
         sessions' = [sessions EXCEPT ![c] =
                        [NewSession EXCEPT !.handshake = "pending"]],
         server' = do_accept(Popped),
         UNCHANGED <<callback, reports, inbox, starts>>
  PROVE  IInv'
<1> DEFINE t == [NewSession EXCEPT !.handshake = "pending"]
           w == do_accept(Popped)
<1>1. /\ TypeOK /\ LivesInv /\ LoopInv /\ Len(server.accepts) \in Nat
  BY ServerFields, LenProperties DEF IInv, TypeOK
<1>2. /\ Popped \in Server
      /\ Popped.started
      /\ Popped.acceptor_open = server.acceptor_open
      /\ Popped.active_sessions = server.active_sessions
      /\ Len(Popped.accepts) = Len(server.accepts) - 1
      /\ Accepted(Popped.accepts, sessions)
      /\ NoneAborted(Popped)
      /\ Head(server.accepts) \in AcceptOp
      /\ sessions[c].handshake = "none"
      /\ \A i \in DOMAIN Popped.accepts :
           Head(server.accepts).connections \cap Popped.accepts[i].connections = {}
  BY PopAccept
<1>3. c \in Connection
  BY <1>2 DEF AcceptOp
<1>4. /\ t \in ServerSession /\ t.handshake = "pending"
      /\ ~t.up /\ ~t.known /\ ~t.closed /\ ~t.close_notified /\ ~t.close_queued
  BY DEF NewSession, ServerSession
<1>5. /\ sessions' = [sessions EXCEPT ![c] = t] /\ server' = w
      /\ sessions \in [Connection -> ServerSession]
  BY <1>1 DEF TypeOK
<1> HIDE DEF t
<1>6. /\ sessions' \in [Connection -> ServerSession] /\ sessions'[c] = t
      /\ \A d \in Connection \ {c} : sessions'[d] = sessions[d]
  BY <1>3, <1>4, <1>5
<1>7. Accepted(Popped.accepts, sessions')
  <2>1. ASSUME NEW i \in DOMAIN Popped.accepts,
               NEW d \in Popped.accepts[i].connections
        PROVE  sessions'[d] = sessions[d]
    <3>1. d # c
      BY <1>2
    <3> QED BY <1>3, <1>5, <3>1
  <2>2. \A i \in DOMAIN Popped.accepts : \A d \in Popped.accepts[i].connections :
          sessions[d].handshake = "none" => sessions'[d].handshake = "none"
    BY <2>1
  <2>3. Accepted(Popped.accepts, sessions')
    BY ONLY <1>2, <2>2, AcceptedFrame
  <2> QED BY <2>3
<1>8. /\ w \in Server /\ w.started
      /\ w.acceptor_open = server.acceptor_open
      /\ w.active_sessions = server.active_sessions
      /\ Accepted(w.accepts, sessions')
      /\ Len(w.accepts) = Len(server.accepts) - 1 + 1
      /\ NoneAborted(w)
  BY <1>2, <1>7, DoAccept
<1> HIDE DEF w
<1>9. TypeOK'
  BY <1>1, <1>5, <1>6, <1>8 DEF TypeOK
<1>10. LivesInv'
  <2>1. Life(sessions[c], Queued(inbox, "report", c), Queued(inbox, "erase", c),
             reports[c], c \in server.active_sessions)
    BY <1>1, <1>3 DEF LivesInv
  <2>2. Life(t, Queued(inbox, "report", c), Queued(inbox, "erase", c),
             reports[c], c \in server.active_sessions)
    BY <1>2, <1>4, <2>1 DEF Life
  <2>3. \A d : \A do : Queued(inbox', do, d) <=> Queued(inbox, do, d)
    BY DEF Queued
  <2> QED BY <1>1, <1>3, <1>5, <1>6, <1>8, <2>2, <2>3, LivesStep
<1>11. Distinct(inbox)'
  BY DEF IInv, Distinct
<1>12. ReportsInv'
  <2>1. \A i \in DOMAIN inbox : inbox[i] \in Task
    BY <1>1 DEF TypeOK
  <2>2. \A i \in DOMAIN inbox : inbox[i].connection \in Connection
    BY <2>1 DEF Task
  <2>3. Life(sessions[c], Queued(inbox, "report", c), Queued(inbox, "erase", c),
             reports[c], c \in server.active_sessions)
    BY <1>1, <1>3 DEF LivesInv
  <2>4. sessions[c].up = t.up
    <3>1. ~sessions[c].up /\ sessions[c] \in ServerSession
      BY <1>2, <1>3, <1>5, <2>3 DEF Life
    <3> QED BY <1>4, <3>1 DEF ServerSession
  <2> QED BY <1>6, <2>2, <2>4 DEF IInv, ReportsInv
<1>13. AcceptedInv'
  BY <1>5, <1>8 DEF AcceptedInv
<1>14. LoopInv'
  <2>1. NoneAborted(server)' /\ NotYetStarted'
    BY <1>5, <1>8 DEF NoneAborted, NotYetStarted
  <2>2. ListensOnce'
    <3> SUFFICES ASSUME server'.acceptor_open
                 PROVE  Len(server'.accepts) = 1 /\ callback' # "do_accept"
      BY DEF ListensOnce
    <3>1. Len(server.accepts) = 1
      BY <1>1, <1>5, <1>8 DEF LoopInv, ListensOnce
    <3> QED BY <1>5, <1>8, <3>1
  <2> QED BY <2>1, <2>2 DEF LoopInv
<1> QED BY <1>9, <1>10, <1>11, <1>12, <1>13, <1>14 DEF IInv

(* One whose socket option is refused is over before it began, and is      *)
(* reported.                                                               *)
LEMMA OnAcceptRefused ==
  ASSUME IInv, IsComplete(server.accepts), server.started, callback = "none",
         NEW c \in Head(server.accepts).connections,
         sessions' = [sessions EXCEPT ![c] =
                        close_transport([NewSession EXCEPT !.handshake = "over"])],
         reports' = [reports EXCEPT ![c] = @ + 1],
         CallSessionHandler(erase(Popped, c), "do_accept"),
         UNCHANGED <<inbox, starts>>
  PROVE  IInv'
<1> DEFINE t == close_transport([NewSession EXCEPT !.handshake = "over"])
           v == erase(Popped, c)
<1>1. /\ TypeOK /\ LivesInv /\ LoopInv /\ Len(server.accepts) \in Nat
  BY ServerFields, LenProperties DEF IInv, TypeOK
<1>2. /\ Popped \in Server
      /\ Popped.started
      /\ Popped.acceptor_open = server.acceptor_open
      /\ Popped.active_sessions = server.active_sessions
      /\ Len(Popped.accepts) = Len(server.accepts) - 1
      /\ Accepted(Popped.accepts, sessions)
      /\ NoneAborted(Popped)
      /\ Head(server.accepts) \in AcceptOp
      /\ sessions[c].handshake = "none"
      /\ \A i \in DOMAIN Popped.accepts :
           Head(server.accepts).connections \cap Popped.accepts[i].connections = {}
  BY PopAccept
<1>3. c \in Connection
  BY <1>2 DEF AcceptOp
<1>4. /\ t \in ServerSession /\ t.handshake = "over"
      /\ ~t.up /\ ~t.known /\ ~t.closed /\ t.close_notified /\ ~t.close_queued
  BY DEF NewSession, ServerSession, close_transport
<1>5. /\ v \in Server /\ v.started
      /\ v.acceptor_open = server.acceptor_open
      /\ v.active_sessions = server.active_sessions \ {c}
      /\ v.accepts = Popped.accepts
  BY <1>2 DEF erase, Server
<1>6. /\ sessions' = [sessions EXCEPT ![c] = t]
      /\ CallSessionHandler(v, "do_accept")
      /\ sessions \in [Connection -> ServerSession]
      /\ reports \in [Connection -> 0 .. 1]
      /\ reports' = [reports EXCEPT ![c] = @ + 1]
  BY <1>1 DEF TypeOK
<1> HIDE DEF t, v
<1>7. /\ sessions' \in [Connection -> ServerSession] /\ sessions'[c] = t
      /\ \A d \in Connection \ {c} : sessions'[d] = sessions[d]
  BY <1>3, <1>4, <1>6
<1>8. Accepted(v.accepts, sessions')
  <2>1. ASSUME NEW i \in DOMAIN Popped.accepts,
               NEW d \in Popped.accepts[i].connections
        PROVE  sessions'[d] = sessions[d]
    <3>1. d # c
      BY <1>2
    <3> QED BY <1>3, <1>6, <3>1
  <2>2. \A i \in DOMAIN Popped.accepts : \A d \in Popped.accepts[i].connections :
          sessions[d].handshake = "none" => sessions'[d].handshake = "none"
    BY <2>1
  <2>3. Accepted(Popped.accepts, sessions')
    BY ONLY <1>2, <2>2, AcceptedFrame
  <2> QED BY <1>5, <2>3
<1>9. NoneAborted(v)
  BY <1>2, <1>5 DEF NoneAborted
<1>10. /\ server' \in Server /\ server'.started
       /\ server'.acceptor_open = server.acceptor_open
       /\ server'.active_sessions = server.active_sessions \ {c}
       /\ Accepted(server'.accepts, sessions')
       /\ NoneAborted(server)'
       /\ callback' \in {"none", "return", "do_accept"}
       /\ Len(server'.accepts) + (IF callback' = "do_accept" THEN 1 ELSE 0)
            = Len(v.accepts) + 1
  BY <1>5, <1>6, <1>8, <1>9, CallSessionHandlerStep
<1>11. Life(sessions[c], Queued(inbox, "report", c), Queued(inbox, "erase", c),
            reports[c], c \in server.active_sessions)
  BY <1>1, <1>3 DEF LivesInv
<1>12. /\ reports[c] = 0 /\ reports' \in [Connection -> 0 .. 1] /\ reports'[c] = 1
       /\ \A d \in Connection \ {c} : reports'[d] = reports[d]
  <2>1. reports[c] = 0
    BY <1>2, <1>11 DEF Life
  <2> QED BY <1>3, <1>6, <2>1
<1>13. TypeOK'
  BY <1>1, <1>7, <1>10, <1>12 DEF TypeOK
<1>14. LivesInv'
  <2>1. /\ ~Queued(inbox, "report", c) /\ ~Queued(inbox, "erase", c)
        /\ c \notin server.active_sessions
    BY <1>2, <1>11 DEF Life
  <2>2. c \notin server'.active_sessions
    BY <1>10
  <2>3. Life(t, Queued(inbox, "report", c), Queued(inbox, "erase", c),
             reports'[c], c \in server'.active_sessions)
    BY <1>4, <1>12, <2>1, <2>2 DEF Life
  <2>4. \A d : \A do : Queued(inbox', do, d) <=> Queued(inbox, do, d)
    BY DEF Queued
  <2>5. \A d \in Connection \ {c} :
          d \in server'.active_sessions <=> d \in server.active_sessions
    BY <1>10
  <2> QED BY <1>1, <1>3, <1>7, <1>12, <2>3, <2>4, <2>5, LivesStep
<1>15. Distinct(inbox)'
  BY DEF IInv, Distinct
<1>16. ReportsInv'
  <2>1. \A i \in DOMAIN inbox : inbox[i] \in Task
    BY <1>1 DEF TypeOK
  <2>2. \A i \in DOMAIN inbox : inbox[i].connection \in Connection
    BY <2>1 DEF Task
  <2>3. sessions[c].up = t.up
    <3>1. ~sessions[c].up /\ sessions[c] \in ServerSession
      BY <1>2, <1>3, <1>6, <1>11 DEF Life
    <3> QED BY <1>4, <3>1 DEF ServerSession
  <2> QED BY <1>7, <2>2, <2>3 DEF IInv, ReportsInv
<1>17. AcceptedInv'
  BY <1>10 DEF AcceptedInv
<1>18. LoopInv'
  <2>1. NotYetStarted'
    BY <1>10 DEF NotYetStarted
  <2>2. ListensOnce'
    <3> SUFFICES ASSUME server'.acceptor_open
                 PROVE  Len(server'.accepts)
                          + (IF callback' = "do_accept" THEN 1 ELSE 0) = 1
      BY DEF ListensOnce
    <3>1. Len(server.accepts) = 1
      BY <1>1, <1>10 DEF LoopInv, ListensOnce
    <3>2. Len(v.accepts) + 1 = 1
      BY <1>2, <1>5, <3>1
    <3> QED BY <1>10, <3>2
  <2> QED BY <1>10, <2>1, <2>2 DEF LoopInv
<1> QED BY <1>13, <1>14, <1>15, <1>16, <1>17, <1>18 DEF IInv

(* Both outcomes of an accepted connection.                                *)
LEMMA OnAcceptStep == IInv /\ OnAccept => IInv'
<1> SUFFICES ASSUME IInv, OnAccept PROVE IInv'
  OBVIOUS
<1>1. /\ IsComplete(server.accepts) /\ server.started /\ callback = "none"
      /\ UNCHANGED <<inbox, starts>>
  BY DEF OnAccept, StrandIdle
<1>2. PICK c \in Head(server.accepts).connections :
        \/ /\ sessions' = [sessions EXCEPT ![c] =
                [NewSession EXCEPT !.handshake = "pending"]]
           /\ server' = do_accept(Popped)
           /\ UNCHANGED <<callback, reports>>
        \/ /\ sessions' = [sessions EXCEPT ![c] =
                close_transport([NewSession EXCEPT !.handshake = "over"])]
           /\ reports' = [reports EXCEPT ![c] = @ + 1]
           /\ CallSessionHandler(erase(Popped, c), "do_accept")
  BY DEF OnAccept
<1>3. CASE /\ sessions' = [sessions EXCEPT ![c] =
                [NewSession EXCEPT !.handshake = "pending"]]
           /\ server' = do_accept(Popped)
           /\ UNCHANGED <<callback, reports>>
  BY <1>1, <1>3, OnAcceptStarts
<1>4. CASE /\ sessions' = [sessions EXCEPT ![c] =
                close_transport([NewSession EXCEPT !.handshake = "over"])]
           /\ reports' = [reports EXCEPT ![c] = @ + 1]
           /\ CallSessionHandler(erase(Popped, c), "do_accept")
  BY <1>1, <1>4, OnAcceptRefused
<1> QED BY <1>2, <1>3, <1>4
-----------------------------------------------------------------------------
(* Steps of one session. *)

(* The types of what the steps of a session touch.                         *)
LEMMA StateTypes ==
  ASSUME IInv
  PROVE  /\ server \in Server /\ inbox \in Seq(Task)
         /\ sessions \in [Connection -> ServerSession]
         /\ reports \in [Connection -> 0 .. 1]
         /\ \A i \in DOMAIN inbox : inbox[i].connection \in Connection
         /\ \A i \in DOMAIN server.accepts :
              server.accepts[i].connections \in SUBSET Connection
<1>1. /\ server \in Server /\ inbox \in Seq(Task)
      /\ sessions \in [Connection -> ServerSession]
      /\ reports \in [Connection -> 0 .. 1]
  BY DEF IInv, TypeOK
<1>2. /\ \A i \in DOMAIN inbox : inbox[i] \in Task
      /\ \A i \in DOMAIN server.accepts : server.accepts[i] \in AcceptOp
  BY <1>1, ServerFields
<1> QED BY <1>1, <1>2 DEF Task, AcceptOp

(* The accept loop does not depend on the sessions.                        *)
LEMMA LoopFrame ==
  ASSUME IInv,
         server'.started = server.started,
         server'.acceptor_open = server.acceptor_open,
         server'.accepts = server.accepts,
         callback' = "do_accept" <=> callback = "do_accept"
  PROVE  LoopInv'
BY DEF IInv, LoopInv, NoneAborted, NotYetStarted, ListensOnce

(* A step of a session whose handshake has begun leaves alone what is      *)
(* accepted and waits for a session.                                       *)
LEMMA AcceptedStep ==
  ASSUME IInv, NEW d \in Connection, sessions[d].handshake # "none",
         \A c \in Connection \ {d} : sessions'[c] = sessions[c],
         server'.accepts = server.accepts
  PROVE  AcceptedInv'
<1>1. \A i \in DOMAIN server.accepts : \A c \in server.accepts[i].connections :
        sessions[c].handshake = "none" => sessions'[c].handshake = "none"
  BY StateTypes
<1>2. Accepted(server.accepts, sessions)
  BY DEF IInv, AcceptedInv
<1>3. Accepted(server.accepts, sessions')
  BY ONLY <1>1, <1>2, AcceptedFrame
<1> QED BY <1>3 DEF AcceptedInv

(* The reports that are queued stay true while no handshake ends.          *)
LEMMA ReportsFrame ==
  ASSUME IInv, inbox' = inbox,
         \A c \in Connection : sessions'[c].up = sessions[c].up
  PROVE  Distinct(inbox)' /\ ReportsInv'
BY StateTypes DEF IInv, ReportsInv, Distinct

(* The life of a connection, as the invariant tells it.                    *)
LEMMA LifeOf ==
  ASSUME IInv, NEW c \in Connection
  PROVE  Life(sessions[c], Queued(inbox, "report", c),
              Queued(inbox, "erase", c), reports[c],
              c \in server.active_sessions)
BY DEF IInv, LivesInv

(* The server's strand erases a session from the set.                      *)
LEMMA RunEraseStep == IInv /\ RunErase => IInv'
<1> SUFFICES ASSUME IInv, RunErase PROVE IInv'
  OBVIOUS
<1> DEFINE c == Head(inbox).connection
<1>1. /\ server \in Server /\ inbox \in Seq(Task) /\ inbox # << >>
      /\ Distinct(inbox) /\ Head(inbox).do = "erase"
      /\ server' = erase(server, c) /\ inbox' = Tail(inbox)
      /\ UNCHANGED <<callback, sessions, reports, starts>>
      /\ TypeOK /\ LivesInv
  BY DEF IInv, TypeOK, RunErase
<1>2. /\ server' \in Server
      /\ server'.started = server.started
      /\ server'.acceptor_open = server.acceptor_open
      /\ server'.active_sessions = server.active_sessions \ {c}
      /\ server'.accepts = server.accepts
  BY <1>1 DEF erase, Server
<1>3. /\ Head(inbox) \in Task
      /\ inbox' \in Seq(Task)
      /\ Distinct(inbox')
      /\ \A i \in DOMAIN inbox' : i + 1 \in DOMAIN inbox /\ inbox'[i] = inbox[i + 1]
      /\ \A do, d : Queued(inbox', do, d) <=>
           Queued(inbox, do, d) /\ ~(Head(inbox).do = do /\ c = d)
  BY <1>1, QueueTail
<1>4. c \in Connection
  BY <1>3 DEF Task
<1>5. Queued(inbox, "erase", c)
  <2>1. 1 \in DOMAIN inbox /\ Head(inbox) = inbox[1]
    BY <1>1, EmptySeq, LenProperties, HeadTailProperties
  <2> QED BY <1>1, <2>1 DEF Queued
<1> HIDE DEF c
<1>6. TypeOK'
  BY <1>1, <1>2, <1>3 DEF TypeOK
<1>7. LivesInv'
  <2>1. /\ Queued(inbox', "report", c) <=> Queued(inbox, "report", c)
        /\ ~Queued(inbox', "erase", c)
        /\ c \notin server'.active_sessions
    BY <1>1, <1>2, <1>3
  <2>2. Life(sessions'[c], Queued(inbox', "report", c),
             Queued(inbox', "erase", c), reports'[c],
             c \in server'.active_sessions)
    BY <1>1, <1>4, <1>5, <2>1, LifeOf DEF Life
  <2> QED BY <1>1, <1>2, <1>3, <1>4, <2>2, LivesStep
<1>8. Distinct(inbox)' /\ ReportsInv'
  BY <1>1, <1>3 DEF IInv, ReportsInv, Distinct
<1>9. AcceptedInv'
  BY <1>1, <1>2 DEF IInv, AcceptedInv, Accepted
<1>10. LoopInv'
  BY <1>1, <1>2, LoopFrame
<1> QED BY <1>6, <1>7, <1>8, <1>9, <1>10 DEF IInv

(* The server's strand reports a session, and inserts it into the set if   *)
(* its handshake succeeded.                                                *)
LEMMA RunReportStep == IInv /\ RunReport => IInv'
<1> SUFFICES ASSUME IInv, RunReport PROVE IInv'
  OBVIOUS
<1> DEFINE c  == Head(inbox).connection
           ok == Head(inbox).succeeded
           v  == IF ok THEN insert(server, c) ELSE server
           t  == [sessions[c] EXCEPT !.known = ok /\ server.session_handler]
<1>1. /\ server \in Server /\ inbox \in Seq(Task) /\ inbox # << >>
      /\ Distinct(inbox) /\ Head(inbox).do = "report" /\ callback = "none"
      /\ inbox' = Tail(inbox) /\ starts' = starts
      /\ CallSessionHandler(v, "return")
      /\ sessions' = [sessions EXCEPT ![c].known = ok /\ server.session_handler]
      /\ reports' = [reports EXCEPT ![c] = @ + 1]
      /\ TypeOK /\ LivesInv
      /\ sessions \in [Connection -> ServerSession]
      /\ reports \in [Connection -> 0 .. 1]
  BY DEF IInv, TypeOK, RunReport, StrandIdle
<1>2. /\ Head(inbox) \in Task
      /\ inbox' \in Seq(Task)
      /\ Distinct(inbox')
      /\ \A i \in DOMAIN inbox' : i + 1 \in DOMAIN inbox /\ inbox'[i] = inbox[i + 1]
      /\ \A do, d : Queued(inbox', do, d) <=>
           Queued(inbox, do, d) /\ ~(Head(inbox).do = do /\ c = d)
  BY <1>1, QueueTail
<1>3. c \in Connection /\ ok \in BOOLEAN /\ sessions[c] \in ServerSession
  BY <1>1, <1>2 DEF Task
<1>4. Queued(inbox, "report", c) /\ ok = sessions[c].up
  <2>1. 1 \in DOMAIN inbox /\ Head(inbox) = inbox[1]
    BY <1>1, EmptySeq, LenProperties, HeadTailProperties
  <2> QED BY <1>1, <2>1 DEF Queued, IInv, ReportsInv
<1>5. /\ v \in Server /\ v.started = server.started
      /\ v.acceptor_open = server.acceptor_open
      /\ v.session_handler = server.session_handler
      /\ v.active_sessions
           = IF ok THEN server.active_sessions \cup {c} ELSE server.active_sessions
      /\ v.accepts = server.accepts
  BY <1>1, <1>3 DEF insert, Server
<1>6. /\ server' = v
      /\ callback' = IF v.session_handler THEN "return" ELSE "none"
  BY <1>1 DEF CallSessionHandler
<1>7. /\ t \in ServerSession /\ t.handshake = sessions[c].handshake
      /\ t.up = sessions[c].up /\ t.known = (ok /\ server.session_handler)
      /\ t.closed = sessions[c].closed
      /\ t.close_notified = sessions[c].close_notified
      /\ t.close_queued = sessions[c].close_queued
  BY <1>1, <1>3, ServerFields DEF ServerSession
<1>8. sessions' = [sessions EXCEPT ![c] = t]
  BY <1>1
<1> HIDE DEF c, ok, v, t
<1>9. /\ sessions' \in [Connection -> ServerSession] /\ sessions'[c] = t
      /\ \A d \in Connection \ {c} : sessions'[d] = sessions[d]
  BY <1>1, <1>3, <1>7, <1>8
<1>10. Life(sessions[c], Queued(inbox, "report", c), Queued(inbox, "erase", c),
            reports[c], c \in server.active_sessions)
  BY <1>3, LifeOf
<1>11. sessions[c].handshake = "over" /\ reports[c] = 0
  BY <1>4, <1>10 DEF Life
<1>12. /\ reports' \in [Connection -> 0 .. 1] /\ reports'[c] = 1
       /\ \A d \in Connection \ {c} : reports'[d] = reports[d]
  BY <1>1, <1>3, <1>11
<1>13. TypeOK'
  BY <1>1, <1>2, <1>5, <1>6, <1>9, <1>12 DEF TypeOK
<1>14. LivesInv'
  <2>1. /\ ~Queued(inbox', "report", c)
        /\ Queued(inbox', "erase", c) <=> Queued(inbox, "erase", c)
        /\ c \in server'.active_sessions <=> c \in server.active_sessions \/ ok
    BY <1>1, <1>2, <1>5, <1>6
  <2>2. Life(t, Queued(inbox', "report", c), Queued(inbox', "erase", c),
             reports'[c], c \in server'.active_sessions)
    BY <1>4, <1>7, <1>10, <1>11, <1>12, <2>1 DEF Life
  <2>3. \A d \in Connection \ {c} :
          d \in server'.active_sessions <=> d \in server.active_sessions
    BY <1>5, <1>6
  <2> QED BY <1>1, <1>2, <1>3, <1>9, <1>12, <2>2, <2>3, LivesStep
<1>15. Distinct(inbox)'
  BY <1>2
<1>16. ReportsInv'
  <2>1. \A i \in DOMAIN inbox' : inbox'[i].connection \in Connection
    BY <1>2, StateTypes
  <2>2. \A d \in Connection : sessions'[d].up = sessions[d].up
    BY <1>7, <1>9
  <2> QED BY <1>2, <2>1, <2>2 DEF IInv, ReportsInv
<1>17. AcceptedInv'
  BY <1>3, <1>5, <1>6, <1>9, <1>11, AcceptedStep
<1>18. LoopInv'
  BY <1>1, <1>5, <1>6, LoopFrame
<1> QED BY <1>13, <1>14, <1>15, <1>16, <1>17, <1>18 DEF IInv

(* A handshake ends: its session reports that to the server, after an      *)
(* erasure if it failed.                                                   *)
LEMMA OnHandshakeStep ==
  ASSUME IInv, NEW c \in Connection, OnHandshake(c)
  PROVE  IInv'
<1> DEFINE ok == sessions[c].handshake = "done"
           s  == [sessions[c] EXCEPT !.handshake = "over", !.up = ok]
           t  == IF ok THEN s ELSE close_transport(s)
           r  == HandshakeTasks(c, ok)
<1>1. /\ sessions[c] \in ServerSession /\ inbox \in Seq(Task) /\ Distinct(inbox)
      /\ sessions \in [Connection -> ServerSession]
      /\ TypeOK /\ LivesInv
  BY DEF IInv, TypeOK
<1>2. /\ sessions[c].handshake \in {"done", "failed"}
      /\ sessions' = [sessions EXCEPT ![c] = t]
      /\ inbox' = inbox \o r
      /\ UNCHANGED <<server, callback, reports, starts>>
  BY DEF OnHandshake
<1>3. Life(sessions[c], Queued(inbox, "report", c), Queued(inbox, "erase", c),
           reports[c], c \in server.active_sessions)
  BY LifeOf
<1>4. /\ ~sessions[c].up /\ ~sessions[c].known /\ ~sessions[c].closed
      /\ ~sessions[c].close_notified /\ ~sessions[c].close_queued
      /\ ~Queued(inbox, "report", c) /\ ~Queued(inbox, "erase", c)
      /\ reports[c] = 0 /\ c \notin server.active_sessions
  BY <1>2, <1>3 DEF Life
<1>5. /\ t \in ServerSession /\ t.handshake = "over" /\ (t.up <=> ok)
      /\ ~t.known /\ ~t.closed /\ ~t.close_queued
      /\ t.close_notified <=> ~ok
  BY <1>1, <1>4 DEF ServerSession, close_transport
<1>6. /\ r \in Seq(Task) /\ Distinct(r)
      /\ \A do, d : Queued(r, do, d) <=>
           d = c /\ (do = "report" \/ (do = "erase" /\ ~ok))
      /\ \A i \in DOMAIN r :
           /\ r[i].connection = c
           /\ r[i].do \in {"report", "erase"}
           /\ r[i].do = "report" => r[i].succeeded = ok
  <2>1. /\ Report(c, ok) \in Task /\ Erase(c) \in Task
        /\ Report(c, ok).do = "report" /\ Erase(c).do = "erase"
        /\ Report(c, ok).connection = c /\ Erase(c).connection = c
        /\ Report(c, ok).succeeded = ok
    BY DEF Report, Erase, Task
  <2>2. CASE ok
    <3>1. r = << Report(c, ok) >>
      BY <2>2 DEF HandshakeTasks, Report
    <3> HIDE DEF r, ok
    <3>2. /\ r \in Seq(Task) /\ Distinct(r)
          /\ \A do, d : Queued(r, do, d) <=>
               Report(c, ok).do = do /\ Report(c, ok).connection = d
      BY <2>1, <3>1, SmallQueues
    <3>3. \A i \in DOMAIN r : r[i] = Report(c, ok)
      BY <3>1
    <3> QED BY <2>1, <2>2, <3>2, <3>3
  <2>3. CASE ~ok
    <3>1. r = << Erase(c), Report(c, ok) >>
      BY <2>3 DEF HandshakeTasks, Report
    <3> HIDE DEF r, ok
    <3>2. /\ r \in Seq(Task) /\ Distinct(r)
          /\ \A do, d : Queued(r, do, d) <=>
               \/ Erase(c).do = do /\ Erase(c).connection = d
               \/ Report(c, ok).do = do /\ Report(c, ok).connection = d
      BY <2>1, <3>1, SmallQueues
    <3>3. \A i \in DOMAIN r : r[i] = Report(c, ok) \/ r[i] = Erase(c)
      BY <3>1
    <3> QED BY <2>1, <2>3, <3>2, <3>3
  <2> QED BY <2>2, <2>3
<1> HIDE DEF t, r, ok
<1>7. \A i \in DOMAIN r : ~Queued(inbox, r[i].do, r[i].connection)
  BY <1>4, <1>6
<1>8. /\ inbox' \in Seq(Task) /\ Distinct(inbox')
      /\ \A i \in DOMAIN inbox' :
           \/ i \in DOMAIN inbox /\ inbox'[i] = inbox[i]
           \/ i - Len(inbox) \in DOMAIN r /\ inbox'[i] = r[i - Len(inbox)]
      /\ \A do, d : Queued(inbox', do, d) <=> Queued(inbox, do, d) \/ Queued(r, do, d)
  BY <1>1, <1>2, <1>6, <1>7, QueueConcat
<1>9. /\ sessions' \in [Connection -> ServerSession] /\ sessions'[c] = t
      /\ \A d \in Connection \ {c} : sessions'[d] = sessions[d]
  BY <1>1, <1>2, <1>5
<1>10. TypeOK'
  BY <1>1, <1>2, <1>8, <1>9 DEF TypeOK
<1>11. LivesInv'
  <2>1. /\ Queued(inbox', "report", c)
        /\ Queued(inbox', "erase", c) <=> ~ok
    BY <1>4, <1>6, <1>8
  <2>2. Life(t, Queued(inbox', "report", c), Queued(inbox', "erase", c),
             reports[c], c \in server.active_sessions)
    BY <1>4, <1>5, <2>1 DEF Life
  <2>3. \A d \in Connection \ {c} : \A do :
          Queued(inbox', do, d) <=> Queued(inbox, do, d)
    BY <1>6, <1>8
  <2> QED BY <1>1, <1>2, <1>9, <2>2, <2>3, LivesStep
<1>12. ReportsInv'
  <2> SUFFICES ASSUME NEW i \in DOMAIN inbox', inbox'[i].do = "report"
               PROVE  inbox'[i].succeeded = sessions'[inbox'[i].connection].up
    BY DEF ReportsInv
  <2>1. CASE i \in DOMAIN inbox /\ inbox'[i] = inbox[i]
    <3>1. inbox[i].connection \in Connection /\ inbox[i].connection # c
      BY <1>4, <2>1, StateTypes DEF Queued
    <3>2. inbox[i].succeeded = sessions[inbox[i].connection].up
      BY <2>1 DEF IInv, ReportsInv
    <3> QED BY <1>9, <2>1, <3>1, <3>2
  <2>2. CASE i - Len(inbox) \in DOMAIN r /\ inbox'[i] = r[i - Len(inbox)]
    <3>1. inbox'[i].connection = c /\ inbox'[i].succeeded = ok
      BY <1>6, <2>2
    <3>2. t.up \in BOOLEAN /\ ok \in BOOLEAN
      BY <1>5 DEF ServerSession, ok
    <3> QED BY <1>5, <1>9, <3>1, <3>2
  <2> QED BY <1>8, <2>1, <2>2
<1>13. AcceptedInv'
  BY <1>2, <1>9, AcceptedStep
<1>14. LoopInv'
  BY <1>2, LoopFrame
<1> QED BY <1>8, <1>10, <1>11, <1>12, <1>13, <1>14 DEF IInv

(* A session that a user knows, or that stop() has close, closes.          *)
LEMMA SessionClosesStep ==
  ASSUME IInv, NEW c \in Connection, SessionCloses(c)
  PROVE  IInv'
<1> DEFINE s == sessions[c]
           t == [close(s) EXCEPT !.close_queued = FALSE]
           r == CloseTasks(c, s)
<1>1. /\ s \in ServerSession /\ inbox \in Seq(Task) /\ Distinct(inbox)
      /\ sessions \in [Connection -> ServerSession]
      /\ TypeOK /\ LivesInv
  BY DEF IInv, TypeOK
<1>2. /\ s.known \/ s.close_queued
      /\ sessions' = [sessions EXCEPT ![c] = t]
      /\ inbox' = inbox \o r
      /\ UNCHANGED <<server, callback, reports, starts>>
  BY DEF SessionCloses
<1>3. Life(s, Queued(inbox, "report", c), Queued(inbox, "erase", c),
           reports[c], c \in server.active_sessions)
  BY LifeOf
<1>4. s.up /\ ~Queued(inbox, "report", c) /\ s.handshake = "over"
  BY <1>2, <1>3 DEF Life
<1>5. /\ t \in ServerSession /\ t.handshake = s.handshake /\ t.up = s.up
      /\ t.known = s.known /\ t.closed /\ ~t.close_queued
      /\ t.close_notified <=> s.close_notified \/ ~s.closed
  <2>1. close(s) \in ServerSession
    BY <1>1, CloseFacts
  <2>2. /\ t \in ServerSession /\ t.handshake = close(s).handshake
        /\ t.up = close(s).up /\ t.known = close(s).known
        /\ t.closed = close(s).closed /\ ~t.close_queued
        /\ t.close_notified = close(s).close_notified
    BY <2>1 DEF ServerSession
  <2> HIDE DEF t
  <2> QED BY <1>1, <2>2, CloseFacts
<1>6. /\ r \in Seq(Task) /\ Distinct(r)
      /\ \A do, d : Queued(r, do, d) <=>
           /\ d = c /\ do = "erase"
           /\ ~s.close_notified /\ ~s.closed
      /\ \A i \in DOMAIN r : r[i].connection = c /\ r[i].do = "erase"
  <2>1. Erase(c) \in Task /\ Erase(c).do = "erase" /\ Erase(c).connection = c
    BY DEF Erase, Task
  <2>2. CASE ~s.close_notified /\ ~s.closed
    <3>1. r = << Erase(c) >>
      BY <1>1, <2>2, CloseFacts DEF CloseTasks
    <3> HIDE DEF r, s
    <3>2. /\ r \in Seq(Task) /\ Distinct(r)
          /\ \A do, d : Queued(r, do, d) <=>
               Erase(c).do = do /\ Erase(c).connection = d
      BY <2>1, <3>1, SmallQueues
    <3>3. \A i \in DOMAIN r : r[i] = Erase(c)
      BY <3>1
    <3> QED BY <2>1, <2>2, <3>2, <3>3
  <2>3. CASE s.close_notified \/ s.closed
    <3>1. r = << >>
      BY <1>1, <2>3, CloseFacts DEF CloseTasks
    <3> HIDE DEF r, s
    <3>2. /\ r \in Seq(Task) /\ Distinct(r)
          /\ \A do, d : ~Queued(r, do, d)
          /\ DOMAIN r = {}
      BY <3>1, SmallQueues
    <3> QED BY <2>3, <3>2
  <2> QED BY <2>2, <2>3
<1> HIDE DEF t, r
<1>7. \A i \in DOMAIN r : ~Queued(inbox, r[i].do, r[i].connection)
  <2> SUFFICES ASSUME NEW i \in DOMAIN r PROVE ~Queued(inbox, "erase", c)
    BY <1>6
  <2>1. Queued(r, "erase", c)
    BY <1>6 DEF Queued
  <2> QED BY <1>3, <1>6, <2>1 DEF Life
<1>8. /\ inbox' \in Seq(Task) /\ Distinct(inbox')
      /\ \A i \in DOMAIN inbox' :
           \/ i \in DOMAIN inbox /\ inbox'[i] = inbox[i]
           \/ i - Len(inbox) \in DOMAIN r /\ inbox'[i] = r[i - Len(inbox)]
      /\ \A do, d : Queued(inbox', do, d) <=> Queued(inbox, do, d) \/ Queued(r, do, d)
  BY <1>1, <1>2, <1>6, <1>7, QueueConcat
<1>9. /\ sessions' \in [Connection -> ServerSession] /\ sessions'[c] = t
      /\ \A d \in Connection \ {c} : sessions'[d] = sessions[d]
  BY <1>1, <1>2, <1>5
<1>10. TypeOK'
  BY <1>1, <1>2, <1>8, <1>9 DEF TypeOK
<1>11. LivesInv'
  <2>1. /\ ~Queued(inbox', "report", c)
        /\ Queued(inbox', "erase", c) <=>
             Queued(inbox, "erase", c) \/ (~s.close_notified /\ ~s.closed)
    BY <1>4, <1>6, <1>8
  <2> HIDE DEF s
  <2>2. Life(t, Queued(inbox', "report", c), Queued(inbox', "erase", c),
             reports[c], c \in server.active_sessions)
    BY <1>3, <1>4, <1>5, <2>1 DEF Life
  <2>3. \A d \in Connection \ {c} : \A do :
          Queued(inbox', do, d) <=> Queued(inbox, do, d)
    BY <1>6, <1>8
  <2> QED BY <1>1, <1>2, <1>9, <2>2, <2>3, LivesStep
<1>12. ReportsInv'
  <2> SUFFICES ASSUME NEW i \in DOMAIN inbox', inbox'[i].do = "report"
               PROVE  inbox'[i].succeeded = sessions'[inbox'[i].connection].up
    BY DEF ReportsInv
  <2>1. i \in DOMAIN inbox /\ inbox'[i] = inbox[i]
    BY <1>6, <1>8
  <2>2. inbox[i].connection \in Connection
    BY <2>1, StateTypes
  <2>3. inbox[i].succeeded = sessions[inbox[i].connection].up
    BY <2>1 DEF IInv, ReportsInv
  <2> QED BY <1>5, <1>9, <2>1, <2>2, <2>3
<1>13. AcceptedInv'
  BY <1>2, <1>4, <1>9, AcceptedStep
<1>14. LoopInv'
  BY <1>2, LoopFrame
<1> QED BY <1>8, <1>10, <1>11, <1>12, <1>13, <1>14 DEF IInv

(* A user in the callback closes a session, which leaves the set at once.  *)
LEMMA CloseInCallbackStep ==
  ASSUME IInv, NEW c \in Connection, CloseInCallback(c)
  PROVE  IInv'
<1> DEFINE s == sessions[c]
           t == close(s)
<1>1. /\ s \in ServerSession /\ server \in Server
      /\ sessions \in [Connection -> ServerSession]
      /\ TypeOK /\ LivesInv
  BY DEF IInv, TypeOK
<1>2. /\ s.known
      /\ sessions' = [sessions EXCEPT ![c] = t]
      /\ server' = IF NotifiesClose(s, t) THEN erase(server, c) ELSE server
      /\ UNCHANGED <<callback, inbox, reports, starts>>
  BY DEF CloseInCallback
<1>3. Life(s, Queued(inbox, "report", c), Queued(inbox, "erase", c),
           reports[c], c \in server.active_sessions)
  BY LifeOf
<1>4. s.up /\ ~Queued(inbox, "report", c) /\ s.handshake = "over"
  BY <1>2, <1>3 DEF Life
<1>5. /\ t \in ServerSession /\ t.handshake = s.handshake /\ t.up = s.up
      /\ t.known = s.known /\ t.closed /\ t.close_queued = s.close_queued
      /\ t.close_notified <=> s.close_notified \/ ~s.closed
      /\ NotifiesClose(s, t) <=> ~s.close_notified /\ ~s.closed
  BY <1>1, CloseFacts
<1> HIDE DEF t
<1>6. /\ server' \in Server
      /\ server'.started = server.started
      /\ server'.acceptor_open = server.acceptor_open
      /\ server'.accepts = server.accepts
      /\ server'.active_sessions = IF ~s.close_notified /\ ~s.closed
           THEN server.active_sessions \ {c} ELSE server.active_sessions
  BY <1>1, <1>2, <1>5 DEF erase, Server
<1>7. /\ sessions' \in [Connection -> ServerSession] /\ sessions'[c] = t
      /\ \A d \in Connection \ {c} : sessions'[d] = sessions[d]
  BY <1>1, <1>2, <1>5
<1>8. TypeOK'
  BY <1>1, <1>2, <1>6, <1>7 DEF TypeOK
<1>9. LivesInv'
  <2>1. \A d : \A do : Queued(inbox', do, d) <=> Queued(inbox, do, d)
    BY <1>2 DEF Queued
  <2>2. c \in server'.active_sessions <=>
          c \in server.active_sessions /\ ~(~s.close_notified /\ ~s.closed)
    BY <1>6
  <2> HIDE DEF s
  <2>3. Life(t, Queued(inbox, "report", c), Queued(inbox, "erase", c),
             reports[c], c \in server'.active_sessions)
    BY <1>3, <1>4, <1>5, <2>2 DEF Life
  <2>4. \A d \in Connection \ {c} :
          d \in server'.active_sessions <=> d \in server.active_sessions
    BY <1>6
  <2> QED BY <1>1, <1>2, <1>7, <2>1, <2>3, <2>4, LivesStep
<1>10. Distinct(inbox)' /\ ReportsInv'
  <2>1. \A d \in Connection : sessions'[d].up = sessions[d].up
    BY <1>5, <1>7
  <2> QED BY <1>2, <2>1, ReportsFrame
<1>11. AcceptedInv'
  BY <1>4, <1>6, <1>7, AcceptedStep
<1>12. LoopInv'
  BY <1>2, <1>6, LoopFrame
<1> QED BY <1>8, <1>9, <1>10, <1>11, <1>12 DEF IInv

(* A user in the callback queues the closing of a session.                 *)
LEMMA CloseLaterStep ==
  ASSUME IInv, NEW c \in Connection, CloseLater(c)
  PROVE  IInv'
<1> DEFINE s == sessions[c]
           t == [s EXCEPT !.close_queued = TRUE]
<1>1. /\ s \in ServerSession /\ sessions \in [Connection -> ServerSession]
      /\ TypeOK /\ LivesInv
  BY DEF IInv, TypeOK
<1>2. /\ s.known
      /\ sessions' = [sessions EXCEPT ![c] = t]
      /\ UNCHANGED <<server, callback, inbox, reports, starts>>
  BY DEF CloseLater
<1>3. Life(s, Queued(inbox, "report", c), Queued(inbox, "erase", c),
           reports[c], c \in server.active_sessions)
  BY LifeOf
<1>4. s.up /\ ~Queued(inbox, "report", c) /\ s.handshake = "over"
  BY <1>2, <1>3 DEF Life
<1>5. /\ t \in ServerSession /\ t.handshake = s.handshake /\ t.up = s.up
      /\ t.known = s.known /\ t.closed = s.closed /\ t.close_queued
      /\ t.close_notified = s.close_notified
  BY <1>1 DEF ServerSession
<1> HIDE DEF t
<1>6. /\ sessions' \in [Connection -> ServerSession] /\ sessions'[c] = t
      /\ \A d \in Connection \ {c} : sessions'[d] = sessions[d]
  BY <1>1, <1>2, <1>5
<1>7. TypeOK'
  BY <1>1, <1>2, <1>6 DEF TypeOK
<1>8. LivesInv'
  <2>1. \A d : \A do : Queued(inbox', do, d) <=> Queued(inbox, do, d)
    BY <1>2 DEF Queued
  <2> HIDE DEF s
  <2>2. Life(t, Queued(inbox, "report", c), Queued(inbox, "erase", c),
             reports[c], c \in server.active_sessions)
    BY <1>3, <1>4, <1>5 DEF Life
  <2> QED BY <1>1, <1>2, <1>6, <2>1, <2>2, LivesStep
<1>9. Distinct(inbox)' /\ ReportsInv'
  <2>1. \A d \in Connection : sessions'[d].up = sessions[d].up
    BY <1>5, <1>6
  <2> QED BY <1>2, <2>1, ReportsFrame
<1>10. AcceptedInv'
  BY <1>2, <1>4, <1>6, AcceptedStep
<1>11. LoopInv'
  BY <1>2, LoopFrame
<1> QED BY <1>7, <1>8, <1>9, <1>10, <1>11 DEF IInv
-----------------------------------------------------------------------------
(* The acceptor and the peers. *)

(* A completed accept in place of the first one, with a connection nobody  *)
(* has or with none, keeps the accepts in order.                           *)
LEMMA CompleteAccept ==
  ASSUME IInv, IsPending(server.accepts), NEW op \in AcceptOp,
         op.status # "aborted",
         \A c \in op.connections :
           /\ sessions[c].handshake = "none"
           /\ \A i \in DOMAIN server.accepts : i # 1 =>
                c \notin server.accepts[i].connections,
         server' = [server EXCEPT !.accepts = << op >> \o Tail(@)],
         UNCHANGED <<callback, inbox, sessions, reports, starts>>
  PROVE  IInv'
<1> DEFINE ops == server.accepts
           new == << op >> \o Tail(ops)
<1>1. /\ TypeOK /\ LivesInv /\ LoopInv /\ Accepted(ops, sessions)
      /\ server \in Server /\ ops \in Seq(AcceptOp) /\ ops # << >>
  BY ServerFields DEF IInv, TypeOK, AcceptedInv, IsPending
<1>2. /\ Tail(ops) \in Seq(AcceptOp) /\ Len(Tail(ops)) = Len(ops) - 1
      /\ \A i \in 1 .. Len(Tail(ops)) : Tail(ops)[i] = ops[i + 1]
      /\ << op >> \in Seq(AcceptOp) /\ Len(<< op >>) = 1 /\ << op >>[1] = op
      /\ Len(ops) \in Nat /\ Len(ops) # 0 /\ DOMAIN ops = 1 .. Len(ops)
  BY <1>1, HeadTailProperties, EmptySeq, LenProperties
<1>3. /\ new \in Seq(AcceptOp) /\ Len(new) = 1 + (Len(ops) - 1)
      /\ \A i \in 1 .. Len(new) : new[i] = IF i \in 1 .. 1 THEN << op >>[i]
                                            ELSE Tail(ops)[i - 1]
  BY <1>2, ConcatProperties
<1> HIDE DEF new
<1>4. Len(new) = Len(ops) /\ DOMAIN new = DOMAIN ops
  BY <1>2, <1>3, LenProperties
<1>5. \A i \in DOMAIN ops : new[i] = IF i = 1 THEN op ELSE ops[i]
  <2> TAKE i \in DOMAIN ops
  <2>1. CASE i = 1
    BY <1>2, <1>3, <1>4, <2>1
  <2>2. CASE i # 1
    <3>1. i \notin 1 .. 1 /\ i - 1 \in 1 .. Len(Tail(ops)) /\ (i - 1) + 1 = i
      BY <1>2, <2>2
    <3> QED BY <1>2, <1>3, <1>4, <2>2, <3>1
  <2> QED BY <2>1, <2>2
<1>6. /\ server' \in Server
      /\ server'.started = server.started
      /\ server'.acceptor_open = server.acceptor_open
      /\ server'.active_sessions = server.active_sessions
      /\ server'.accepts = new
  BY <1>1, <1>3 DEF new, Server
<1>7. TypeOK'
  BY <1>1, <1>6 DEF TypeOK
<1>8. LivesInv'
  BY <1>1, <1>6, LivesFrame
<1>9. Distinct(inbox)' /\ ReportsInv'
  BY DEF IInv, Distinct, ReportsInv
<1>10. AcceptedInv'
  <2>1. \A i \in DOMAIN new : \A c \in new[i].connections :
          sessions[c].handshake = "none"
    BY <1>1, <1>4, <1>5 DEF Accepted
  <2>2. ASSUME NEW i \in DOMAIN new, NEW j \in DOMAIN new,
               new[i].connections \cap new[j].connections # {}
        PROVE  i = j
    <3>1. CASE i = 1 /\ j # 1
      BY <1>4, <1>5, <2>2, <3>1
    <3>2. CASE j = 1 /\ i # 1
      BY <1>4, <1>5, <2>2, <3>2
    <3>3. CASE i # 1 /\ j # 1
      BY <1>1, <1>4, <1>5, <2>2, <3>3 DEF Accepted
    <3> QED BY <3>1, <3>2, <3>3
  <2>3. Accepted(new, sessions)
    BY <2>1, <2>2 DEF Accepted
  <2> QED BY <1>6, <2>3 DEF AcceptedInv, Accepted
<1>11. LoopInv'
  <2>1. NoneAborted(server)'
    BY <1>1, <1>4, <1>5, <1>6 DEF LoopInv, NoneAborted
  <2>2. NotYetStarted'
    BY <1>1, <1>6 DEF LoopInv, NotYetStarted
  <2>3. ListensOnce'
    BY <1>1, <1>4, <1>6 DEF LoopInv, ListensOnce
  <2> QED BY <2>1, <2>2, <2>3 DEF LoopInv
<1> QED BY <1>7, <1>8, <1>9, <1>10, <1>11 DEF IInv

(* A peer connects: the pending accept has its connection.                 *)
LEMMA ConnectStep ==
  ASSUME IInv, NEW c \in Connection, Connect(c)
  PROVE  IInv'
<1> DEFINE op == [status |-> "done", connections |-> {c}]
<1>1. op \in AcceptOp /\ op.status # "aborted" /\ op.connections = {c}
  BY DEF AcceptOp, Status
<1>2. /\ IsPending(server.accepts)
      /\ sessions[c].handshake = "none"
      /\ \A i \in DOMAIN server.accepts : c \notin server.accepts[i].connections
      /\ server' = [server EXCEPT !.accepts = << op >> \o Tail(@)]
      /\ UNCHANGED <<callback, inbox, sessions, reports, starts>>
  BY DEF Connect, NewSession
<1> HIDE DEF op
<1> QED BY <1>1, <1>2, CompleteAccept

(* The pending accept fails, and has no connection as before.              *)
LEMMA AcceptFailsStep == IInv /\ AcceptFails => IInv'
<1> SUFFICES ASSUME IInv, AcceptFails PROVE IInv'
  OBVIOUS
<1> DEFINE ops == server.accepts
           op  == [Head(ops) EXCEPT !.status = "failed"]
<1>1. /\ IsPending(ops)
      /\ server' = [server EXCEPT !.accepts = << op >> \o Tail(@)]
      /\ UNCHANGED <<callback, inbox, sessions, reports, starts>>
  BY DEF AcceptFails
<1>2. /\ ops \in Seq(AcceptOp) /\ ops # << >> /\ Accepted(ops, sessions)
  BY <1>1, ServerFields DEF IInv, TypeOK, AcceptedInv, IsPending
<1>3. /\ Head(ops) \in AcceptOp /\ Head(ops) = ops[1] /\ 1 \in DOMAIN ops
  BY <1>2, EmptySeq, LenProperties, HeadTailProperties
<1>4. /\ op \in AcceptOp /\ op.status = "failed"
      /\ op.connections = ops[1].connections
  BY <1>3 DEF AcceptOp, Status
<1> HIDE DEF op
<1>5. \A c \in op.connections :
        /\ sessions[c].handshake = "none"
        /\ \A i \in DOMAIN ops : i # 1 => c \notin ops[i].connections
  BY <1>2, <1>3, <1>4 DEF Accepted
<1> QED BY <1>1, <1>4, <1>5, CompleteAccept

(* A handshake comes to its end, of which the session is told next.        *)
LEMMA HandshakeEndsStep ==
  ASSUME IInv, NEW c \in Connection, HandshakeEnds(c)
  PROVE  IInv'
<1>1. /\ sessions[c] \in ServerSession
      /\ sessions \in [Connection -> ServerSession]
      /\ TypeOK /\ LivesInv
  BY DEF IInv, TypeOK
<1>2. PICK result \in {"done", "failed"} :
        sessions' = [sessions EXCEPT ![c].handshake = result]
  BY DEF HandshakeEnds
<1>3. /\ sessions[c].handshake = "pending"
      /\ UNCHANGED <<server, callback, inbox, reports, starts>>
  BY DEF HandshakeEnds
<1> DEFINE s == sessions[c]
           t == [s EXCEPT !.handshake = result]
<1>4. sessions' = [sessions EXCEPT ![c] = t]
  BY <1>2
<1>5. /\ t \in ServerSession /\ t.handshake = result /\ t.up = s.up
      /\ t.known = s.known /\ t.closed = s.closed
      /\ t.close_queued = s.close_queued /\ t.close_notified = s.close_notified
  BY <1>1 DEF ServerSession
<1> HIDE DEF t
<1>6. /\ sessions' \in [Connection -> ServerSession] /\ sessions'[c] = t
      /\ \A d \in Connection \ {c} : sessions'[d] = sessions[d]
  BY <1>1, <1>4, <1>5
<1>7. TypeOK'
  BY <1>1, <1>3, <1>6 DEF TypeOK
<1>8. LivesInv'
  <2>1. \A d : \A do : Queued(inbox', do, d) <=> Queued(inbox, do, d)
    BY <1>3 DEF Queued
  <2>2. Life(s, Queued(inbox, "report", c), Queued(inbox, "erase", c),
             reports[c], c \in server.active_sessions)
    BY LifeOf
  <2> HIDE DEF s
  <2>3. s.handshake = "pending"
    BY <1>3 DEF s
  <2>4. Life(t, Queued(inbox, "report", c), Queued(inbox, "erase", c),
             reports[c], c \in server.active_sessions)
    BY <1>5, <2>2, <2>3 DEF Life
  <2> QED BY <1>1, <1>3, <1>6, <2>1, <2>4, LivesStep
<1>9. Distinct(inbox)' /\ ReportsInv'
  <2>1. \A d \in Connection : sessions'[d].up = sessions[d].up
    BY <1>5, <1>6
  <2> QED BY <1>3, <2>1, ReportsFrame
<1>10. AcceptedInv'
  BY <1>3, <1>6, AcceptedStep
<1>11. LoopInv'
  BY <1>3, LoopFrame
<1> QED BY <1>7, <1>8, <1>9, <1>10, <1>11 DEF IInv
-----------------------------------------------------------------------------
(* The theorems. *)

(* Every step keeps the invariant.                                         *)
LEMMA NextInv == IInv /\ [Next]_vars => IInv'
<1> SUFFICES ASSUME IInv, [Next]_vars PROVE IInv'
  OBVIOUS
<1>1. CASE User
  <2>1. ASSUME NEW set \in BOOLEAN, SetSessionHandler(set) PROVE IInv'
    BY <2>1, SetSessionHandlerStep
  <2>2. ASSUME NEW c \in Connection, CloseInCallback(c) PROVE IInv'
    BY <2>2, CloseInCallbackStep
  <2>3. ASSUME NEW c \in Connection, CloseLater(c) PROVE IInv'
    BY <2>3, CloseLaterStep
  <2> QED BY <1>1, <2>1, <2>2, <2>3, StartStep, StopStep DEF User
<1>2. CASE ServerStrand
  BY <1>2, OnAcceptStoppedStep, OnAcceptErrorStep, OnAcceptStep, RunEraseStep,
     RunReportStep, CallbackReturnsStep DEF ServerStrand
<1>3. CASE SessionStrand
  <2>1. ASSUME NEW c \in Connection, OnHandshake(c) PROVE IInv'
    BY <2>1, OnHandshakeStep
  <2>2. ASSUME NEW c \in Connection, SessionCloses(c) PROVE IInv'
    BY <2>2, SessionClosesStep
  <2> QED BY <1>3, <2>1, <2>2 DEF SessionStrand
<1>4. CASE Network
  <2>1. ASSUME NEW c \in Connection, Connect(c) PROVE IInv'
    BY <2>1, ConnectStep
  <2>2. ASSUME NEW c \in Connection, HandshakeEnds(c) PROVE IInv'
    BY <2>2, HandshakeEndsStep
  <2> QED BY <1>4, <2>1, <2>2, AcceptFailsStep DEF Network
<1>5. CASE UNCHANGED vars
  BY <1>5, Stutter
<1> QED BY <1>1, <1>2, <1>3, <1>4, <1>5 DEF Next

(* So the invariant holds of every state the server reaches.               *)
LEMMA SpecInv == Spec => []IInv
BY InitInv, NextInv, PTL DEF Spec

(* The server, its sessions and what is queued between them have the types *)
(* the model gives them.                                                   *)
THEOREM TypeCorrect == Spec => []TypeOK
<1>1. IInv => TypeOK
  BY DEF IInv
<1> QED BY <1>1, SpecInv, PTL

(* Every session is reported to the server exactly once, when its          *)
(* handshake is over, and a refused one as well as an established one:     *)
(* whatever the strands interleave, whoever closes or stops meanwhile.     *)
THEOREM ReportedExactlyOnce == Spec => []ReportedOnce
<1>1. IInv => ReportedOnce
  <2> SUFFICES ASSUME IInv, NEW c \in Connection
               PROVE  reports[c] + (IF IsQueued("report", c) THEN 1 ELSE 0)
                        = IF sessions[c].handshake = "over" THEN 1 ELSE 0
    BY DEF ReportedOnce
  <2>1. Life(sessions[c], Queued(inbox, "report", c), Queued(inbox, "erase", c),
             reports[c], c \in server.active_sessions)
    BY LifeOf
  <2>2. IsQueued("report", c) <=> Queued(inbox, "report", c)
    BY QueuedInbox
  <2>3. CASE sessions[c].handshake = "over"
    BY <2>1, <2>2, <2>3 DEF Life
  <2>4. CASE sessions[c].handshake # "over"
    BY <2>1, <2>2, <2>4 DEF Life
  <2> QED BY <2>3, <2>4
<1> QED BY <1>1, SpecInv, PTL

(* active_sessions_ holds exactly the sessions that are up and reported,   *)
(* up to the erasures that are still queued on the server's strand.        *)
THEOREM ActiveSetCurrent == Spec => []ActiveIsCurrent
<1>1. IInv => ActiveIsCurrent
  <2> SUFFICES ASSUME IInv, NEW c \in Connection
               PROVE  c \in server.active_sessions <=>
                        /\ sessions[c].up /\ ~IsQueued("report", c)
                        /\ sessions[c].close_notified => IsQueued("erase", c)
    BY DEF ActiveIsCurrent
  <2>1. Life(sessions[c], Queued(inbox, "report", c), Queued(inbox, "erase", c),
             reports[c], c \in server.active_sessions)
    BY LifeOf
  <2> QED BY <2>1, QueuedInbox DEF Life
<1> QED BY <1>1, SpecInv, PTL
-----------------------------------------------------------------------------
(* After stop(). *)

NonePending(v) ==
  ~v.acceptor_open => \A i \in DOMAIN v.accepts : v.accepts[i].status # "pending"

(* Every loop was made by a start, and none waits on a closed acceptor. *)
StopInv ==
  /\ Len(server.accepts) <= starts
  /\ callback = "do_accept" => Len(server.accepts) + 1 <= starts
  /\ NonePending(server)

(* On a closed acceptor do_accept() adds an accept that has failed. *)
LEMMA DoAcceptStopped ==
  ASSUME NEW v \in Server, NonePending(v)
  PROVE  /\ NonePending(do_accept(v))
         /\ Len(do_accept(v).accepts) = Len(v.accepts) + 1
<1> DEFINE op == [status |-> IF v.acceptor_open THEN "pending" ELSE "failed",
                  connections |-> {}]
           w  == do_accept(v)
<1>1. op \in AcceptOp /\ (~v.acceptor_open => op.status # "pending")
  BY DEF AcceptOp, Status
<1>2. w = [v EXCEPT !.accepts = Append(@, op)]
  BY DEF do_accept
<1> HIDE DEF op, w
<1>3. w.accepts = Append(v.accepts, op) /\ w.acceptor_open = v.acceptor_open
  BY <1>2 DEF Server
<1>4. /\ v.accepts \in Seq(AcceptOp)
      /\ Append(v.accepts, op) \in Seq(AcceptOp)
      /\ Len(Append(v.accepts, op)) = Len(v.accepts) + 1
      /\ \A i \in 1 .. Len(v.accepts) : Append(v.accepts, op)[i] = v.accepts[i]
      /\ Append(v.accepts, op)[Len(v.accepts) + 1] = op
  BY <1>1, ServerFields, AppendProperties
<1>5. /\ Len(v.accepts) \in Nat /\ DOMAIN v.accepts = 1 .. Len(v.accepts)
      /\ DOMAIN Append(v.accepts, op) = 1 .. (Len(v.accepts) + 1)
  BY <1>4, LenProperties
<1>6. \A i \in DOMAIN Append(v.accepts, op) :
        \/ i \in DOMAIN v.accepts /\ Append(v.accepts, op)[i] = v.accepts[i]
        \/ Append(v.accepts, op)[i] = op
  BY <1>4, <1>5
<1>7. NonePending(w)
  BY <1>1, <1>3, <1>6 DEF NonePending
<1> QED BY <1>3, <1>4, <1>7 DEF w

(* Taking a completed accept leaves the others. *)
LEMMA PopStopped ==
  ASSUME IInv, StopInv, IsComplete(server.accepts)
  PROVE  /\ Popped \in Server /\ NonePending(Popped)
         /\ Len(Popped.accepts) \in Nat
         /\ Len(Popped.accepts) = Len(server.accepts) - 1
<1>1. /\ server \in Server /\ server.accepts \in Seq(AcceptOp)
      /\ server.accepts # << >> /\ Accepted(server.accepts, sessions)
  BY ServerFields DEF IInv, TypeOK, AcceptedInv, IsComplete
<1>2. /\ Popped \in Server
      /\ Popped.acceptor_open = server.acceptor_open
      /\ Popped.accepts = Tail(server.accepts)
      /\ Len(Popped.accepts) = Len(server.accepts) - 1
  BY <1>1, PopAccept DEF Popped, Server
<1>3. \A i \in DOMAIN Tail(server.accepts) :
        \E j \in DOMAIN server.accepts : Tail(server.accepts)[i] = server.accepts[j]
  BY <1>1, AcceptedTail
<1>4. NonePending(Popped)
  BY <1>2, <1>3 DEF StopInv, NonePending
<1>5. Len(Popped.accepts) \in Nat
  BY <1>2, ServerFields, LenProperties
<1> QED BY <1>2, <1>4, <1>5

(* Calling the session handler adds the accept that is left to do, now or  *)
(* when it returns.                                                        *)
LEMMA CallStopped ==
  ASSUME NEW v \in Server, NonePending(v), NEW rest \in {"return", "do_accept"},
         CallSessionHandler(v, rest)
  PROVE  /\ NonePending(server')
         /\ \/ /\ rest = "return" /\ callback' # "do_accept"
               /\ Len(server'.accepts) = Len(v.accepts)
            \/ /\ rest = "do_accept" /\ callback' # "do_accept"
               /\ Len(server'.accepts) = Len(v.accepts) + 1
            \/ /\ rest = "do_accept" /\ callback' = "do_accept"
               /\ Len(server'.accepts) = Len(v.accepts)
<1>1. Len(v.accepts) \in Nat
  BY ServerFields, LenProperties
<1>2. CASE ~v.session_handler /\ rest = "do_accept"
  <2>1. server' = do_accept(v) /\ callback' = "none"
    BY <1>2 DEF CallSessionHandler
  <2> QED BY <1>1, <1>2, <2>1, DoAcceptStopped
<1>3. CASE v.session_handler \/ rest # "do_accept"
  <2>1. server' = v /\ callback' = IF v.session_handler THEN rest ELSE "none"
    BY <1>3 DEF CallSessionHandler
  <2>2. callback' = "do_accept" <=> rest = "do_accept"
    BY <1>3, <2>1
  <2> QED BY <1>1, <2>1, <2>2
<1> QED BY <1>2, <1>3

(* The steps that have nothing to do with accepting. *)
LEMMA StopFrame ==
  ASSUME StopInv, server'.accepts = server.accepts,
         server'.acceptor_open = server.acceptor_open,
         callback' = callback, starts' = starts
  PROVE  StopInv'
BY DEF StopInv, NonePending

(* A start makes one loop, stop() none. *)
LEMMA UserStops ==
  ASSUME IInv, StopInv, User
  PROVE  StopInv'
<1>1. /\ server \in Server /\ server.accepts \in Seq(AcceptOp)
      /\ Len(server.accepts) \in Nat /\ starts \in Nat
  BY ServerFields, LenProperties, WebSocketServerAssumption DEF IInv, TypeOK
<1>2. CASE \E set \in BOOLEAN : SetSessionHandler(set)
  BY <1>1, <1>2, StopFrame DEF SetSessionHandler, Server
<1>3. CASE Start
  <2>1. CASE server.started
    BY <1>3, <2>1, StopFrame DEF Start, start
  <2>2. CASE ~server.started
    <3> DEFINE v == [server EXCEPT !.started = TRUE]
    <3>1. /\ server' = do_accept(v) /\ starts' = starts + 1
          /\ callback' = callback
      BY <1>3, <2>2 DEF Start, start
    <3>2. /\ v \in Server /\ v.accepts = server.accepts
          /\ v.acceptor_open = server.acceptor_open
      BY <1>1 DEF Server
    <3> HIDE DEF v
    <3>3. NonePending(v)
      BY <3>2 DEF StopInv, NonePending
    <3>4. /\ NonePending(do_accept(v))
          /\ Len(do_accept(v).accepts) = Len(server.accepts) + 1
      BY <3>2, <3>3, DoAcceptStopped
    <3>5. NonePending(server') /\ Len(server'.accepts) = Len(server.accepts) + 1
      BY <3>1, <3>4
    <3>6. /\ Len(server'.accepts) <= starts'
          /\ callback' = "do_accept" => Len(server'.accepts) + 1 <= starts'
      BY <1>1, <3>1, <3>5 DEF StopInv
    <3> QED BY <3>5, <3>6 DEF StopInv, NonePending
  <2> QED BY <2>1, <2>2
<1>4. CASE Stop
  <2>1. /\ server'.accepts = Aborted(server.accepts)
        /\ callback' = callback /\ starts' = starts
    BY <1>1, <1>4 DEF Stop, stop_accepting, Server
  <2>2. \A op \in AcceptOp : op.status = "pending" =>
          [op EXCEPT !.status = "aborted"] \in AcceptOp
    BY DEF AcceptOp, Status
  <2>3. /\ Aborted(server.accepts) \in Seq(AcceptOp)
        /\ DOMAIN Aborted(server.accepts) = DOMAIN server.accepts
        /\ \A i \in DOMAIN server.accepts :
             Aborted(server.accepts)[i] = IF server.accepts[i].status = "pending"
               THEN [server.accepts[i] EXCEPT !.status = "aborted"]
               ELSE server.accepts[i]
    BY <1>1, <2>2, AbortedOps
  <2>4. \A i \in DOMAIN server.accepts : server.accepts[i] \in AcceptOp
    BY <1>1
  <2>5. \A i \in DOMAIN server.accepts :
          Aborted(server.accepts)[i].status # "pending"
    BY <2>3, <2>4 DEF AcceptOp
  <2>6. Len(Aborted(server.accepts)) = Len(server.accepts)
    BY <1>1, <2>3, LenProperties
  <2> QED BY <2>1, <2>3, <2>5, <2>6 DEF StopInv, NonePending
<1>5. CASE \E c \in Connection : CloseInCallback(c)
  BY <1>1, <1>5, StopFrame DEF CloseInCallback, erase, Server
<1>6. CASE \E c \in Connection : CloseLater(c)
  BY <1>6, StopFrame DEF CloseLater
<1> QED BY <1>2, <1>3, <1>4, <1>5, <1>6 DEF User

(* An accept handler that goes on goes on with one accept for the one it   *)
(* has taken.                                                              *)
LEMMA ServerStrandStops ==
  ASSUME IInv, StopInv, ServerStrand
  PROVE  StopInv'
<1>1. /\ server \in Server /\ Len(server.accepts) \in Nat /\ starts \in Nat
      /\ starts' = starts
  <2>1. /\ server \in Server /\ Len(server.accepts) \in Nat /\ starts \in Nat
    BY ServerFields, LenProperties, WebSocketServerAssumption DEF IInv, TypeOK
  <2> QED BY <2>1 DEF ServerStrand, OnAcceptStopped, OnAcceptError, OnAccept,
                      RunErase, RunReport, CallbackReturns
<1>2. CASE OnAcceptStopped
  <2>1. /\ IsComplete(server.accepts) /\ server' = Popped
        /\ callback' = callback
    BY <1>2 DEF OnAcceptStopped
  <2>2. /\ NonePending(server') /\ Len(server'.accepts) = Len(server.accepts) - 1
    BY <2>1, PopStopped
  <2> QED BY <1>1, <2>1, <2>2 DEF StopInv, NonePending
<1>3. ASSUME IsComplete(server.accepts), callback = "none",
             NEW v \in Server, v.accepts = Popped.accepts,
             v.acceptor_open = Popped.acceptor_open,
             NEW rest \in {"return", "do_accept"}, CallSessionHandler(v, rest)
      PROVE  StopInv'
  <2>1. /\ NonePending(v) /\ Len(v.accepts) = Len(server.accepts) - 1
        /\ Len(v.accepts) \in Nat
    BY <1>3, PopStopped DEF NonePending
  <2>2. /\ NonePending(server')
        /\ \/ /\ callback' # "do_accept"
              /\ Len(server'.accepts) <= Len(v.accepts) + 1
           \/ Len(server'.accepts) = Len(v.accepts)
    BY <1>3, <2>1, CallStopped
  <2>3. Len(server.accepts) <= starts
    BY <1>1, <1>3 DEF StopInv
  <2>4. /\ Len(server'.accepts) <= starts'
        /\ callback' = "do_accept" => Len(server'.accepts) + 1 <= starts'
    BY <1>1, <2>1, <2>2, <2>3
  <2> QED BY <2>2, <2>4 DEF StopInv, NonePending
<1>4. CASE OnAcceptError
  <2> DEFINE rest == IF Head(server.accepts).status = "aborted"
                       THEN "return" ELSE "do_accept"
  <2>1. /\ IsComplete(server.accepts) /\ callback = "none"
        /\ CallSessionHandler(Popped, rest)
    BY <1>4 DEF OnAcceptError, StrandIdle
  <2>2. rest \in {"return", "do_accept"} /\ Popped \in Server
    BY <2>1, PopStopped
  <2> HIDE DEF rest
  <2> QED BY <1>3, <2>1, <2>2
<1>5. CASE OnAccept
  <2>1. IsComplete(server.accepts) /\ callback = "none"
    BY <1>5 DEF OnAccept, StrandIdle
  <2>2. PICK c \in Head(server.accepts).connections :
          \/ server' = do_accept(Popped) /\ callback' = callback
          \/ CallSessionHandler(erase(Popped, c), "do_accept")
    BY <1>5 DEF OnAccept
  <2>3. /\ Popped \in Server /\ NonePending(Popped)
        /\ Len(Popped.accepts) \in Nat
        /\ Len(Popped.accepts) = Len(server.accepts) - 1
    BY <2>1, PopStopped
  <2>4. CASE server' = do_accept(Popped) /\ callback' = callback
    <3>1. /\ NonePending(server')
          /\ Len(server'.accepts) = Len(server.accepts) - 1 + 1
      BY <2>3, <2>4, DoAcceptStopped
    <3> QED BY <1>1, <2>4, <3>1 DEF StopInv, NonePending
  <2>5. CASE CallSessionHandler(erase(Popped, c), "do_accept")
    <3> DEFINE v == erase(Popped, c)
    <3>1. /\ v \in Server /\ v.accepts = Popped.accepts
          /\ v.acceptor_open = Popped.acceptor_open
      BY <2>3 DEF erase, Server
    <3>2. CallSessionHandler(v, "do_accept")
      BY <2>5
    <3> HIDE DEF v
    <3> QED BY <1>3, <2>1, <3>1, <3>2
  <2> QED BY <2>2, <2>4, <2>5
<1>6. CASE RunErase
  BY <1>1, <1>6, StopFrame DEF RunErase, erase, Server
<1>7. CASE RunReport
  <2> DEFINE v == IF Head(inbox).succeeded
                  THEN insert(server, Head(inbox).connection) ELSE server
  <2>1. callback = "none" /\ CallSessionHandler(v, "return")
    BY <1>7 DEF RunReport, StrandIdle
  <2>2. Head(inbox).connection \in Connection
    <3>1. inbox \in Seq(Task) /\ inbox # << >>
      BY <1>7 DEF IInv, TypeOK, RunReport
    <3>2. Head(inbox) \in Task
      BY <3>1, HeadTailProperties
    <3> QED BY <3>2 DEF Task
  <2>3. /\ v \in Server /\ v.accepts = server.accepts
        /\ v.acceptor_open = server.acceptor_open
    BY <1>1, <2>2 DEF insert, Server
  <2> HIDE DEF v
  <2>4. NonePending(v) /\ Len(v.accepts) <= starts
    BY <1>1, <2>1, <2>3 DEF StopInv, NonePending
  <2>5. /\ NonePending(server')
        /\ callback' # "do_accept" /\ Len(server'.accepts) = Len(v.accepts)
    BY <2>1, <2>3, <2>4, CallStopped
  <2> QED BY <1>1, <2>4, <2>5 DEF StopInv, NonePending
<1>8. CASE CallbackReturns
  <2>1. /\ callback' = "none"
        /\ server' = IF callback = "do_accept" THEN do_accept(server) ELSE server
    BY <1>8 DEF CallbackReturns
  <2>2. CASE callback = "do_accept"
    <3>1. /\ NonePending(server')
          /\ Len(server'.accepts) = Len(server.accepts) + 1
      BY <1>1, <2>1, <2>2, DoAcceptStopped DEF StopInv
    <3> QED BY <1>1, <2>1, <2>2, <3>1 DEF StopInv, NonePending
  <2>3. CASE callback # "do_accept"
    BY <1>1, <2>1, <2>3 DEF StopInv, NonePending
  <2> QED BY <2>2, <2>3
<1> QED BY <1>2, <1>4, <1>5, <1>6, <1>7, <1>8 DEF ServerStrand

(* Only an accept that is pending completes, which none is after stop(). *)
LEMMA NetworkStops ==
  ASSUME IInv, StopInv, Network
  PROVE  StopInv'
<1>1. /\ server \in Server /\ server.accepts \in Seq(AcceptOp)
      /\ Len(server.accepts) \in Nat
  BY ServerFields, LenProperties DEF IInv, TypeOK
<1>2. ASSUME IsPending(server.accepts), NEW op \in AcceptOp,
             server' = [server EXCEPT !.accepts = << op >> \o Tail(@)],
             callback' = callback, starts' = starts
      PROVE  StopInv'
  <2>1. server.acceptor_open
    <3>1. /\ Head(server.accepts) = server.accepts[1]
          /\ 1 \in DOMAIN server.accepts
      BY <1>1, <1>2, EmptySeq, LenProperties, HeadTailProperties DEF IsPending
    <3> QED BY <1>2, <3>1 DEF StopInv, NonePending, IsPending
  <2>2. /\ server'.acceptor_open = server.acceptor_open
        /\ server'.accepts = << op >> \o Tail(server.accepts)
    BY <1>1, <1>2 DEF Server
  <2>3. Len(server'.accepts) = Len(server.accepts)
    <3>1. /\ Tail(server.accepts) \in Seq(AcceptOp)
          /\ Len(Tail(server.accepts)) = Len(server.accepts) - 1
          /\ << op >> \in Seq(AcceptOp) /\ Len(<< op >>) = 1
      BY <1>1, <1>2, HeadTailProperties DEF IsPending
    <3>2. Len(<< op >> \o Tail(server.accepts)) = 1 + (Len(server.accepts) - 1)
      BY <3>1, ConcatProperties
    <3> QED BY <1>1, <2>2, <3>2
  <2> QED BY <1>2, <2>1, <2>2, <2>3 DEF StopInv, NonePending
<1>3. ASSUME NEW c \in Connection, Connect(c)
      PROVE  StopInv'
  <2> DEFINE op == [status |-> "done", connections |-> {c}]
  <2>1. op \in AcceptOp
    BY DEF AcceptOp, Status
  <2>2. /\ IsPending(server.accepts)
        /\ server' = [server EXCEPT !.accepts = << op >> \o Tail(@)]
        /\ callback' = callback /\ starts' = starts
    BY <1>3 DEF Connect
  <2> HIDE DEF op
  <2> QED BY <1>2, <2>1, <2>2
<1>4. ASSUME AcceptFails
      PROVE  StopInv'
  <2> DEFINE op == [Head(server.accepts) EXCEPT !.status = "failed"]
  <2>1. /\ IsPending(server.accepts)
        /\ server' = [server EXCEPT !.accepts = << op >> \o Tail(@)]
        /\ callback' = callback /\ starts' = starts
    BY <1>4 DEF AcceptFails
  <2>2. Head(server.accepts) \in AcceptOp
    BY <1>1, <2>1, HeadTailProperties DEF IsPending
  <2>3. op \in AcceptOp
    BY <2>2 DEF AcceptOp, Status
  <2> HIDE DEF op
  <2> QED BY <1>2, <2>1, <2>3
<1>5. ASSUME NEW c \in Connection, HandshakeEnds(c)
      PROVE  StopInv'
  BY <1>5, StopFrame DEF HandshakeEnds
<1> QED BY <1>3, <1>4, <1>5 DEF Network

(* Every step keeps it. *)
LEMMA StopNext == IInv /\ StopInv /\ [Next]_vars => StopInv'
<1> SUFFICES ASSUME IInv, StopInv, [Next]_vars PROVE StopInv'
  OBVIOUS
<1>1. CASE SessionStrand
  BY <1>1, StopFrame DEF SessionStrand, OnHandshake, SessionCloses
<1>2. CASE UNCHANGED vars
  BY <1>2, StopFrame DEF vars
<1> QED BY <1>1, <1>2, UserStops, ServerStrandStops, NetworkStops DEF Next

(* A started server that listens has one accept outstanding, or about to   *)
(* be started when the user's handler returns, never two and never none.   *)
(* After stop() no accept waits for a connection, however often the server *)
(* is started again, and there are no more loops than there were starts.   *)
THEOREM AcceptLoop == Spec => []OneAcceptLoop
<1>1. Init => StopInv
  <2> SUFFICES ASSUME Init PROVE StopInv
    OBVIOUS
  <2>1. /\ server.accepts = << >> /\ callback = "none" /\ starts = 0
        /\ server.acceptor_open
    BY DEF Init
  <2> QED BY <2>1 DEF StopInv, NonePending
<1>2. IInv /\ StopInv => OneAcceptLoop
  <2> SUFFICES ASSUME IInv, StopInv PROVE OneAcceptLoop
    OBVIOUS
  <2>1. server \in Server /\ Len(server.accepts) \in Nat
    BY ServerFields, LenProperties DEF IInv, TypeOK
  <2>2. CASE callback = "do_accept"
    BY <2>1, <2>2 DEF IInv, LoopInv, ListensOnce, StopInv, NonePending,
                      OneAcceptLoop, AcceptsToCome
  <2>3. CASE callback # "do_accept"
    BY <2>1, <2>3 DEF IInv, LoopInv, ListensOnce, StopInv, NonePending,
                      OneAcceptLoop, AcceptsToCome
  <2> QED BY <2>2, <2>3
<1> QED BY <1>1, <1>2, StopNext, SpecInv, PTL DEF Spec
=============================================================================
