-------------------------- MODULE OperationLemmas ---------------------------
(***************************************************************************)
(* Lemmas about sequences of outstanding operations, and about the queues  *)
(* and histories of messages, that the proofs of several sessions need.    *)
(***************************************************************************)
EXTENDS AsyncOperations, SequenceTheorems, TLAPS

(* Aborting keeps the number and the kind of the outstanding operations. *)
LEMMA AbortedOps ==
  ASSUME NEW Op, NEW ops \in Seq(Op),
         \A op \in Op : op.status = "pending" =>
             [op EXCEPT !.status = "aborted"] \in Op
  PROVE  /\ Aborted(ops) \in Seq(Op)
         /\ Len(Aborted(ops)) = Len(ops)
         /\ DOMAIN Aborted(ops) = DOMAIN ops
         /\ \A i \in DOMAIN ops :
              Aborted(ops)[i] = IF ops[i].status = "pending"
                THEN [ops[i] EXCEPT !.status = "aborted"] ELSE ops[i]
<1>1. DOMAIN ops = 1 .. Len(ops) /\ Len(ops) \in Nat
  OBVIOUS
<1>2. \A i \in 1 .. Len(ops) : ops[i] \in Op
  OBVIOUS
<1>3. Aborted(ops) \in [1 .. Len(ops) -> Op]
  BY <1>1, <1>2 DEF Aborted
<1>4. Aborted(ops) \in Seq(Op)
  BY <1>1, <1>3, SeqDef
<1> QED
  BY <1>1, <1>3, <1>4, LenProperties DEF Aborted

(* Aborting leaves nothing pending. *)
LEMMA AbortedNotPending ==
  ASSUME NEW Op, NEW ops \in Seq(Op),
         \A op \in Op : op.status = "pending" =>
           /\ [op EXCEPT !.status = "aborted"] \in Op
           /\ [op EXCEPT !.status = "aborted"].status = "aborted"
  PROVE  ~IsPending(Aborted(ops))
<1>1. /\ Aborted(ops) \in Seq(Op)
      /\ DOMAIN Aborted(ops) = DOMAIN ops
      /\ \A i \in DOMAIN ops :
           Aborted(ops)[i] = IF ops[i].status = "pending"
             THEN [ops[i] EXCEPT !.status = "aborted"] ELSE ops[i]
  BY AbortedOps
<1>2. \A i \in DOMAIN ops : ops[i] \in Op
  OBVIOUS
<1>3. \A i \in DOMAIN ops : Aborted(ops)[i].status # "pending"
  BY <1>1, <1>2
<1> QED BY <1>1, <1>3, HeadTailProperties, EmptySeq DEF IsPending

(* Appending to the right part of a concatenation. *)
LEMMA ConcatAppend ==
  ASSUME NEW S, NEW a \in Seq(S), NEW b \in Seq(S), NEW e \in S
  PROVE  a \o Append(b, e) = Append(a \o b, e)
<1>1. Append(b, e) = b \o << e >> /\ << e >> \in Seq(S)
  BY AppendIsConcat
<1>2. a \o b \in Seq(S)
  BY ConcatProperties
<1>3. Append(a \o b, e) = (a \o b) \o << e >>
  BY <1>2, AppendIsConcat
<1> QED BY <1>1, <1>3, ConcatAssociative

(* Moving the head of the right part to the end of the left one. *)
LEMMA ConcatHeadTail ==
  ASSUME NEW S, NEW a \in Seq(S), NEW b \in Seq(S), b # << >>
  PROVE  Append(a, Head(b)) \o Tail(b) = a \o b
<1>1. /\ Head(b) \in S /\ Tail(b) \in Seq(S)
      /\ << Head(b) >> \in Seq(S)
  BY HeadTailProperties
<1>2. << Head(b) >> \o Tail(b) = b
  <2>1. /\ << Head(b) >> \o Tail(b) \in Seq(S)
        /\ Len(<< Head(b) >> \o Tail(b)) = Len(b)
        /\ \A i \in 1 .. Len(b) : (<< Head(b) >> \o Tail(b))[i] = b[i]
    BY <1>1, HeadTailProperties, ConcatProperties
  <2> QED BY <2>1, SeqEqual
<1>3. Append(a, Head(b)) = a \o << Head(b) >>
  BY <1>1, AppendIsConcat
<1> QED BY <1>1, <1>2, <1>3, ConcatAssociative

(* One completion leaves nothing of the one operation outstanding. *)
LEMMA TailOfOne ==
  ASSUME NEW S, NEW ops \in Seq(S), Len(ops) = 1
  PROVE  Tail(ops) = << >>
<1>1. ops # << >>
  OBVIOUS
<1>2. Tail(ops) \in Seq(S) /\ Len(Tail(ops)) = Len(ops) - 1
  BY <1>1, HeadTailProperties
<1>3. Len(Tail(ops)) = 0
  BY <1>2
<1> QED BY <1>2, <1>3, EmptySeq

(* Replacing the front one of the operations, which is the only one.       *)
LEMMA ReplacedOne ==
  ASSUME NEW S, NEW ops \in Seq(S), Len(ops) = 1, NEW T, NEW op \in T
  PROVE  << op >> \o Tail(ops) = << op >>
<1>1. Tail(ops) = << >>
  BY TailOfOne
<1>2. << op >> \in Seq(T)
  OBVIOUS
<1> QED BY <1>1, <1>2, ConcatEmptySeq
=============================================================================
