------------------------------ MODULE FifoLink ------------------------------
(***************************************************************************)
(* What a session promises its user about sending, without queues,         *)
(* operations or callbacks: the messages it accepts go out in the order    *)
(* they were accepted, each once and unaltered, until the link is shut;    *)
(* what has not gone out by then never does, and nothing is accepted any   *)
(* more.                                                                   *)
(***************************************************************************)
EXTENDS Naturals, Sequences

CONSTANT Message

VARIABLES
  accepted,   \* every message the link ever took, in order
  sent,       \* what has gone out
  shut        \* no message is taken and none goes out any more

vars == <<accepted, sent, shut>>

Init == accepted = << >> /\ sent = << >> /\ shut = FALSE

Accept(m) ==
  /\ ~shut
  /\ accepted' = Append(accepted, m)
  /\ UNCHANGED <<sent, shut>>

Transmit ==
  /\ ~shut
  /\ Len(sent) < Len(accepted)
  /\ sent' = Append(sent, accepted[Len(sent) + 1])
  /\ UNCHANGED <<accepted, shut>>

Shut ==
  /\ ~shut
  /\ shut' = TRUE
  /\ UNCHANGED <<accepted, sent>>

Next == (\E m \in Message : Accept(m)) \/ Transmit \/ Shut

Spec == Init /\ [][Next]_vars
=============================================================================
