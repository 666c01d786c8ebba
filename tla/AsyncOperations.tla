-------------------------- MODULE AsyncOperations ---------------------------
(***************************************************************************)
(* Operations a session has outstanding on its transport.  An operation is *)
(* a record with a field status: pending until the transport decides its   *)
(* result, then waiting for its completion handler to run.                 *)
(***************************************************************************)
EXTENDS Sequences

Status == {"pending", "done", "failed", "aborted"}

IsPending(ops)  == ops # << >> /\ Head(ops).status = "pending"
IsComplete(ops) == ops # << >> /\ Head(ops).status # "pending"

(* Closing or cancelling aborts what is pending and leaves alone what has  *)
(* already completed.                                                      *)
Aborted(ops) ==
  [i \in DOMAIN ops |->
     IF ops[i].status = "pending" THEN [ops[i] EXCEPT !.status = "aborted"]
                                  ELSE ops[i]]
=============================================================================
