-------------------------- MODULE BenchmarkClient --------------------------
(***************************************************************************)
(* What the benchmark programs under example/ have in common: a main       *)
(* thread that sends the first request and runs the io_context, a thread   *)
(* that gives up when the time is over, and the counters and flags the two *)
(* share with the read handler.  Requests are numbered, and the next one   *)
(* is sent when the last has been answered.                                *)
(*                                                                         *)
(* The read handler runs in the main thread, inside run().  Its effect on  *)
(* the flags is one step: what the timer thread can see in the middle of   *)
(* it, it can also see before or after.  The timer's own steps are         *)
(* separate, one for each thing it reads or changes.                       *)
(*                                                                         *)
(* The programs differ in the session they use and in what their read      *)
(* handler makes of the data: see SerialBenchmark and WebSocketBenchmark.  *)
(***************************************************************************)
EXTENDS Naturals

CONSTANT Samples      \* how many requests to send

ASSUME SamplesAssumption == Samples \in Nat \ {0}

VARIABLE bench

Benchmark ==
  [failed : BOOLEAN, completed : BOOLEAN,        \* the atomic flags
   sent_count : 0 .. Samples, received_count : 0 .. Samples,
   expected_sequence : 0 .. Samples - 1,
   startup : {"set_read_handler", "start_reading", "send", "done"},
   close_posted : BOOLEAN,                        \* by the timer's close()
   stopped : BOOLEAN,                             \* the io_context is
   main : {"run", "complete", "join", "exited"},
   timer : {"load", "clock", "fail", "complete", "close", "stop", "done"},
   elapsed : BOOLEAN]                             \* the time is over
-----------------------------------------------------------------------------
(* The parts of the read handler. *)

send_next_early(b) ==
  IF b.sent_count + 1 >= Samples THEN b
  ELSE [b EXCEPT !.expected_sequence = b.sent_count, !.sent_count = @ + 1]
send_next(b) ==
  IF b.sent_count >= Samples THEN b
  ELSE [b EXCEPT !.expected_sequence = b.sent_count, !.sent_count = @ + 1]

count_sample(b) == [b EXCEPT !.received_count = @ + 1]

(* With a bug: the run is over, but nobody says that it failed.            *)
give_up_silently(b) == [b EXCEPT !.completed = TRUE, !.stopped = TRUE]
give_up(b) == [b EXCEPT !.failed = TRUE, !.completed = TRUE, !.stopped = TRUE]

finish(b) == [b EXCEPT !.completed = TRUE, !.stopped = TRUE]

(* main has posted the three first calls, in this order, when run() starts *)
(* and the timer thread exists.                                            *)
Started ==
  send_next(
    [failed |-> FALSE, completed |-> FALSE, sent_count |-> 0,
     received_count |-> 0, expected_sequence |-> 0,
     startup |-> "set_read_handler", close_posted |-> FALSE, stopped |-> FALSE,
     main |-> "run", timer |-> "load", elapsed |-> FALSE])
-----------------------------------------------------------------------------
(* The timer thread. *)

TimerGoes(from, to) ==
  /\ bench.timer = from
  /\ bench' = [bench EXCEPT !.timer = to]

TimerLoads == TimerGoes("load", IF bench.completed THEN "done" ELSE "clock")

TimerLooks == TimerGoes("clock", IF bench.elapsed THEN "fail" ELSE "load")

TimerFails ==
  /\ bench.timer = "fail"
  /\ bench' = [bench EXCEPT !.failed = TRUE, !.timer = "complete"]

(* With a bug: the flags are set, and it is left to run() to notice.       *)
TimerCompletes_only ==
  /\ bench.timer = "complete"
  /\ bench' = [bench EXCEPT !.completed = TRUE, !.timer = "done"]
TimerCompletes ==
  /\ bench.timer = "complete"
  /\ bench' = [bench EXCEPT !.completed = TRUE, !.timer = "close"]

TimerCloses ==
  /\ bench.timer = "close"
  /\ bench' = [bench EXCEPT !.close_posted = TRUE, !.timer = "stop"]

TimerStops ==
  /\ bench.timer = "stop"
  /\ bench' = [bench EXCEPT !.stopped = TRUE, !.timer = "done"]

Timer ==
  \/ TimerLoads \/ TimerLooks
  \/ TimerFails \/ TimerCompletes \/ TimerCloses \/ TimerStops

TimePasses ==
  /\ ~bench.elapsed
  /\ bench' = [bench EXCEPT !.elapsed = TRUE]
-----------------------------------------------------------------------------
(* The main thread, from run() on. *)

Running == bench.main = "run"

(* The calls main posted.  stop() does not end run() at once: the strand   *)
(* executes all handlers it had ready when its turn began.  Which ones are *)
(* ready is not modelled, so that any of them may run until run() returns. *)
Startup(step, next) ==
  /\ Running
  /\ bench.startup = step
  /\ bench' = [bench EXCEPT !.startup = next]

(* The close() the timer posted. *)
PostedClose ==
  /\ Running
  /\ bench.startup = "done"
  /\ bench.close_posted
  /\ bench' = [bench EXCEPT !.close_posted = FALSE]

(* No handler is being executed, and with outOfWork there is none to wait  *)
(* for: then run() stops the io_context itself.                            *)
RunReturns(outOfWork) ==
  /\ bench.main = "run"
  /\ bench.stopped \/ outOfWork
  /\ bench' = [bench EXCEPT !.main = "complete", !.stopped = TRUE]

MainCompletes ==
  /\ bench.main = "complete"
  /\ bench' = [bench EXCEPT !.completed = TRUE, !.main = "join"]

MainJoins ==
  /\ bench.main = "join"
  /\ bench.timer = "done"
  /\ bench' = [bench EXCEPT !.main = "exited"]

Exited    == bench.main = "exited"
Succeeded == Exited /\ ~bench.failed
=============================================================================
