-------------------------- MODULE SerialBenchmark --------------------------
(***************************************************************************)
(* example/serial_benchmark.cpp: the benchmark program as the user of a    *)
(* serial session, with a device at the other end that echoes what it      *)
(* gets.  One thread runs the io_context.                                  *)
(*                                                                         *)
(* A serial line has no messages, only bytes: a request comes back in      *)
(* chunks of any size, and the read handler puts them together.  Bytes are *)
(* modelled as the program makes them, with a sequence number of           *)
(* HeaderSize bytes where the program has four, in whatever order the      *)
(* machine keeps them in memory.  The line may lose bytes, and bytes from  *)
(* before the port was opened may be waiting in it: open() does not flush. *)
(***************************************************************************)
EXTENDS SerialSession, BenchmarkClient, SequencesExt

CONSTANTS
  HeaderSize,          \* bytes of a sequence number
  PayloadSize,         \* bytes of a request
  SequenceBytes,       \* the bytes of each sequence number in memory
  Stale                \* what may be in the line at first

ASSUME SerialBenchmarkAssumption ==
  /\ Message = 0 .. Samples - 1
  /\ PayloadSize \in BufferSize
  /\ "full_duplex" \in Mode
  /\ ~SeveralThreads
  /\ HeaderSize \in 1 .. PayloadSize
  /\ SequenceBytes \in [0 .. Samples - 1 -> [1 .. HeaderSize -> 0 .. 255]]
  /\ IsInjective(SequenceBytes)
  /\ Stale \subseteq Seq(0 .. 255)

VARIABLES
  out,                 \* bytes of the write in progress that have gone out
  line,                \* bytes on their way back
  data,                \* what the completed read put in the read buffer
  pending_response,    \* what the read handler has not used yet
  faulty               \* history: what went wrong first, if anything

lineVars == <<out, line, data, pending_response, faulty>>
allVars  == <<vars, bench, lineVars>>

Byte == 0 .. 255

BenchmarkTypeOK ==
  /\ bench \in Benchmark
  /\ out \in 0 .. PayloadSize
  /\ line \in Seq(Byte)
  /\ data \in Seq(Byte) /\ Len(data) <= PayloadSize
  /\ pending_response \in Seq(Byte) /\ Len(pending_response) < PayloadSize
  /\ faulty \in {"no", "stale", "lossy", "failed"}
-----------------------------------------------------------------------------
make_payload(sequence) ==
  [i \in 1 .. PayloadSize |->
     IF i <= HeaderSize THEN SequenceBytes[sequence][i] ELSE (i - 1) % 256]

(* Only the sequence number of a response is looked at. *)
HasSequence(bytes, sequence) ==
  SubSeq(bytes, 1, HeaderSize) = SubSeq(make_payload(sequence), 1, HeaderSize)

(* Enough bytes for a response?  (And two wrong tests.) *)
IsWhole_header(bytes) == Len(bytes) >= HeaderSize
IsWhole_beyond(bytes) == Len(bytes) > PayloadSize
IsWhole(bytes) == Len(bytes) >= PayloadSize

StartConfig ==
  [duplex_mode |-> "full_duplex", read_buffer_size |-> PayloadSize]

BenchmarkInit ==
  /\ session = open(NewSession, StartConfig, TRUE)
  /\ strand = "idle"
  /\ accepted = << >>
  /\ wire = << >>
  /\ unreported = 0
  /\ bench = Started
  /\ out = 0
  /\ line \in {<< >>} \cup Stale
  /\ data = << >>
  /\ pending_response = << >>
  /\ faulty = IF line = << >> THEN "no" ELSE "stale"
-----------------------------------------------------------------------------
(* Handlers that run() executes when the strand is idle. *)

Idle == strand = "idle" /\ UNCHANGED lineVars

SetsReadHandler ==
  Idle /\ Startup("set_read_handler", "start_reading") /\ SetReadHandler(TRUE)
StartsReading == Idle /\ Startup("start_reading", "send") /\ StartReading
SendsFirst    == Idle /\ Startup("send", "done") /\ Send(0)
Closes        == Idle /\ PostedClose /\ Close

ReadCompletes  == Running /\ OnRead  /\ UNCHANGED <<bench, lineVars>>
WriteCompletes == Running /\ OnWrite /\ UNCHANGED <<bench, lineVars>>
-----------------------------------------------------------------------------
(* The read handler, called by the read completion; its calls to the       *)
(* session run inline, before the completion goes on.  The handler's loop  *)
(* runs at most once: what is pending and what a read brings are together  *)
(* less than two responses (BenchmarkTypeOK).                              *)

Response == pending_response \o data
Rest     == SubSeq(Response, PayloadSize + 1, Len(Response))

HandlerReturns(s, b, pending) ==
  /\ Running
  /\ session' = AfterRead(s, strand)
  /\ strand' = "idle"
  /\ bench' = b
  /\ pending_response' = pending
  /\ data' = << >>
  /\ UNCHANGED <<wire, unreported, out, line, faulty>>

HandlesError ==
  /\ strand = "after_error"
  /\ HandlerReturns(CloseSession(session), give_up(bench), pending_response)
  /\ UNCHANGED accepted

HandlesPart ==
  /\ strand = "after_data"
  /\ ~IsWhole(Response)
  /\ HandlerReturns(session, bench, Response)
  /\ UNCHANGED accepted

HandlesOther ==
  /\ strand = "after_data"
  /\ IsWhole(Response)
  /\ ~HasSequence(Response, bench.expected_sequence)
  /\ HandlerReturns(CloseSession(session), give_up(bench), Rest)
  /\ UNCHANGED accepted

HandlesEcho ==
  /\ strand = "after_data"
  /\ IsWhole(Response)
  /\ HasSequence(Response, bench.expected_sequence)
  /\ LET counted == count_sample(bench)
         next    == send_next(counted)
     IN  IF counted.received_count >= Samples
         THEN /\ HandlerReturns(CloseSession(session), finish(counted), Rest)
              /\ UNCHANGED accepted
         ELSE IF next.sent_count = bench.sent_count
         THEN /\ HandlerReturns(session, next, Rest)
              /\ UNCHANGED accepted
         ELSE /\ HandlerReturns(
                   Core!enqueue_write(session, next.expected_sequence), next, Rest)
              /\ accepted' = IF session.closed THEN accepted
                             ELSE Append(accepted, next.expected_sequence)

Handlers ==
  \/ SetsReadHandler \/ StartsReading \/ SendsFirst \/ Closes
  \/ ReadCompletes \/ WriteCompletes
  \/ HandlesError \/ HandlesPart \/ HandlesOther \/ HandlesEcho
-----------------------------------------------------------------------------
(* The port, the line and the device.  A write goes out byte by byte, and  *)
(* each byte comes back at any later time.                                 *)

ByteGoesOut ==
  /\ Running
  /\ WritePending
  /\ out < PayloadSize
  /\ out' = out + 1
  /\ line' = Append(line, make_payload(Head(session.writes).message)[out + 1])
  /\ UNCHANGED <<vars, bench, data, pending_response, faulty>>

Faulty(kind) == faulty' = IF faulty = "no" THEN kind ELSE faulty

WriteEnds ==
  /\ Running
  /\ \/ out = PayloadSize /\ PortWrites /\ UNCHANGED faulty
     \/ PortWriteFails /\ Faulty("failed")
  /\ out' = 0
  /\ UNCHANGED <<bench, line, data, pending_response>>

ReadEnds ==
  /\ Running
  /\ PortReads
  /\ LET n == Head(session'.reads).bytes
     IN  /\ n <= Len(line)
         /\ data' = SubSeq(line, 1, n)
         /\ line' = SubSeq(line, n + 1, Len(line))
  /\ UNCHANGED <<bench, out, pending_response, faulty>>

ReadFails ==
  /\ Running
  /\ PortReadFails
  /\ Faulty("failed")
  /\ UNCHANGED <<bench, out, line, data, pending_response>>

ByteIsLost ==
  /\ \E i \in DOMAIN line : line' = RemoveAt(line, i)
  /\ Faulty("lossy")
  /\ UNCHANGED <<vars, bench, out, data, pending_response>>
-----------------------------------------------------------------------------
(* The rest of the program's main thread, and its timer. *)

(* An abort leaves the write that was pending where it was. *)
OutOfWork ==
  /\ bench.startup = "done"
  /\ ~bench.close_posted
  /\ session.reads = << >>
  /\ session.writes = << >>

Main ==
  \/ strand = "idle" /\ RunReturns(OutOfWork)
  \/ MainCompletes
  \/ MainJoins

(* Steps of a thread that leave the session alone. *)
Apart(step) == step /\ UNCHANGED <<vars, lineVars>>

BenchmarkNext ==
  \/ Handlers
  \/ ByteGoesOut \/ WriteEnds \/ ReadEnds \/ ReadFails \/ ByteIsLost
  \/ Apart(Main) \/ Apart(Timer) \/ Apart(TimePasses)

BenchmarkSpec == BenchmarkInit /\ [][BenchmarkNext]_allVars

(* Threads run, and run() executes what is queued.  Neither the port nor   *)
(* the device need do anything, and time may stand still: how long the     *)
(* program waits is up to its user.                                        *)
BenchmarkFairness ==
  /\ WF_allVars(Handlers)
  /\ WF_allVars(Apart(Main))
  /\ WF_allVars(Apart(Timer))

FairBenchmark == BenchmarkSpec /\ BenchmarkFairness
-----------------------------------------------------------------------------
(* Properties. *)

(* On a line that at worst loses bytes, a sample is counted only when the  *)
(* whole of the request last sent has come back, although the program      *)
(* looks only at the first bytes of a response and takes chunks as they    *)
(* come.  (A stale byte is another matter: a zero in front of the first    *)
(* echo passes for its sequence number.)                                   *)
SamplesAreEchoes ==
  [][ bench'.received_count > bench.received_count /\ faulty # "stale" =>
        IsPrefix(make_payload(bench.sent_count - 1), Response) ]_allVars

(* A run that exits with 0 has measured every sample, or else the write of *)
(* its last request failed: the session closes itself then, and when a     *)
(* read has already completed no handler is told.                          *)
SuccessIsComplete ==
  Succeeded =>
    bench.received_count = Samples \/ Len(wire) < bench.sent_count

(* The program ends when the time is over if not before, whatever the port *)
(* and the device do or fail to do, and the timer thread is joined.        *)
Terminates == WF_allVars(Apart(TimePasses)) => <>Exited

(* If the port and the line do not fail and the device answers, every      *)
(* sample is measured unless the time is over first.                       *)
Answers ==
  /\ WF_allVars(ByteGoesOut)
  /\ WF_allVars(ReadEnds)
  /\ WF_allVars(out = PayloadSize /\ WriteEnds)
MeasuresAll ==
  Answers =>
    <>(bench.received_count = Samples \/ bench.elapsed \/ faulty # "no")
=============================================================================
