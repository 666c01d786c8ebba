# Verification of TransitSession

TransitSession is a C++20 header library of asynchronous sessions on Asio: an object is sent
and received over a serial line, a CAN socket or a WebSocket through the same small interface
(`send`, `set_read_handler`, `start_reading`, `stop_reading`, `close`). This directory holds
TLA+ models of it, the TLC configurations that check them, and proofs checked by TLAPS.
Paths such as `serial_session.hpp` are relative to the repository's `transport/` and `core/`.

## The system

| Component | Source | State it keeps | Operations |
|---|---|---|---|
| Session core | `core/async_transport_session.hpp` | strand, read handler, `write_queue_`, `read_enabled_`, `read_in_progress_`, `write_in_progress_`, `closed_` | `send`/`enqueue_write`, `start_reading`, `stop_reading`, `set_read_handler`, `close`, `schedule_operations` |
| Serial session | `transport/serial/` | the port, `duplex_mode_`, `read_buffer_`, `read_pause_for_write_` | the core's, `open`, `apply_config`, `set_duplex_mode`, `set_read_buffer_size`, the read and write completions |
| CAN session | `transport/can/can_session.hpp` | the socket, `read_buffer_`, `write_storage_`, FD flag | the core's, `open`, the completions, frame encoding and decoding, filters |
| WebSocket client session | `transport/websocket/websocket_session.hpp` | the stream, `read_buffer_` | the core's, `open` (blocking handshake), the completions |
| WebSocket server session | `transport/websocket/websocket_server_session.hpp` | the stream, `read_buffer_`, `close_handler_`, `close_notified_` | `start`, the handshake's completion, `set_close_handler`, the core's |
| WebSocket server | `transport/websocket/websocket_server.hpp` | `acceptor_`, `active_sessions_`, `session_handler_`, `started_` | `start`, `stop`, `set_session_handler`, the accept completion, the sessions' callbacks |
| Deprecated session | `core/async_session.hpp` | the socket, strand, queue, flags of its own | `open`, `set_duplex_mode`, `set_read_buffer_size`, `start_reading`, `stop_reading`, `send`, `close`, the completions |
| Benchmarks | `example/*_benchmark.cpp` | `completed`, `failed`, the counters, `expected_sequence`, `pending_response` | `send_next`, the read handler, the timer thread, the end of `main` |
| Test, interactive examples | `test/`, `example/` | | |

**How they interact.** A transport session derives from the core (CRTP): the core decides
*whether* something is to be done and calls the transport's `can_start_read`,
`can_start_write`, `do_read`, `do_write` and `close_transport`; the transport's completion
handlers call back the core's `mark_*`, `consume_write`, `schedule_operations`, `notify_read`
and `close`. The WebSocket server creates and starts its sessions, whose start and close
handlers dispatch to the server's strand; `stop()` closes them from there. A benchmark drives a
session from its read handler, and a second thread watches the time and stops the `io_context`
when it is over; the WebSocket benchmark also holds the echo server it measures. The deprecated
session shares no code with the others; all its calls are posted.

**What is hard.** Every public call is *dispatched* to the session's strand. A dispatch from
outside is a handler of its own; a dispatch from inside the read handler runs inline, in the
middle of the read completion, whose rest then meets a changed session. An operation and its
completion are two events: other handlers run in between, among them `close()`, whose aborts
come too late for an operation that has already succeeded. The write operation holds a raw
pointer to the front of the queue. A half-duplex serial line must take turns although the mode
may change at any time. `open()` and `apply_config()` do not go through the strand at all. And a
handler that changes a flag without calling `schedule_operations` loses a wakeup for ever. A CAN
frame that cannot be encoded closes the session from inside `do_write`, hence from inside whatever
was scheduling. A WebSocket message is sent in pieces, between which `close()` may run. The server
and each of its sessions have strands of their own and call each other, inline or queued. The
deprecated session's write completion pops a queue that `close()` may have emptied. A benchmark
has to put a response together from chunks, while its timer may decide at any point that it failed.

**What makes it correct.**

* Core and serial session: the flags tell the truth about what is outstanding; no accepted
  message is lost, duplicated, reordered or freed under its write; nothing startable is left
  waiting; every byte read is reported; closing is final, releases the port and drains; half
  duplex takes turns; what is accepted is eventually written.
* CAN: encoding then decoding a frame gives it back; a frame that cannot be encoded ends the
  session and leaves no write behind; a reader loses no frame that one of its filters describes
  and gets none that agrees with no filter's id.
* WebSocket session: messages go out whole and in order although they are sent in pieces; a lost
  connection closes the session.
* WebSocket server: each session it creates is reported exactly once (a connection whose accept
  has completed when `stop()` runs gets no session, its handler drops it); `active_sessions_` holds
  exactly the sessions that are up, however the strands interleave; one accept is outstanding
  while the server listens; once it is stopped none waits for a connection, whatever `start()` is
  called afterwards, and there are no more accept loops than there were starts.
* Deprecated session: as the core, as far as its code goes; the undefined pop must stay confined
  to the user's own `close()`.
* Benchmarks: what is counted is an echo of what was sent; success is not reported without the
  measurements; the program ends.

## Modules

| Module | What it is |
|---|---|
| `SessionState`, `SessionClose`, `AsyncTransportSession` | The core's member functions as operators on a session record. The template's hooks are operator parameters, so every transport instantiates the same text; `close` needs only one hook and stands apart because CAN's `do_write` calls it. |
| `AsyncOperations` | Operations outstanding on a transport: pending, then waiting for their handler. |
| `FifoLink` | The abstract specification of sending: accept in order, transmit in order, shut. |
| `SerialSession` | The serial session: state, one action per public operation, per completion handler and per event of the port. |
| `SerialSessionTheorems` | Its proofs, in three parts: the operators, the inductive invariant with one lemma per action, the theorems. |
| `OperationLemmas` | Proofs: lemmas about outstanding operations and message histories that several sessions need. |
| `CanCodec` | Encoding, decoding and filters as operators. An id is the set of its bits. |
| `CanExchange` | A frame sent, put on the line, filtered, read and sent on by gateways. |
| `CanSession` | The CAN session, with the same actions as the serial one. |
| `CanTheorems` | Proofs about all three CAN modules: the conversions, frames on their way, the session. |
| `WebSocketSession` | Client and server sessions and the stream below them. |
| `WebSocketSessionTheorems` | Its proofs. |
| `WebSocketServer` | The server and the life of its sessions up to and after their traffic. |
| `WebSocketServerTheorems` | Its proofs. |
| `AsyncSession` | The deprecated session and its socket. |
| `AsyncSessionTheorems` | Its proofs. |
| `BenchmarkClient` | What the benchmarks share: counters and flags, the timer thread, the end of `main`. |
| `SerialBenchmark` | The serial benchmark: `SerialSession` with `BenchmarkClient` as its user, and a line of bytes with a device that echoes. |
| `SerialBenchmarkTheorems` | Its proofs, on top of `SerialSessionTheorems`. |
| `WebSocketBenchmark` | The WebSocket benchmark: `WebSocketSession` as the client's session with `BenchmarkClient` as its user, and an instance of it as the server's with the echo handler, joined by the messages they exchange. |
| `WebSocketBenchmarkTheorems` | Its proofs, on top of `WebSocketSessionTheorems`. |
| `MC...` | Constants for TLC, one module per specification. |

### How the serial model corresponds to the code

`session` is the object with the operations it has outstanding (`reads`, `writes`: at most one
each, by `FlagsMatchOperations`). A completion is two steps, as in Asio: the port decides the
result (`PortReads`, `PortReadFails`, `PortWrites`, `PortWriteFails`, or an abort by `cancel()`
or `close()`), and the completion handler (`OnRead`, `OnWrite`) runs later.

`strand` is `"idle"` between handlers. When a read completion calls the read handler, `strand`
keeps what is left of the completion (`"after_data"`: schedule; `"after_error"`: close), the
operations the handler calls inline are ordinary steps in between, and `ReadHandlerReturns`
runs the rest. Calls from other threads cannot come in between in the code, yet they are the
same steps as the inline ones, so the model needs only one set of actions. A public call
returns nothing, so its post to the strand and its run are one step, at the point where it runs.

`close()` is one step when one thread runs the `io_context`. With `SeveralThreads` the port may
act on an outstanding operation while `close()` is between emptying the queue and closing the
port; `CloseTransport` is then the second half. It is the only handler with a memory access
that matters to an operation in flight: the others touch neither the queue's front nor the
buffer while the operation that uses them is outstanding (`WriteBufferLive`,
`ReadBufferStable`).

`accepted`, `wire` and `unreported` are history variables: what entered the queue, what the port
sent, how many stored bytes no handler was given. Bytes are counted, not represented; a
configuration's line parameters are abstracted to whether the port accepts them.
`Open` and `ApplyConfig`, which bypass the strand, are guarded by the constants `Reopens` and
`LiveConfig`, so that each run says whether the program uses them on a live session; each is one
atomic step, which is what a program that calls them between handlers does.

### How the other models correspond to the code

`CanSession` keeps the serial model's shape. Its `do_write` is the code's: encode, and on failure
call `close`, inside whatever call or completion is scheduling. Reads bring a raw frame or a
number of bytes that is none. The write operation owns its bytes (`write_storage_`), so the split
of `close()` does not matter and several threads need no extra action.

`CanCodec` represents an id as a set of bits, so that the masks and flags of `<linux/can.h>` are
set operations and every identity about them is provable for any number of bits. `encode_frame`
and `decode_frame` are the code's, with sizes as constants; the kernel's matching of a filter is
external. `CanExchange` composes them: `Encode` is a sender's, `Decode` a reader's step, and the
frame read may be sent on.

`WebSocketSession` has one action more, `OnPiece`, the stream's own handler between two pieces of a
message. A client copies a piece when it starts it (the stream masks what it sends), a server
hands the message's memory to the socket; `sources` records which message each piece was
taken from, and what is on `wire` is a message only if all its pieces were that message's. Where
the two classes differ in traffic is only the close handler, which is in `WebSocketServer`.

`WebSocketServer` has the server's strand, where `callback` is the user's session handler running
and what is left of the accept or report after it, and one strand for each session. What a
session dispatches to the server goes to `inbox`; what the server dispatches to a session runs
inline if the session's strand is free, and later if not: both are possible at any time. `Stop`
models the loop over `active_sessions_` with its undefined behaviour: once a close has run inline
and erased the element under the iterator, any subset of the others may be closed. (That the
program may also crash there is not a behaviour of the model.) What a session reads and writes
is reduced to `SessionCloses`.

`AsyncSession` needs no `strand`: every call is posted, also one made inside the read handler, so a
completion handler is one step. A write owns its message, and `close()` leaves the aborted
operations to complete. A write that has succeeded when `close()` empties the queue pops from the
empty queue: `queue_broken` is then set, the process may die at any time (`Crash`), or go on, and
what is left in the queue is never looked at again because the session is closed.

`BenchmarkClient` keeps the state of `main` and of the timer thread in one record, `bench`. The
timer's steps are single reads and writes (`load`, `clock`, `fail`, `complete`, `close`, `stop`);
the read handler's effect on the flags is one step. `run()` returns when the `io_context` is
stopped or out of work. It need not return at once: a strand executes all the handlers it had ready
when its turn began, and `io_context::stop()` only ends the turns. Which handlers are ready is not modelled,
so in the model any handler may run between `stop()` and the return of `run()`. `main` has posted its three first calls when the timer thread starts.

`SerialBenchmark` merges the read handler with the rest of the completion that calls it
(`HandlerReturns`): calls it makes to the session run inline, nothing else comes in between on one
thread. The line is a sequence of bytes: a write goes out byte by byte, what has gone out comes back in
reads of any size, bytes may be lost, and one may be there from before. A sequence number has
`HeaderSize` bytes, two in the instance where the program has four, the second always zero: enough
for a number to straddle two reads and for a shifted one to be told from the right one or not.
What those bytes are is the constant `SequenceBytes`, one to one, so the theorems
hold for either byte order.
The handler's `while` loop runs at most once, since what is pending and what one read brings are
less than two responses (`BenchmarkTypeOK`).

`WebSocketBenchmark` starts where client and server have connected. A stream may read only what
the other has written whole. The echo may be attached after the first request has arrived
(`attach`), and the server's `io_context` may be stopped before the posted `stop()` has run
(`shutdown`).

## Runs

| Run | Configuration | Shows |
|---|---|---|
| `serial_normal` | one thread, opened once, both modes, two buffer sizes, with and without an answering peer | all safety properties, `IsFifoLink`, and that messages go out: `WrittenInFullDuplex`, `WrittenIfAnswered`, `CloseDrains` |
| `serial_unrestricted` | several threads, `open` and `apply_config` at any moment | `CloseIsFinal` survives all of that |
| `serial_half_duplex_silent` | violation | in half duplex a silent peer keeps a queued message back for ever |
| `serial_freed_write` | violation | with several threads a write may send from a freed message |
| `can_exchange` | frames over one id bit, up to two filters, with and without FD, any number of gateways | round trip, relaying without loss, filtering as a filter describes it |
| `can_session` | a classic, an FD and an unencodable frame, reopening | closes only for a reason and in turn, flags true throughout; accepted frames go out, also on a silent bus |
| `ws_session` | both roles, a message of one piece and one of two, a connection that may be lost | whole messages in order, `AcceptedIsWritten`, `LossIsNoticed` |
| `ws_freed_piece` | violation | a closed client copies a piece out of a freed message |
| `ws_server` | two connections, two effective starts | the set of active sessions, one report for each session, the accept loop while the server listens and after `stop()`, and that reports come about |
| `async_session` | both modes, opened at any time or never, errors at any time | in order, no wakeup lost; the queue is popped when empty only after the user's `close()` |
| `serial_benchmark` | two requests of three bytes, a line empty or with a stale byte, losses, failing port | samples are echoes; success is complete, unless the last write failed; the program ends; on a good line everything is measured |
| `ws_benchmark` | two requests, one of two pieces, a connection that may be lost, shutdown of the server | the round trip through both sessions is an in-order link; success is complete; everything is measured unless the time is over first, the connection is lost or a session closes itself |

**Bounds.** In the sessions the only unbounded quantity is the history, bounded by `MaxSends`.
With three sends the queue holds up to three messages: one being written, one behind it, one
appended meanwhile, which is every position a message can have relative to a write and a
`close()`. Two messages tell order and duplication apart. Buffer sizes 1 and 2 (and the ignored
0) tell growing and shrinking apart. In the two violation runs of the serial session one send is
enough. Two pieces are a first and a next piece; a third would
repeat the second. One id bit next to the three flag bits, and data rooms of 1 and 2 with lengths up
to 3, reach every mask, flag and limit of the codec, which treats all id bits alike; the theorems
hold for any number of them. In the
server two connections suffice for one to be closed under the loop over the other, and the
second start is the restart of a stopped server. Two samples are the first, which `main` sends, and
one the read handler sends; three bytes a request are a header and a payload that a read can cut
at every place. Each run finishes in seconds to a minute.

**Fairness.** Strong fairness of the completion handlers and of what is dispatched to the
server: they are in a strand's FIFO queue, so they run although other handlers keep finding the
strand first. Weak fairness of `ReadHandlerReturns`, `CallbackReturns` and `CloseTransport`: the
code that is running goes on, and the user's handler returns. Weak fairness of the transport's
write: a line, bus or peer takes what is written to it or the write fails. On a WebSocket this
supposes a peer that reads; the client sets no idle timeout that would end a write to one that
does not. Nothing is assumed of reads, except that one on a lost connection fails, and in
`WrittenIfAnswered`, whose premise is a serial peer that answers. A handshake ends, by the timeout
`start()` sets if by nothing else. Nobody has to connect, send, close or stop.

In the benchmarks weak fairness of each thread and of the handlers it runs: `run()` takes up what
is queued. That time passes is assumed only in `Terminates`, as its premise: without that the
timer would make `MeasuresAll` true whatever the code does. The premise of `MeasuresAll`
(`Answers`) is that bytes or messages do travel and come back.

## Findings

1. *Half-duplex starvation.* `can_start_write` refuses while a read is in progress
   (`serial_session.hpp:171`), so `do_write`'s branch that would cancel the read to let the write
   through (`222-227`) is never reached. That it is unreachable is proved (`NeverPaused`).
2. *Freed write buffer.* `close()` clears the queue (`async_transport_session.hpp:98`) before the
   port is closed (`99`), with the write still holding a pointer into it. One thread hides it
   (proved: `WireIntact`), several do not.
3. *Freed pieces.* `do_write` moves a raw pointer into the completion handler
   (`websocket_session.hpp:166-172`) as if it owned the message. The client's stream comes back
   to the message for each piece; after a `close()` between two pieces it copies from freed memory, on
   one thread. Nothing of it reaches the peer (`IsFifoLink`), and a server session does not do it
   (proved: `ServerPiecesAreLive`).

### Other observations

Behaviour met while modelling that the model only confirms; no run is kept for it. Except for the
first item no document or test of the repository speaks about it.

* `can_config.hpp` says of a filter's `extended_id` and `remote_frame` that they tell whether the
  filter matches extended and remote frames ("是否匹配扩展帧" at line 17, "是否匹配远程帧" at 19).
  That holds when both are set. One that is `false` is left out of the mask
  (`can_session.hpp:261-269`), so the kernel does not look at the flag: a filter for standard
  frames passes extended ones with the same low bits too, and one for data frames remote ones.
  `FilteredAsDescribed` states the documented meaning as far as the code keeps it: no frame that a
  filter describes is lost, whatever its kinds; what is read has the id of one of the filters, and
  its kinds if that filter matches both extended and remote frames. Without this last restriction
  the property fails.

* `apply_config` on a live session resizes `read_buffer_` (`serial_session.hpp:109`) under an
  outstanding read, the case `set_read_buffer_size` refuses (`143`): `BuffersStable` holds
  only with both `LiveConfig` and `Reopens` off.
* `open()` succeeds on a closed serial session and opens the port (`serial_session.hpp:56`);
  `closed_` stays set, so `close()` returns early and the port is never released. `CloseDrains`
  fails with `Reopens` on.
* The deprecated session's write completion pops the emptied queue after a `close()` that comes
  when the write has already succeeded (`core/async_session.hpp:204`).
* The serial benchmark exits with 0 although samples are missing, if the write of a request fails
  when a read has just completed: the session closes itself, and a closed session reports nothing
  to the handler. `SuccessIsComplete` excepts exactly this case.
* A zero byte waiting in the line passes for the first byte of sequence number 0, since only the
  first bytes of a response are compared; the rest of the responses are then shifted.
  `SamplesAreEchoes` excludes such lines.
* The timer thread may find `completed` still false, and report failure, after the last sample has
  been counted but before the handler has said so.

## Proofs

### Serial session

All theorems are about `Spec` for arbitrary sets of messages, buffer sizes and modes, any bound on
sends, and any value of the three Boolean constants unless the theorem says otherwise; the only
assumption is `SerialAssumption`, which types the constants.

**The invariant.** `IInv` is `TypeOK`, `SessionInv(session)`, `EveryByteReported` and
`NothingLostWhileOpen`. The last two are not inductive alone. A completed write pops the
queue: that what it pops is what went out needs `PortInv` (an open session has the written message
at the front of its queue). A completed read takes its bytes off the account: that there is only
one such read needs `FlagsInv` (flags match operations, a read that is not done has no bytes,
`read_pause_for_write` is down, which makes the swallowing branch of the read completion dead). And
after a close nothing may be pending, except between its two halves: `PortInv` again, which makes
`CloseTransport` preserve it.

**The argument.** `ScheduleEffect` shows what `schedule_operations` does to any session that
satisfies `SessionInv`: it starts a read, a write, both or neither, and leaves nothing startable.
`CloseEffect` does the same for `close()`. Each action is then a change of fields the invariant
does not look at, followed by one of the two (`QuietStep`, `TweakAndSchedule`); the five actions
that move messages or bytes (`Send`, `OnRead`, `OnWrite`, `PortReads`, `PortWrites`) have proofs
of their own. The step properties rest on `NextForm`: every step prepares a session and then
rests, schedules or closes.

**What is proved.** Type correctness, `FlagsMatchOperations`, `NothingLostWhileOpen`,
`EveryByteReported`, `ReadNeverPaused`, `CloseIsFinal`, `HalfDuplexTurns` without restriction;
`WriteBufferLive`, `WireCarriesMessages` and the refinement `IsFifoLink` for one thread;
`WorkConserving` without `LiveConfig`; `ClosedPortIsClosed` without `Reopens`;
`ReadBufferStable` without either, and with it `BuffersStable` for one thread. Each restriction is
necessary: `serial_freed_write`, a reopened session, or a buffer size or mode changed by
`apply_config` breaks the property without it.

### CAN frames

`CanTheorems` proves `RoundTrip`, `Relayable`, `FilteredAsDescribed` and `ExchangeTypeOK` for every set
of id bits, every frame room, every byte alphabet and every list of filters, from
the assumptions `CanCodec` makes of the constants: the three flags are distinct and not among
the id's bits, and classic frames have no more room than FD frames. The invariant says that what
is on the line was encoded from what was sent, and at which stage it has been read; the lemmas
are one identity per conversion (an encoded id decodes to itself, a copied datum keeps its prefix,
the filter made for the kernel matches an encoded id exactly if its id agrees with the frame's
under the mask and the frame has the kinds that the filter has set, `MatchesDecoded`).
`FilteredAsDescribed` follows in both directions: a frame the filter describes has all its kinds,
those that are set included, so it is matched; and if both are set, what is matched has both.

### CAN session

`CanTheorems` proves of the session `TypeOK`, `ClosesForAReason`, `WorkConserving` (no wakeup is lost),
`CloseIsFinal` and `IsFifoLink` for every set of frames, reads and modes and any bound on sends, from
`CanSessionAssumption` and the codec's assumptions; reopening is included.

**The invariant.** A write owns its bytes, so what must hold is a relation between two copies: while
the session is open, an outstanding write carries what the front of the queue encodes to.
What has been accepted is then as many messages as the wire has frames, and what is left in the queue
(`Balanced`); which messages those were is a matter of decoding, and only the refinement
needs it. `Scheduled` says that the front of the queue is being written whenever a handler or the
user's code runs; without it a frame that cannot be encoded could be met, and close the session,
at a step that has nothing to do with it, and `ClosesForAReason` would not be
inductive.

**The argument.** `do_write` either starts a write of the front or closes, and it closes exactly
if the front cannot be encoded (`RefusesHead`). So `schedule_operations` has three outcomes. A step that
moves no frame finds the front being written already and cannot close (`QuietStep`);
only `send` to an empty queue and the completion of a write can come to a frame that is refused, and
then all before it are out.

**The refinement** assumes that every message is well formed, in the sense of `CanExchange`: it
has nothing the format drops, such as stray bits in the id or bytes behind the length. A frame
that is not arrives altered, which is what the codec does and not a matter of the
session. All other theorems hold for arbitrary frames.

### WebSocket sessions

`WebSocketSessionTheorems` proves `TypeOK`, `WorkConserving`, `CloseIsFinal` and `IsFifoLink` for
both roles, any set of messages, any number of pieces for each and any bound on sends, and `PiecesAreLive` for the
server's role.

**The invariant.** While the session is open, the pieces of an outstanding write all came from the
front of the queue (a client has copied at least one, a server may have copied none), and the last piece
going out and the completion removing the message are two steps between which the
message is both on the wire and in the queue (`Left`). Once the session is closed nothing is
pending, so no further piece goes out and a message closed in the middle never counts as sent. For
the server the invariant says of closed sessions too that no piece was taken from freed memory:
it looks at the message only when a piece goes out, and none does after `close()`. For the client
it says nothing of them, since finding 3 is such a state; the in-order link holds
nevertheless, because what a closed client copies never leaves.

The invariant and the lemma of each operation are stated of any session record with its strand and
its two histories (`Sound(s, k, acc, w)`, of which `IInv` is the case of the module's variables). The
WebSocket benchmark, which has two sessions, uses the same lemmas for both.

### WebSocket server

`WebSocketServerTheorems` proves `TypeOK`, `ReportedOnce`, `ActiveIsCurrent` and `OneAcceptLoop` for
every set of connections and any number of starts, from the module's assumption on the constants.

**The invariant.** `ReportedOnce` and `ActiveIsCurrent` speak of a queue that two kinds of strands
write to and one reads, and neither is inductive. The invariant says that no task is queued
twice (`Distinct`), and gives each connection a *life* (`Life`), which relates its session, its tasks,
its reports and its membership:
before the handshake is over nobody but the session knows of it; then its report is queued;
until that has run nobody can close the session, so that a report always precedes an erasure;
an erasure is queued at most once, by whoever set `close_notified_`, or runs inline in `stop()`. A queued report also tells how
the handshake ended (`ReportsInv`), for that decides whether the session is inserted. A
connection that waits in an accept has no session yet and waits in one only (`AcceptedInv`), so
the handshake starts once. For the accept loop: as long as the acceptor is open no accept was
aborted, so every completion goes on to the next (`NoneAborted`), and before the first start there
is none (`NotYetStarted`). Once it is closed, which is for good, an accept that is started fails at
once, so none waits (`NonePending`), and a handler starts at most the one that replaces its own
(`StopInv`): the number of loops grows only with a start.

**The argument.** Every action changes one connection's life, and one task of the queue: the lemmas
`QueueTail` and `QueueConcat` say what that does to `Queued` for all other
connections, which then keep their lives. Only `Stop` touches many. That its loop is undefined once
an element is erased under it does no harm here: a session that closes inline is erased at
once, one that closes later is erased by its own task, and one that is left out stays up and active.

### Deprecated session

`AsyncSessionTheorems` proves `TypeOK`, `BreaksOnlyByClose` and `IsFifoLink` for every set of
messages and buffer sizes and any bound on sends, from `AsyncSessionAssumption`. The invariant has
one thought in it: until the user calls `close()` the message of an outstanding write is at the
front of the queue, also when the session has closed itself after an error. So a pop finds
something to pop, and what it pops is what went out. After `close()` nothing is said of the queue,
and nothing needs to be: a closed session accepts nothing, and nothing is pending that could still
be written. That the in-order link holds although the process may go on with a broken queue
follows from the same fact.

### Serial benchmark

`SerialBenchmarkTheorems` proves `BenchmarkTypeOK`, `SuccessIsComplete` and `SamplesAreEchoes` for any
number of requests of any size with any header, for any one-to-one representation of the sequence
numbers, whatever the line does. It assumes what the program does: one thread, a session opened
once in full duplex with a read buffer of the size of a request, a line without stale bytes only in
`SamplesAreEchoes`.

**The invariant.** `BInv` contains the session's own `IInv` and the property that an idle strand leaves
nothing startable, both inherited from `SerialSessionTheorems`: each step of the benchmark is a step
of the session, or two with nothing in between. What it adds for `SuccessIsComplete`: who may set `stopped` (`FlagsOfRun`: the handler when all is measured or
given up, the timer after it has set `failed`, or `run()` itself when it is out of work), and that a session
which closed without anybody being told is short of a write (`CountersInv`). Being out of work
before the end needs `Driven` and `StartupInv`: an open session that reads always has its read
outstanding. Since handlers may run after `stop()`, it also takes `OverInv`: once the last sample
is counted the session is closed and no read is in progress, so nothing can be counted any more.

For `SamplesAreEchoes`, `EchoInv` says where the bytes of the last request are: of the
`g` bytes of it that have gone out, those under way (in the handler's chunk, in a completed read, on the line)
are exactly its first `g`, or else fewer than `g`, and then it will never be whole. The case
that makes it hard is a request queued while the write of the one before has not been reported:
that one has come back already, so the handler could go on, and the new request has to wait
(`g = 0`) for a completion that is still due. So the queue has one or two messages, the current one
last.

### WebSocket benchmark

`WebSocketBenchmarkTheorems` proves `SuccessIsComplete` and `EchoIsFifoLink` for any number of
requests, any number of pieces for each, any bound on sends, and whatever the two streams, the timer and the end of the
server do. Unlike the serial benchmark's, this `SuccessIsComplete` has no exception.

**The invariant.** `BInv` has three parts. `ClientInv` says of the client that its session is
`Sound`, how far the start has come (`StartupInv`), who may end the run (`FlagsOfRun`), that one
request is out at a time and every message read was counted or is about to be (`CountersInv`), and that the
closing of the session is known or about to be (`ToldInv`), and that after the last
sample no read is left that could bring another (`OverInv`). `ServerInv` says of the echo that its session is `Sound`
and that, while open, it has accepted for sending back all it has read but the message its handler is at. `LinkInv` relates
the two: neither reads what the other has not sent, and the server takes the messages in
the order in which they came.

**The argument.** An open session that reads has a read outstanding whenever its strand rests. If it
closes while that read is pending, the read is aborted and its handler tells the program. If the
read has completed already, with an answer whose handler has not run, the close would be silent. What
could close the session at that point is the completion of a write that failed. But a write that
failed had not gone out whole, so the server has not had the request: what the client has
read is at most what the server has sent, that at most what the server has accepted, that at
most what it has read, that at most what the client has sent, and that is less than what the client's
session accepted. So every answer there is has been handled (`NoAnswerYet`), and the read is pending.
`EchoIsFifoLink` follows from three beginnings: what the server has sent is the
beginning of what it accepted, that is the beginning of what the client has sent, and that of what
the client's session accepted.

The server's session is an instance of `WebSocketSession`, whose theorems the prover cannot use. The lemmas
`ServerHooks`, `ServerCore` and `ServerStream` show that the instance's operators are those of the module itself,
which no operation distinguishes by role but through the session record; the lemmas about `Sound`
then apply to it.

### Only model-checked

All liveness properties (`WrittenInFullDuplex`, `WrittenIfAnswered`, `AcceptedIsWritten`,
`CloseDrains`, `LossIsNoticed`, `AcceptedIsReported`, `Terminates`, `MeasuresAll`): the prover does
not handle fairness. `WorkConserving`, which is proved for all three sessions on the core, is their
safety half: what can start has been started.

Every invariant and every other property of a passing run is stated by a theorem.

## Plan

Done: all sessions, the server, the codec and the two benchmarks, each with its proofs. Left: the CAN
benchmark, as a third user of `BenchmarkClient`.

## Not modelled

* The bytes of messages on serial lines (but for the benchmark's) and WebSockets, line parameters,
  logging and formatting, memory allocation (the queue test counts allocations), statistics and
  command lines of the examples.
* The CAN benchmark, which is the same program with a frame where the serial one has a chunk and
  neither bytes to put together nor a server to stop; the interactive examples, which call the
  sessions as a user types, in orders the session models all have.
* The timer's message, which reads `received_count` while the handler may be counting
  (`serial_benchmark.cpp:194`): only what is printed depends on it. Sample counts beyond an `int`
  (`193`).
* Captures of a handler that replaces itself while it runs, and the reference cycle between a
  server session and its close handler: both are below the level of the model, in which objects
  are not destroyed.
* The kernel's filters beyond what `can_session.hpp` sets: inverted filters (bit 29 of the id), and
  filter ids with bits outside a frame id.
* `open()` on a WebSocket session that has been closed, which the library's stream is not made for.
* Data races on `is_open()` and the configuration when several threads call them.
