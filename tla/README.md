# Gloo in TLA+

Gloo is a library of collective communication algorithms (barrier, broadcast, reduce, allreduce,
gather, ...) for CPUs and GPUs, with its own transports. This directory specifies the algorithms,
the TCP transport and the rendezvous that connects it, and the other three transports (libuv,
ibverbs, dmludp) as TLA+ modules. TLC checks them on small instances; TLAPS proves the central safety properties for every
value of the constants. `PROJECT.json` lists the components, the runs, the correspondence between
definitions and source lines (`map`), the hazards and the theorems. Paths below are relative to
`gloo/`.

## 1. The system

### Parts and how they interact

An application creates a *context* of `size` ranks (`rendezvous/context.cc`, or `mpi/context.cc`)
through a *store* (hash, file, redis, prefix) shared by the ranks, and a *device* of some transport
(tcp, tls, uv, ibverbs, dmludp). The device has an event loop thread and a listener. The
context has a *pair* for every other rank. Algorithms move data through pairs, either with bound
*buffers* (two ends agree on a slot; `transport/buffer.h`) or with *unbound buffers* (a buffer may
be sent to and received from any rank; `transport/unbound_buffer.h`).

| component | state | operations | interacts with |
|---|---|---|---|
| event loop (`transport/tcp/loop.*`) | epoll set, `done_`, deferred functions, pipe | register/unregister descriptor, defer, run, destroy | calls `handleEvents` of pairs, listener, value operations; other threads wait for its ticks |
| pair, stream (`tcp/pair.*`) | `tx_`, `rx_`, `state_`, `ex_`, `fd_`, `buffers_` | send (in place or queued), read, write on EPOLLOUT, register buffer, close, signalException | event loop, socket, buffers, unbound buffers; one mutex per pair |
| matching (`tcp/pair.*`, `tcp/context.*`, `transport/context.*`) | `localPendingSend_`, `localPendingRecv_`, tallies `pendingOperations_`, `expectedNotifications_`, `pendingRecv_` | send, recv, tryRecv, recvFromAny, handlers of the notifications | all pairs of a context share the tallies under the context's mutex |
| unbound buffer (`tcp/unbound_buffer.*`, `common/memory.h`) | completion counters, abort flags, exception | send, recv, waitSend, waitRecv, abort, completions, signalException, destruction | loop thread completes; user threads wait; a timeout reaches every pair |
| connection set-up (`rendezvous/context.cc`, `tcp/device.cc`, `tcp/listener.cc`, `tcp/helpers.h`) | published addresses, sequence numbers, `seqToCallback_`, `seqToSocket_`, pair state | connectFullMesh, connect, accept, callbacks, timeouts | store, loop (deferred callbacks), pair mutexes |
| local rank (`rendezvous/context.cc`, stores) | host names in the store | set, get | store |
| bound buffer, sync mode (`tcp/buffer.*`, `Pair::setSync`) | completion counters | send, waitSend, waitRecv | pair |
| collectives (`*.cc`, `*.h` in `gloo/`) | per-rank chunk positions and data, registered regions | one call per rank and round | unbound or bound buffers |
| cuda collectives (`cuda_*`) | the same, and streams, events, pinned memory | the same | streams run beside the host thread |
| dmludp (`transport/dmludp`, `connection.h`, `send_buf.h`, `Recovery.h`) | send buffer, window, questions awaiting an answer, received offsets | write, send window, elicit and process ACK, retransmit | UDP socket; the writer holds the pair's mutex and handles the peer's datagrams itself |
| uv (`transport/uv`) | `writeOps_`, `readOp_`, handle, deferred functions | connect, send, recv, callbacks, close | libuv's loop thread; matching as in tcp |
| ibverbs (`transport/ibverbs`) | memory regions, inbox, completion queue, completion counters | create buffers, send, waits, completions, setSync | device thread or the waiting thread polls; the peer writes into registered memory |
| tls, nccl, mpi, benchmark, examples | | | |

### What is hard about it

* The loop thread and user threads meet at the epoll set, at a pair's mutex (which the loop thread
  only try-locks), at the context's mutex, and through an unbound buffer's weak pointer.
* Both ends of a pair act before they hear of each other: a send may be executed at once because
  the peer's notification came first, and still has to be announced.
* recv-from-any spans all pairs and releases its lock in the middle.
* Writes and reads stop anywhere, and are resumed by another thread.
* A connection may arrive before anybody waits for it, after the waiter gave up, or never.
* A timeout of one operation closes every pair of the context while other threads use them.
* Collectives reuse memory without waiting for their sends: they rely on answers of the peer, and a
  rank may be a round, or a run, ahead of another. Sizes that do not divide leave empty pieces.
* dmludp loses, repeats and reorders datagrams, and asks again under new packet numbers.
* libuv's events do not say which operation they belong to; ibverbs finds a region by its position.

### What makes each component correct

* Event loop: a handler is not called once it is unregistered; unregistration returns; deferred
  functions run once, in order, and no wakeup is lost.
* Stream: bytes are neither lost, duplicated nor torn; whatever is queued is eventually written; a
  send is completed only when its memory is free; the pair is a FIFO queue of operations.
* Matching: the two ends agree on what is pending; a payload finds its buffer; sends are not
  overtaken; what matches is delivered.
* Unbound buffer: every completion is reported once; an abort ends one wait; nobody touches the
  memory after an exception or the destructor; waits end.
* Connection set-up: a mesh results when nothing fails; each pair gets the connection to its peer;
  the ranks do not wait for each other.
* Local rank: the ranks of a host are numbered consistently.
* Collectives: every rank ends with the function of all inputs, in every run; memory handed to the
  transport is left alone; lengths agree; nothing is left over; nobody waits for ever.
* dmludp: acknowledgements are true, only what was received is forgotten, every question is
  accounted for, writes return.
* uv: the stream carries the messages in order, a preamble is read as one and its payload has a receive, events are attributed to the right operation,
  nothing outlives the pair, what is posted is transmitted and pairs that close are closed.
* ibverbs: a region is attributed to its slot, receives are always posted, no completion is
  unexpected or overlooked, waits end.

## 2. The modules

| module | models | uses |
|---|---|---|
| `Loop` | event loop | |
| `PairStream` | one direction of a pair, byte by byte | implements `Fifo` |
| `Fifo` | what a pair promises: a queue of operations | |
| `SendRecv` | matching of unbound sends and receives, all ranks | implements `Matching`; its channels are `Fifo` queues |
| `Matching` | what unbound buffers promise | |
| `UnboundBuffer` | waits, aborts, timeouts, failures, lifetime, at one rank | |
| `Connect` | connection set-up of a full mesh, with faults | |
| `LocalRank` | host name exchange | |
| `FullMesh` | `connectFullMesh` as a whole | composes `LocalRank` and `Connect` |
| `Schedule` | vocabulary of the collectives: instructions of a rank | |
| `UnboundAlgorithms`, `BoundAlgorithms`, `CudaAlgorithms` | the program each rank runs in each algorithm, as a function of its arguments | `Schedule` |
| `Collective` | ranks, transport and CUDA streams executing such programs | rests on what `SendRecv` and `PairStream` show |
| `Programs` | constants of `Collective` computed from a list of cases, and the reference results | the three algorithm modules |
| `DmludpBuffer` | `SendBuf` and `Recovery`: pure operators | |
| `Dmludp` | two dmludp pairs over an unreliable network | `DmludpBuffer` |
| `Uv` | two uv pairs, from connect to close | `SendRecv` as an instance: its actions are conjuncts of this module's |
| `Ibverbs` | one ibverbs pair, its buffers, the device thread; hardware and peer as environment | |
| `LoopProofs`, `SendRecvProofs`, `UnboundBufferProofs`, `PairStreamProofs`, `ConnectProofs`, `IbverbsProofs`, `DmludpProofs`, `UvProofs` | theorems about the module of that name; `ConnectProofs` also about `LocalRank` and `FullMesh` | extend it; `UvProofs` has `SendRecvProofs` as an instance |
| `MC*` | constants for TLC | |

Definitions marked "Mutant of" or "faulty variant" are not part of any specification. Each is a
plausible mistake in the operation that follows it; replacing the operation by it must violate the
property named in `PROJECT.json`.

### Loop

One loop thread (`pc`, `batch`, `running`) and `Threads` that unregister descriptors. One iteration
of `Loop::run` is `NotifyAll` (`cv_.notify_all()`), `PollEvents` or `PollTimeout`, and then one
`Dispatch` per event of the batch. A handler and its descriptor are identified. `unregisterDescriptor`
is `UnregisterDelete` (EPOLL_CTL_DEL), `UnregisterWait` (sleep on `cv_`) and `UnregisterReturn`;
on the loop thread it is `UnregisterOnLoop`, which does not wait. The constant `SpuriousWakeups` says whether
`cv_.wait` may return unnotified; `life` tells a handler whose unregistration returned after a tick ("gone")
from one whose unregistration returned early ("hasty"), which the code cannot. `Defer`, `TakeFunctions`, `ExecuteNext` and `DeferrablesReturn`
are the deferrables with their pipe: `pipe` counts its bytes, `deferred` numbers the functions.

### PairStream and Fifo

An operation is a preamble of `Preamble` bytes and, for the two opcodes with data, a payload. The
mutex of the sending pair is the variable `holder`: the posting thread ("caller") writes in place,
or the loop thread flushes `tx_`. Each `writev` is a step (`WritePart`, `WriteRest`,
`WriteBlocked` for EAGAIN or a destroyed unbound buffer), so the peer may drain the socket between
two of them. On the receiving side `ReadBytes` takes any number of bytes up to what `prepareRead`
asks for. A byte is a record of its operation and position, which is all the properties tell apart.
Socket errors are not here; the pair of this module is CONNECTED.

### SendRecv and Matching

`channel[i][j]` is everything pair i->j has been given to transmit and j has not handled: by
`FifoRefinement` of `PairStream` this is a queue. `Send`, `RecvFrom`, `TryRecv` and the handlers are
atomic since each holds the pair's mutex and, from the first access to a tally on, the context's
mutex until it returns. `recvFromAny` is `RecvFromAny`, then `RecvFromAnyFindRank` and `TryRecv` in
alternation, with other threads in between. A tally is a sequence of ranks; the code erases a tally
without ranks, which is the same as an empty one. Sends are numbered per source, destination and
slot, so that order can be stated.

`Matching` has only posted sends and receives and a `Deliver` step. The refinement mapping takes the
payloads in flight and the queue of pending sends for the undelivered sends, and every receive in
`localPendingRecv_`, `pendingRecv_` or a running `recvFromAny` for the unfulfilled receives.

### UnboundBuffer

Buffers are used by one thread each. `op[b]` is the pending operation and the queue it is in
(`localPendingSend_`, `localPendingRecv_`, `tx_`, `rx_` of a pair, `pendingRecv_` of the context).
What the peer does is open: the operation moves on at any time or never. `Acquire`, `Release` and
`HandleCompletion` are the short-lived `NonOwningPtr` in `write` and `read`; the pair's mutex is held
meanwhile, and every other operation on the pair needs it (`Unlocked`). A timeout is
`WaitTimesOut`, one `SignalExceptionExternal` per pair, each under that pair's mutex and interleaved
with everything else, and `ThrowTimeout`. One operation is pending per buffer at a time, as
the header of `unbound_buffer.h` asks.

### Connect, LocalRank and FullMesh

Every rank has a thread in `connectFullMesh`, every device a loop thread and a listener; ranks may
share a device, as they do in the tests. `AddressOf` orders the devices' addresses the way
`isInitiator` compares them. `Faults` says whether timeouts and I/O errors may happen. The callback
runs in two steps (`loop[d]`, then `ConnectCallback`), because it blocks on the pair's mutex, which
the rank's thread holds from `PairConnect` until it waits. `Unwind` is the destruction of the
context after an exception; callbacks that reach a destroyed pair are `DanglingCallback`.
An error of `connect(2)` that is known at once, which throws inside `Pair::connect` (`tcp/socket.cc:142`),
is left out; errors that come later are there. So is the end of file that an initiator would see when the
listener loses a connection while it reads the sequence number (`ReadSeq`): that initiator stays
connected to nobody.
`EnforceFails` ends the process of a device whose loop thread fails a `GLOO_ENFORCE`.

`LocalRank` is the exchange before that, with `GetBlocks` telling stores with a blocking `get` (file,
redis) from `HashStore`. `FullMesh` puts the two together: a rank takes the steps of `Connect` once it has
its local rank, while other ranks may still be exchanging host names. It adds no step of its own, so that
what is proved of each part holds of the whole (`MeshParts`).

### Collectives

An algorithm is straight-line code once its arguments (rank, size, counts, number of pointers) are
fixed, so each is an operator that returns a rank's program: a sequence of `Send`, `Recv`, `Put`
(send on a bound buffer), `WaitSend`, `WaitRecv`, `Copy`, `Reduce` and, for CUDA, tasks and events of
streams. The operators compute offsets, lengths and peers the way the source does, and keep its
order of calls. `Collective` executes them. A send on an unbound buffer is transmitted once the peer
has posted the receive (`SendRecv`); a send on a bound buffer is transmitted eagerly and lands in the
region the peer registered, whether or not the peer is done with what is there. Memory is an array of
numbers. Consecutive instructions that nobody else can observe are executed as one block.
Several runs of one object follow each other, and the caller refills the inputs in between. Every
case is explored in all interleavings of the ranks, the pairs and the streams.

### Dmludp

`snd[e]` and `rcv[e]` are the sending and the receiving half of a `Connection`, with the code's
field names. A writer is in `write2dmludp`: send a window (`SendMmsg`, `Fill`, `EmitRound`), ask
(`Elicit`), read answers (`HandleRead`), repeat what timed out (`Retransmit`), go on. `net[s]` holds
datagrams; `Faults` says whether they are lost, duplicated or overtaken and whether `sendmmsg` may
fail, as a whole: that it sends some messages before it fails is left out. A write begins when both ends
are connected, since the code writes the sequence number and reads it back before it reports a connection
(`dmludp/helpers.h:59-83`, `163-181`); that exchange is a guard of `StartWrite`. Windows and priorities keep the arithmetic of `Recovery.h` and `process_ack`; reading
`norm2_vec` out of bounds gives any value of `OutOfBounds`. The assembly of received bytes into
operations (`RecvBuf`, `handleread`) is not modelled.

### Uv

User threads call `Send`, `RecvFrom`, `RecvFromAny`; each action conjoins the one of `SendRecv` and
adds what uv does with the messages: an entry of `writeOps_`, a deferred function, one or two write
requests, bytes on the wire, a read segment of the peer. All callbacks are steps of the loop thread.
Connecting has both roles, the parked connection or callback, errors and the initiator's timeout.
`Close`, end of file and errors lead to CLOSING and CLOSED; `DestroyReturns` is the end of the
destructor. A payload has the length of the posted receive, so that `GLOO_ENFORCE` at `uv/pair.cc:248`
is not at issue. A read callback brings any number of bytes that the read segment has room for (`ReadSome`).

The stream properties speak of three views of what is under way: the bytes on the wire, the parts
(preamble, payload) in requests and in functions yet to run, and the messages in the `channel` of
`SendRecv`. While an end is open and has no error (`Flowing`) they are equal; after that the writer may
stop anywhere, but what is on the wire still continues what was read, and the events that come still
belong to the operations at the front of `writeOps_`. An action that handles a message takes the step of
`SendRecv` for it, whose guard is that it is at the head of the channel; `ReadsNextMessage` shows that
this guard, and the one that a receive is pending, always hold, as `onRead` enforces.

### Ibverbs

`RegionArrives` and `WriteArrives` are what the peer's `createRecvBuffer` and `send` do to this side,
`Acknowledge` the completion of a send. `HandleEvent`, `Arm`, `Poll` and `HandleBatch` are the device
thread; in synchronous mode `UserPoll` and `UserHandleBatch` are the thread that waits. A batch is
handled in one step: `m_` is held (or one thread uses the pair) and the batch's effects on counters,
regions and posted receives add up. `stuck` marks a thread that waits for a mutex it holds,
`raced` a switch to synchronous mode under the device thread. `WaitTimeout` lets go of the buffer's mutex
and calls `signalIoFailure` in one step. Completions have the status IBV_WC_SUCCESS.

## 3. What TLC checks

| run | instance | distinct states | shows |
|---|---|---|---|
| `loop` | 3 handlers, 2 threads, batch 2, 2 deferrals, spurious wakeups | 130k | `NoCallAfterUnregister`, `DeferredInOrder`, `UnregisterReturns`, `DeferredRuns` |
| `sendrecv` | 2 senders (3 sends), 1 receiver (2 receives) | 12k | `RecvsAccounted`, `BalanceAgreed`, `NonOvertaking`, `NeverHeldBack`, `NoMissedMatch`, refinement of `Matching` with its fairness |
| `stream` | 4 operations, preamble 2, socket 3 bytes | 124k | `StreamIntact`, `CompletedIsWritten`, refinement of `Fifo`, `EverythingIsHandled` |
| `connect` | `FullMesh`: 3 ranks on 2 hosts, 2 on one device, blocking `get`, timeouts and I/O errors | 284k | `RoutedToPeer`, `MeshConnects`, `LocalRanksAgree` |
| `unbound` | 2 buffers with 1 operation each, 1 abort of each kind, 1 peer | 91k | `CompletionsReported`, `AbortEndsOneWait`, `NoUseAfterDestroy`, `NoIoAfterThrow`, `WaitsEnd` |
| `unbound_signal` | 1 buffer, 1 operation, 2 peers | violation | a waiter is not told of a failure |
| `collectives` | 63 cases, 1 to 5 ranks (broadcast up to 7), most run twice | 1.25M | `ResultsCorrect`, `SendsStable`, `ExchangesMatch`, `BarrierHolds`, `NeverStuck` |
| `reduce_scatter` | 2 ranks, 4 elements, 2 for each | violation | a rank reduces what its peer has overwritten |
| `dmludp` | a payload of 2 windows and a notification, 1 fault | 269k | `QuestionsAccountedFor`, `AcksAreTrue`, `DroppedIsReceived`, `WritesReturn` |
| `uv` | 2 ranks, 1 send, 1 receive, 2 slots, 1 fault | 91k | `StreamAgrees`, `ReadsNextMessage`, `EventsMatchOps`, `NoUseAfterDestroy`, `Drains` |
| `uv_connect` | 2 ranks, 1 connection error | violation | a failed connect never returns |
| `ibverbs` | 2 slots, 2 receives posted, 2 sends, 3 arrivals, 1 timeout | 397k | `RegionsRight`, `BenchIsFull`, `CompletionsExpected`, `WaitsEnd` |

The type invariant of `SendRecv`, `PairStream`, `Connect`, `LocalRank`, `Dmludp`, `Uv` and `Ibverbs` is
the first conjunct of one of its invariants (`RecvsAccounted`, `StreamIntact`, `RoutedToPeer`,
`LocalRanksAgree`, `QuestionsAccountedFor`, `StreamAgrees`, `RegionsRight`); those of `Loop` and
`UnboundBuffer` are proved.

**Bounds.** The constants that only bound the exploration are `MaxDefer` (functions deferred),
`MaxSends` and `MaxRecvs` (operations per rank), `MaxOps` and `MaxAborts` (per buffer), `MaxFaults`,
`MaxRetries` and `MaxQueue` in `Dmludp`, `MaxFaults` in `Uv`, `MaxSends`, `MaxArrivals` and
`MaxTimeouts` in `Ibverbs`. They are
large enough for the cases that matter: two threads in `unregisterDescriptor` and an event of each in one
batch; a function deferred while earlier ones are taken and executed; two sends in one direction with a
receive before, between and behind them; two `recvFromAny` competing for one send; operations that do not fit into the socket, so
that each may be cut in its preamble and in its payload and be finished by the other thread; two
threads timing out against each other while a pair fails. Where an invariant is proved, the theorem
removes the bounds (section 4); in particular `unbound` has one peer, and the visit of several pairs
after a timeout is covered by `ThrowEndsIo`, sends in both directions at once by the theorems of
`SendRecvProofs`, several operations in flight on a uv pair by those of `UvProofs`, and more ranks and devices than three and two by those of `ConnectProofs`. The collectives have counts that do not divide by the ranks, chunks that are empty,
ranks that are not a power of two (3 in every family; 5 in the ring, 5 and 7 in the broadcast tree),
roots other than 0, several pointers. Larger instances cannot be explored in all interleavings and are
not in the run: halving-doubling with more than 4 ranks (nested binary blocks), bcube with more than 4,
ring allreduce with more than 5. Of reduce-scatter the run has the lengths `<<1, 3>>` and
`<<1, 1, 3>>`, for which it is right (finding 3). In `dmludp` a
payload needs two windows, so a question of the first is repeated, answered late and answered twice
before and after the second begins. In `ibverbs` three arrivals wrap an inbox of two and three sends
overflow the send queue. The sizes 3, 2 and 1 in `Dmludp` stand for
SEND_BUFFER_SIZE 1350 (`send_buf.h:9`), 160 offsets in an ElicitAck (`connection.h:794`) and
INITIAL_WINDOW_PACKETS 8 (`Recovery.h:9`); the arithmetic is the same.

**Deadlock.** It is checked in `Loop` and in `Collective`, where ranks that are done stutter
(`Finished`). In the other models the system may stop: all bounded operations
are posted, the ranks have connected, the buffers are gone.

**Fairness.**
* `Loop`: weak fairness of the loop thread and of threads inside `unregisterDescriptor` (the
  scheduler runs them; handlers do not block for ever). Strong fairness of polling a batch with the
  pipe in it: a level-triggered descriptor that stays readable is reported again, and epoll rotates
  its ready list when a batch is full. Nobody has to register, unregister or defer.
* `SendRecv`: weak fairness of handling the messages of each pair and of a running `recvFromAny`.
  Nobody has to post.
* `PairStream`: weak fairness of a write in progress, of the level-triggered loop threads, and of the
  receiver registering the bound buffers it is sent data for (`getBuffer` busy-waits for that).
* `Connect` needs none: `MeshConnects` is stated as an invariant of the states in which nobody can
  take a step but by giving up (`Quiescent`), and every step of connecting happens a bounded number of
  times.
* `UnboundBuffer`: weak fairness of waiting threads (timeouts included) and of `write` / `read`
  returning; strong fairness of taking a pair's mutex in `signalExceptionExternal`, since the loop
  thread takes and releases it (with try_lock) repeatedly.
* `Collective` needs none: every step is taken once, so `NeverStuck` makes every call return.
* `Dmludp`: weak fairness of the handshake, of a write that may begin, of each step of a writer that
  changes where it is, and of handling a datagram that is there; strong fairness of repeating a
  question that timed out (the clock goes on while the writer looks at other things). Nothing makes
  the network deliver; faults are bounded.
* `Uv`: weak fairness of libuv's loop and the kernel, of a thread in `connect` that was woken, and of
  a running `recvFromAny`. Nobody has to post or close.
* `Ibverbs`: weak fairness of the hardware, of the device thread, and of threads inside `send` or a
  wait. Neither the peer nor the application has to do anything, and no timeout has to happen.

## 4. What TLAPS proves

All theorems hold for every value of the constants, under the named `ASSUME`s of the modules (finite
set of ranks, natural bounds, distinguished "no peer" and "no handler" values).

* `LoopProofs`. `UnregisterIsSafe`: `[]NoCallAfterUnregister`, spurious wakeups of other threads included.
  The invariant `CallInv` adds that the loop thread holds no event at the top of an iteration
  (`IdleBetweenTicks`), that a handler being unregistered is not in the epoll set
  (`NotPolledAgain`), that threads work on distinct handlers (`TargetsOwned`), and the key fact
  `NotifiedSafe`: a notification is only sent at the top, so a notified thread's handler is in
  no batch. `DeferIsFifo`: `DeferredInOrder` is inductive with `TypeOK`, by the algebra of
  concatenation.
* `SendRecvProofs`. Five theorems from one invariant `IInv`: types; `AllBalanced`, the two
  equations of `RecvsAccounted` and `BalanceAgreed` together with `NeverHeldBack`, per source,
  destination and slot; and `NoMissedMatch`. The equations alone are not inductive: when a
  notification is dropped because it is expected, or a send is executed because a receive is known,
  one needs that the opposite list has no entry, which is `NeverHeldBack`. The proof rests on
  lemmas about `Occurrences` (how counting in a sequence changes under `Append`, `Tail` and
  `RemoveAt`).
  `SendsNeverOvertake`: `NonOvertaking` says of each payload of a channel that its number is what was
  delivered before it plus the payloads in front of it, and of each pending send that it comes behind
  all of those. It is inductive with `IInv`, which is needed where a send is transmitted at once: a
  receive is known, so by `NeverHeldBack` no earlier send is pending.
  `DeliversOnlyWhatMatches`: every step is a step of `Matching` or a stutter (`Promise!Safety`, the
  refinement without its fairness). The mapping is the one TLC uses. The invariant is `IInv`,
  `NonOvertaking` (a delivered payload is the oldest undelivered send), `HeldInv` (a receive is in one
  place only: `localPendingRecv_`, `pendingRecv_` or a running `recvFromAny`, and has a number of its
  own) and `SentInv`. Each action is shown to post or fulfil exactly one receive, or to move it from
  one place to another (`Posts`, `Fulfils`), and likewise for sends.
* `UnboundBufferProofs`. `Counted` (completions and interruptions) gives `CompletionsAreReported`
  and `AbortsEndOneWait`; `Ownership` gives `DestroyedIsUnused` and `ThrowEndsIo`. The latter
  needs to know which pairs could still touch a buffer: `Failed` (a signalled buffer's pair is
  closed), `Told` (the pairs a timed out thread has visited are closed) and `Closed` (after the
  throw the pair of the operation, or all pairs that may match it, are closed).
* `PairStreamProofs`, for any operations, any size of the preamble and any capacity of the socket.
  `StreamInv` is `StreamIntact` (what was read of the current operation, what is in the socket and
  what is still to be written are the bytes of the operations not yet handled, in order), that
  operations are posted once, `Writers` (an operation is written in place only while `tx_` is empty,
  so the two writers cannot mix their bytes) and `CompletedFirst`. `StreamIsFifo` is the refinement
  of `Fifo`: `readComplete` finds the oldest operation because all of its bytes, and no others, have
  been read.
* `ConnectProofs`, for any number of ranks, any placement on devices and any faults. `RouteInv`: no
  two pairs of a device share a sequence number, a rank's published addresses no longer change, and
  every connection, callback, parked socket and descriptor belongs to the pair its sequence number
  names; this gives `ConnectRoutesToPeer`. `MeshInv` adds that nothing on its way to a pair is lost: a
  callback and a socket for the same sequence number are never both parked (`NotBothParked`), what was
  dialled or is awaited arrives (`DialledArrives`, `AwaitedArrives`), and a pair is closed only for a
  reason. `ConnectMesh`, the absence of deadlock, follows by a minimal counterexample: every rank
  connects in the order of the ranks, so a rank that waits, waits for one that itself waits for a
  lesser rank.
  `LocalRanksAreRight` is about the exchange of host names that comes before, under the hypothesis
  `GetBlocks` (the store's `get` waits for the key, as that of `FileStore` and `RedisStore` does; with
  `HashStore` the property is false, see section 5): a rank has counted the ranks of its host among those it has read.
  `FullMeshIsRight` carries the three over to `FullMesh`.
* `IbverbsProofs`, for any number of slots, buffers, operations and timeouts. `IbInv` consists of
  `TypeOK`; `Pollers` (which of the two threads has a batch); `Accounted`, per slot (every completion on
  its way belongs to a buffer, a pending send, a region that is kept); `Queues` (the send queue and the
  completions of sends, and the receive queue and the completions of receives, never exceed
  `kMaxBuffers` each); and `Positions`: counting receives from the first unhandled one, every region
  is in the inbox at its number modulo `kMaxBuffers`, and so are the receives still posted. This is
  preserved since the numbers of receives that are outstanding differ by less than `kMaxBuffers`
  (`NearApart`), which is `Queues`. `Positions` and the equality in `BenchIsFull` are stated, as in the
  code's own terms, for a pair that has neither failed nor been switched to synchronous mode under the
  device thread. Seven lemmas on `Count` and five on remainders carry the arithmetic.
* `DmludpProofs`, for any operations, sizes of segments, questions and windows, and any numbers of
  losses, duplicates, reorderings and repetitions. One invariant `IInv` gives `QuestionsStayAccountedFor`, `AcksStayTrue`
  and `DroppedWasReceived`. It says of a sender that the segments in its buffer are unacknowledged and
  cut from bytes before `off` (`BufOK`), of its windows that they are numbers and those kept for `rollback` bounded (`WindowOK`),
  of its questions that each has exactly one number with a timer, that every number leads back to
  its question, and that the next number is a new one (`Accounted`), and of
  `write2dmludp` that it never counts more bytes than the operation has (`WritingOK`); of a receiver
  that the report in `recv_hashmap` is true (`ReceiverOK`); and of every datagram on its way that its
  number is an old one and, while that number is awaited, that it covers what was asked under it
  (`QuestionOK`, `ReplyOK`). Until both ends are connected nothing but handshakes exists
  (`Pristine`). What makes late and duplicated answers harmless is `QStep`: in every step an old
  number stays out of use once it was answered, and until then stands for the same offsets. An
  answer drops only segments that were received or have used up their transmissions, because a missing segment
  with its offset in bounds is given priority 3 (`Kept`). Sums, selections and windows are recursive
  functions; that such a function exists, and each of its values, follows from the least natural
  number at which it would not (`LeastNatural`).
* `UvProofs`, for any lengths of preambles and payloads, any numbers of operations in both directions,
  any splits of reads and any faults. `UvInv` consists of the invariant `IInv` of `SendRecvProofs`, types,
  and of each rank: `LinkAt`, which handle, parked connection, `connect` call and functions go with
  which state of the pair (a pair that is connected has only writes to run; one that begins to close has
  exactly one `close`, and behind it and after it only writes that were posted late); `PeersAt`, that a
  listener has no handle before the initiator is connected; `QuietAt`, that nothing is queued, written
  or read before a pair is connected and no request is left when it is closed; and `DataAt`, for the
  direction that the rank writes: libuv has written the first requests and no others (`DoneFirst`), the
  stream (`Stream`) and the events (`Events`). The stream property alone is not inductive: that `onWrite`
  meets the right operation needs `Events`, that a closed handle has no requests needs `LinkAt`, that a
  fresh connection starts with an empty wire and a whole preamble to read needs `QuietAt`, and that a message
  handled is one of the protocol needs `IInv`. The proof has three layers. The bytes and parts are
  concatenations made with `FlattenSeq`; lemmas say what it returns for a longer and for a shorter
  sequence (existence and values of its recursive function again by `LeastNatural`). Over them, one lemma
  per effect on a direction: post, run a function, write a request, complete one, read, handle, stop
  (`DataPost`, `DataRun`, `DataWrite`, `DataOnWrite`, `DataRead`, `DataHandle`, `DataStop`), and one
  per effect on a link. Then one lemma per action (`StepConnect`, ..., `StepRead`). `UvFollowsProtocol` is the
  refinement of `SendRecv`; with it `SendsNeverOvertake` and `DeliversOnlyWhatMatches` carry over to the
  libuv transport (`UvSendsNeverOvertake`, `UvDeliversOnlyWhatMatches`).

Checked by TLC only: every liveness property, and with it the fairness part of the refinement of
`Matching` (liveness under fairness is beyond the prover); the properties of `Collective`. The programs of the collectives use folds over sequences, so that what they compute for every
number of ranks needs induction over data.

To be provable, some invariants are written without recursion over sequences: `StreamIntact` and
`NonOvertaking` speak of positions, and `Ibverbs` counts completions with `Count`, the cardinality of a
set of positions. `DmludpBuffer` and `Dmludp` write their loops (sums of sizes, the choice of segments, the
growth of the window) as recursive functions.

## 5. Findings

With a run that exhibits the behaviour:

1. `unbound_signal`: `signalException` does not reach unbound buffers in `tx_` and `rx_`
   (`tcp/pair.cc:1041`), against "signal all pending buffers" (`tcp/pair.h:319`). Their waiters end
   with a timeout (`WaitsEnd` still holds).
2. `uv_connect`: `connectCallback` does not notify the thread in `Pair::connect` of an error
   (`uv/pair.cc:110`), against "the callback is called with an associated error event"
   (`uv/device.cc:358`): `connect` never returns.
3. `reduce_scatter`: `ReduceScatterHalvingDoubling` sends from `ptrs_[0]` (`reduce_scatter.h:341`), does
   not wait for the send, and copies within `ptrs_[0]` at the end of the same run
   (`reduce_scatter.h:415`), against the assertion of `reduce_scatter_test.cc:105`. Of the distributions
   tried, `<<2, 2>>`, `<<3, 1>>`, `<<1, 1, 1>>`, `<<1, 1, 2>>`, `<<1, 2, 1>>` and `<<1, 1, 1, 1>>`
   violate `SendsStable`, `<<1, 3>>` and `<<1, 1, 3>>` do not. Lengths with an empty rank in the middle
   (`<<1, 0, 4, 3>>`) deadlock.

Reproducible with the modules, without a run of their own:

4. `Loop` with `SpuriousWakeups = TRUE` violates `NotCalledOnceReturned`: `unregisterDescriptor` relies
   on `cv_.wait` without a predicate (`tcp/loop.cc:139`).
5. `Connect` with `Faults` violates `StateMovesForward`: a connection established after the connect
   timeout reopens the closed pair (`tcp/pair.cc:166`), against "State can only move forward"
   (`tcp/pair.h:280`). The next event of the pair fails `GLOO_ENFORCE(ex_ == nullptr)` on the loop
   thread (`EnforceFails`).
6. `LocalRank` with `GetBlocks = FALSE` violates `LocalRanksAgree`: `HashStore::get` does not wait for
   the key, so local ranks may collide (`rendezvous/context.cc:70`).
7. `Collective`, case `InPlace("bcube", 4, 4)` run twice, violates `ResultsCorrect` and `SendsStable`:
   at the end of a run a rank waits for its peers of step 0 only (`allreduce_bcube.h:426`), while
   its block for a peer of step 1 may still be queued. With fewer elements than ranks
   (`InPlace("bcube", 4, 3)`, also `cuda_bcube`) both are violated in a single run: groups get at least one
   element per peer, so blocks overlap and a rank reduces into what it is still sending. With 6 ranks
   and base 2 the result is wrong in a single run, against `allreduce_bcube.h:251`.
8. `AllgatherRing` run twice violates `ResultsCorrect`: the next run's data lands in the neighbour's
   output while its caller still reads it (`allgather_ring.h:73`).
9. `CudaBroadcastOneToAll` with root pointer 1 and two pointers, and `CudaAllreduceLocal` with the
   device order `<<1, 0, 2, 3>>`, violate `ResultsCorrect`: the local broadcast is not ordered behind
   the copy or the reduction (`cuda_broadcast_one_to_all.cc:149`, `cuda_allreduce_local.cc:58`).
   The passing run has the algorithms of 3 and 7 to 9 in cases in which they are right in every
   interleaving: reduce-scatter as said above, bcube with two and three ranks twice and with four ranks
   and five elements once, the ring allgather once, root pointer 0, and the local CUDA allreduce with
   the device orders `<<0, 1>>` and `<<2, 3, 0, 1>>`.
10. `Dmludp`: a segment that is reported missing is not sent again; `send_mmsg` returns before it
    emits, or its loop does not end (`connection.h:634-648`). The predicate `Bereft` names these states,
    and `WritesReturn` excludes them. The comment at `connection.h:610` ("the return is 0") does not
    match `send_buf.h:463`, which returns -1.
11. `Ibverbs`: `getMemoryRegion` in asynchronous mode, and `sendMemoryRegion`, call `signalIoFailure`
    with `m_` held, which locks it again (`ibverbs/pair.cc:280`; `SelfDeadlock`); and `setSync` may
    switch while the device thread handles completions (`raced`), against "this is ignored"
    (`ibverbs/pair.cc:214`).

Seen while reading, not modelled: the listening side of a uv pair has no connect timeout
(`uv/device.cc:317`); the connect timer of uv may race the last write (`uv/device.cc:404`);
ibverbs' completion handlers are never removed, and waiters for a region are not told of a failure;
`RecvBuf` and `handleread` of dmludp read out of bounds; `rollback()` may return a window of 0
(`Recovery.h:179`); the headers of dmludp's messages are owned by a local of `send_mmsg`
(`hdrs`, `connection.h:655`) and destroyed when it returns, before `sendmmsg` reads them
(`dmludp/pair.cc:885`); `GLOO_ENFORCE_GE(1, sendCompletions_)` has its arguments the other way round, so
zero completions pass and the counter becomes negative (`tcp/buffer.cc:92`).

## 6. Not modelled, and the plan

Not modelled, for good: socket options and address formatting, logging, sysfs parsing, arithmetic
kernels, NCCL, MPI, OpenSSL, benchmarks and examples. Time is abstract: a timeout may fire whenever the
code waits. Memory contents are abstract in the transports (a byte is its position) and numbers in the
collectives. Not modelled of the new transports: uv's unbound buffer (the tcp one without abort and
exceptions), how dmludp assembles what it received, ibverbs' queue pair transitions, error statuses of
work completions, and destruction.

Plan, in this order:

1. *Bound buffers and synchronous mode* of tcp: `Buffer::send`, `waitSend`, `waitRecv`, `setSync`,
   unregistration during I/O, the completion counters (`tcp/buffer.cc:92`).
2. *Locks*: the pair's and the context's mutex together with the ticks of `Loop`: who waits for whom
   when a write fails inside `Pair::send` (hazard at `tcp/pair.cc:745`).
3. *Stores and context factory*: set, get, wait, prefix, `ContextFactory::makeContext`.
