# hcurl: specifications, model checks and proofs

hcurl is a Haskell HTTP client. It runs libcurl's multi interface on libuv
loops ("agents"), moves request and response bodies through bounded C ring
buffers, and talks to the loops through a wait-free queue. This directory
models the concurrent core in TLA+, checks it with TLC on small instances and
proves every safety property that holds with TLAPS, for instances of any size.

Run a check with `tlc -config <run>.cfg <module>` (`PROJECT.json` lists the
runs) and the proofs of a component with `tlapm <component>Proofs.tla`.

## Inventory

### The parts and their state

| Part | Source | State | Operations |
|---|---|---|---|
| Body stream | `cbits/stream.c`, `Internal/Body.hs`, `Internal/Waiter.hs` | ring of chunks; `paused`, `closed`, `terminal_set`, `terminal_code`, `cancel_sent`, `finished`; one waiter | libcurl write and read callback; `try_read`, `wait_read`, `try_write`, `wait_write`, `finish_upload`, `flush_resume`, `close`, `cancel_waiter`, `complete` |
| Control channel | `cbits/message_chan.c`, `mpsc.c`, `Internal/MPSC.hs` | producer gate (closed bit and count), reference count, queue slots, wake-up of the loop | `enter`, `leave`, `close`, `enqueue_outer_message`, `mpscq_enqueue`, `mpscq_dequeue` |
| Reactor | `cbits/message_chan.c`, `cbits/extras.c` | hash table of registered transfers, their results | execute, cancel, resume, complete, shut down, drain |
| Event loop | `cbits/curl_uv.c` | poll handle of each socket, timer | `socket_callback`, `on_timeout`, `curl_socket_function`, `curl_timer_function`, `agent_shutdown` |
| Agent | `Internal/Agent.hs` | `contextStatus`, the loop's thread | `sendMessage`, `stopAgent`, `run` |
| Managed pool | `Internal/Agent.hs` | workers, leases, demand, spawn time, closed | `acquireLease`, `leaseDone`, `controllerTick`, retire, `closeAgent` |
| Once | `Internal/Once.hs` | pending, running, done; result cell | `runOnce`, `finishOnce` |
| Transfer | `Internal/Transfer.hs`, `Internal/Result.hs` | `doneRequest`, `leaseReleased`, resources | start, finish, cancel, close |
| Headers | `cbits/headers.c`, `Internal/Headers.hs`, `Streaming.hs`, `Internal/Response.hs` | `current` and `completed` block, `ready`, `response_available`, `transfer_completed`, one waiter | `header_callback`, `mark_body_started`, `mark_complete`, `wait`, `cancel_wait`, `snapshot`; `awaitResponseHead`, `getBufferedResponse` |
| Buffered body | `cbits/simple_string.c`, `Internal/Response.hs` | growing buffer with a limit | create, write callback, take |
| Metrics | `cbits/curl_metrics.c`, `Internal/Metrics.hs` | counters and times | add bytes, finish, snapshot |
| Rest | options, requests, bindings, `hcurl-conduit` | straight-line code | |

### How they interact

A user thread takes a lease from the pool, sends EXECUTE to its worker's agent
and gets streams. The reactor runs libcurl; its callbacks fill or empty the
ring under `stream->mutex`. A full (or empty) ring pauses libcurl; the user
thread that makes room sends RESUME through the control channel. A user thread
that must wait gives C a `StablePtr` to an `MVar` and sleeps; whoever changes
the stream detaches the waiter under the mutex and fires it after the unlock.
`closeBody` marks the stream, sends CANCEL and waits for `doneRequest`. STOP
closes the gate, finishes all transfers and drains the queue. Closes run
through `runOnce`.

### What is hard here

* Wake-ups: a check and the registration after it are separate critical
  sections, and a wake-up is fired outside the one that decided it.
* Ownership of a `StablePtr` between an exception in Haskell and a wake in C.
* Backpressure: `paused`, libcurl's own pause and the RESUME on its way are
  three pieces of state, and the queue in between may be full.
* Shutdown while producers are halfway through the gate and the queue.
* Header blocks that look final and are not: which may be shown, and when.
* Asynchronous exceptions in code that is masked but blocks.
* A clock read before a lock; sizes and counters at the end of their range.
* Several transfers in one table: collisions, growth, control messages that
  arrive after their transfer has ended, an ID used twice.
* libcurl calling back into the loop's state while it is being driven, and
  handles whose memory lives on for some turns after they were closed.

`hazards` in `PROJECT.json` lists each at its line, with the properties for it.

### What makes each part correct

* Stream: no lost wake-up, single ownership of a waiter pointer, body in order
  and complete before its end is reported, no stall under backpressure, a
  final and consistent end, close and stop free everyone.
* Channel: a FIFO that loses nothing, tells callers the truth, is used only
  while alive, and can always be shut down.
* Once: one run at a time, one result, no caller left waiting.
* Headers: a caller gets one whole block, the last one of the transfer, as
  soon as it is known to be that, and in every case an answer.
* Reactor: an ID leads to its transfer, an easy handle has one owner and is
  cleaned up once, nothing libcurl borrows is released early, a transfer is
  aborted only by a stop or a CANCEL with its ID, every close and stop ends.
* Event loop: no handle closed twice or used after free, every socket polled
  for what libcurl wants, no timeout forgotten, a teardown that ends.
* Response: the caller gets all bytes of the body, and of a streamed one a true
  count of them.
* Pool: a drain interrupts nobody, each reactor has an owner until it has
  stopped, none is left after a close that was not interrupted, drained workers
  go away.

## Modules

`Stream` holds the state and the operations both directions share;
`DownloadStream` and `UploadStream` extend it. `ControlChannel` is the abstract channel and `MessageSender` the
implementation that refines it. `Response` extends `Headers` with the body and
the metrics, so that a whole call is one system. `Reactor`, `EventLoop`, `Once`
and `ManagedPool` stand alone. A `*Proofs` module holds the theorems of a
component. Each `MC*` module is what TLC runs, with a symmetry set where one is
used. Names with a suffix such as
`HasSpaceOffByOne` in front of a definition are deliberately wrong variants of
it; they are not used by any specification and exist to test that a property
notices.

### Stream, DownloadStream, UploadStream

Variables carry the names of the fields of `hcurl_stream_s`. `ring` is the
sequence of queued chunks (`head`, `tail` and `count` of the C ring). `chan`
is the part of the agent's queue that is about this transfer. `transfer`,
`code`, `result` and `done` are the reactor's side: the registry entry, the
code being reported, `hs_easy_data` and `doneRequest`. `owner[t]` says who owns
wait pointer `t`; `wake[p]` is a waiter thread `p` has detached and not fired.

One step is one critical section of `stream->mutex`, one enqueue, or one
wake-up. `pc[User]` follows `readBody` or `feedBody`/`endBody`:

    try -> flush -> enqResume -> resumed          (try_read/try_write, then flush_resume)
                       |-> unresume -> delay -> flush     (queue full: retry)
                       |-> localComplete -> localFire     (sender closed)
    try -> wait -> blocked -> try                 (wait_read/wait_write, awaitOneShot)
                     |-> unregister               (asynchronous exception)
    try -> finish                                 (EOF or error: wait for doneRequest)

`readLock` and `uploadLock` admit one caller, so one `User` process is enough;
every caller of `closeBody`, `abortBody` or a cleanup is a process of
`Closers`. The reactor's actions are `ExecuteOk`/`ExecuteFail`
(`execute_transfer`), `CancelTransfer`, `ResumeTransfer`, `StaleControl`, the
callbacks of the direction, `CurlDone` (`check_multi_info`), the steps of
`finish_detached_transfer` (`Normalize`, `SetResult`, `CompleteTransfer`,
`CompleteFire`, `WakeResult`), `Shutdown` and `Drain`.

Abstractions: a chunk is its index (a download chunk is never split; an upload
chunk is `ChunkLen` units, of which one callback may copy any number). The
enqueue is one step that succeeds, or fails because the queue is full or memory
short (any time) or the sender closed; `MessageSender` models it in detail. The
gate's close, during which late producers still get in, is one step here: what
such a producer adds is drained like what was added just before. An upload
writer is not masked, but it does nothing between its blocking points that an
exception could cut in half, so interruptions are modelled where it sleeps. Left
out: `feedBody` of zero bytes (returns `ok` at once), a chunk longer than a
Haskell `Int`, the finalizer of a stream (in `MessageSender` as `Release`), and
header readiness, which is `Headers`.

`DelayInterruptible` says whether an asynchronous exception may hit the
`threadDelay` between two attempts of `flushResume` (and make `runOnce` retry a
close). It is TRUE for the safety runs and the proofs cover both values;
liveness of a retried operation is only claimed when the retry is not cut off.
`ForeignControl` says whether somebody else than the stream sends a RESUME
(`resumeRequest`) and a CANCEL (`requestCancel`) for the transfer; it is FALSE
only in `download_live`, where such a message could do the work the stream
itself has to do.

### ControlChannel and MessageSender

`ControlChannel` is what `stream.c` and `Agent.hs` rely on: `Accept` appends a
message, `Take` hands the oldest to the reactor, `Close`, `Seal` and `Destroy`
end the channel; nothing is accepted after `Seal`, and `Destroy` needs an empty
queue.

`MessageSender` takes one step per atomic access. `closedBit` and `inside` are
the two halves of `sender->state`; `mutex` and the `rpc` values `relock`,
`look`, `sleep`, `asleep` are `message_sender_close` with its condition
variable, spurious wake-ups included. `count`, `head`, `tail`, `buffer` are
`struct mpscq`; `head` wraps around at `Word`, the modulus of `size_t`.
`pending` is the coalescing `uv_async_t`. `status` is `contextStatus`, held by
one sender at a time. `references` counts the sender's owners: message context,
`AgentContext`, one per stream. `tickets` and `taken` are history: the order of
`fetch_add` on `head` and the order of dequeues. The refinement maps `queue` to
the tickets not yet taken and `phase` to the gate's state. Atomics are assumed
sequentially consistent.

### Headers

Variables carry the names of the fields of `header_data_s`; a buffer is the
sequence of its lines, and a line its block, its kind and, for a status line,
its status and whether it contains "connection established".
`HeaderCallback(line, ok)` is `header_callback`, with `ok` the success of
`append`; `StatusLine`, `Field`, `BlankLine` and `Trailer` are the lines libcurl
may deliver next. After the blank line of a 302, a 401 or a proxy's reply
libcurl goes on to another response (`following`) or not; after a 100 it must.
`BodyStarts` and `MarkComplete` are called by the stream, and so happen only
with `mode = "stream"`; `Finish`, `MarkComplete`, `Fire` and `WakeResult` are
`finish_detached_transfer` as far as headers are concerned. The user runs
`awaitResponseHead` (`Wait`, `Woken`, `Snapshot`, then `CompletedHead` when
there was no status line) or `getBufferedResponse` (`CompletedHead`). Each
transfer has one waiter, so `HEADER_WAIT_INVALID` does not occur and the
pointer's owner is one variable.

An assumption on libcurl is built in: no block follows one that is published
early. libcurl keeps to it except where it retries by itself after a final
looking status (417 to a request with `Expect`) or goes on in another protocol
after 101.

### Response

`Response` puts the body behind the head. A buffered call (`BufferWrite`) has
`len` and `capacity` of its `simple_string_t` in a `size_t` of `Word` values;
`Grown` is the doubling loop and `overrun` records a write past the memory. A
streaming call has `count` chunks in its ring; the write callback is two steps,
`StreamWriteBegins` (the head is published, its waiter fired) and `StreamWrite`.
`ReadChunk` needs a caller that has its response. `Resume` is the RESUME of the
reader or of an upload of the same transfer, whose `CURLPAUSE_CONT` continues
both directions although the ring may still be full, so a postponed chunk is
postponed again. `sent` is history: the bytes accepted. `download_progress` is
kept by `add_bytes` for a stream. For a buffered call `curl_metrics_finish` stores
`CURLINFO_SIZE_DOWNLOAD`, which libcurl counts before it decodes the content
(Easy.hs:278 turns decoding on for every request) and which is 0 when libcurl
cannot tell, so `StoredSizes` is any value and nothing is claimed of it.
`TakeBuffered` and `Completion` report the counter. `Headers` has no
specification of its own: its actions are the head's part of this one.

### Reactor

`buckets` is the hash table, each chain a set; `Hash` is any function of the
ID, since no property depends on which. `Find`, `Insert`, `Remove` and
`Resized` are the `registry_*` functions; a growth that finds no memory leaves
the table as it is. `FinishOrder` is the order inside
`finish_detached_transfer` and `fail_unregistered_transfer`: result, streams
and `curl_easy_cleanup`, and last the wake-up of the owner. `todo` is the set
of chains `shutdown_message_context` has detached. `msgs` are the transfers
libcurl is done with and `check_multi_info` has not read. `user[t]` follows
`startTransferWith`: "new" until EXECUTE is accepted, "cancel" and "await"
inside a close, "released" when the resources libcurl borrows and the lease
are given back.

Two transfers of the instance share an ID. Haskell's counter (`newTransferId`)
gives each transfer of an agent another one, but `execute_transfer` refuses a
duplicate explicitly (message_chan.c:321) and the test
`testDuplicateTransferIdIsolation` (test/Spec.hs:1188) sends one, so the case is
part of what the C side promises: the submission of a duplicate fails and the
first transfer goes on. It is not protected from what the duplicate's owner does
next. `CancelRequest` carries the ID, so closing the duplicate before its failure
has come back cancels the first transfer; `AbortedForCause` therefore speaks of a
CANCEL sent with the ID (`cancelled` is history: whose owner sent one), which is
the transfer's own when IDs are distinct. The steps of one handler are separate here,
although the reactor is one thread, because owners run beside it.

### EventLoop

`handle`, `fd` and `events` are the `socket_context_t` blocks: memory that is
free, an open poll handle, or one that was closed and whose close callback has
not run; "corrupt" is a handle closed twice. `wanted` and `assigned` are
libcurl's table of sockets with the pointer from `curl_multi_assign`. libcurl is
driven (`pc = "curl"`) by a socket event, the timer or a message, and calls
back any number of times before it returns. `cause` is the context
`socket_callback` was called for and uses again after the call. `BadSocket` is
the `CURLM_BAD_SOCKET` branch; `Forget` is the old libcurl the comment there
speaks of, which drops a socket without a callback. `unwatched` are sockets
whose last callback returned -1: libcurl has been told, and what it does then is
its business.

### Once

The `MVar` of the state is taken and put back in separate steps, since other
callers block on it in between; exceptions arrive in `restore` (the action ends
in failure) and wherever a masked thread blocks. `Helper` is the replacement
thread. `cutOff` is history: an exception has hit a blocked `finishOnce`.

### ManagedPool

`maState` is one `MVar`, so each critical section is one step. The controller's
clock (`now`) is read in an earlier step, as in `controllerLoop`. A worker's
`status` is its agent's `contextStatus`. Stopping workers (`StopWorker`,
`Stopped`, `RemoveWorkers`) happens outside the lock and may be done by several
threads to the same worker.

`closeAgent` runs `closeManagedAgent` under `runOnce`: `attempt` is the caller's
run ("first", "failed" when it has caught an exception), or the retry by the
helper thread, which nobody interrupts. The caller's run may be interrupted
outside both `try` (`InterruptClose`), in `Async.cancel` (`InterruptCancel`) and
in `releaseAllAgents` (`InterruptReleaseAll`), and fail because a reactor had
(`ReleasedAll`); in all but the first case `CloseEnd` empties the registry all
the same, as the code does. `cutOff` is history: the live reactors that an
interrupted `releaseAllAgents` had not stopped.

`Elapsed` subtracts modulo `Word`, as `Word64` does. Utilization is a tie-break and abstracted to any choice; the smoothed
demand is any value (`Smoothed`), or the exact sample (`mpEwmaAlpha = 1`).

## Runs

| Run | Shows |
|---|---|
| `download_safety` | ring of 2, body of 3, one closer, exceptions everywhere: types and ring bound, no lost wake-up, pointer ownership, body in order, all taken before its end and empty after a close (`BodyInOrder`), one consistent and final end that shutdown gives to everything accepted (`Agreement`, `EndIsFinal`), no stall, at most one RESUME and one CANCEL of the stream's own in the queue |
| `download_live` | the same transfer with a server that may fall silent: close returns, close and stop free the reader, an abandoned transfer never succeeds; and if the server goes on and the reader keeps reading, it reaches the end through pauses and full queues |
| `upload_safety` | ring of 2, three chunks of 2 units, one closer: what was accepted reaches the wire once and in order, the end after it, no lost wake-up |
| `upload_live` | calls return, and an ended upload completes: libcurl is not left paused |
| `sender` | two streams and a stopper against the closing reactor: slots never overwritten, nothing used after free, answers true, refinement of `ControlChannel` (which is destroyed only when empty, so nothing is left behind), accepted messages handed over, `stopAgent` ends the reactor |
| `headers` | a whole response of up to three blocks with a field each, a trailer and two chunks, allocation failures, all ends, a streaming and a buffered caller: blocks are never mixed, a caller never gets a head libcurl went on from (also when the next hop fails), pointers are fired once, a body is returned whole up to the end of `size_t`, a stream's counter is what libcurl delivered up to the end of `int64_t`, and a published head or an end reaches the caller although the server may fall silent |
| `reactor` | three transfers, two with one ID, in a table of one bucket that grows: lookups, ownership of easy handles, borrowed resources, aborts only by a stop or a CANCEL sent with the ID, and closes and stops that release every owner though libcurl may never finish a transfer |
| `eventloop` | two descriptors that are closed and reused, three contexts, failing callbacks, an old libcurl: contexts live as long as they are reachable, sockets are polled, timeouts served, teardown ends |
| `once` | four callers, all interruptions: one run at a time, one result, waiting callers return unless an exception cut off a blocked `finishOnce` |
| `pool` | two clients, the controller, a failing reactor or an interrupted release, a close that is interrupted anywhere and retried: drains interrupt nobody, every live reactor is in the registry until it has stopped and none survives the close, but for those an interrupted `releaseAllAgents` had not stopped, and drained workers are torn down unless a `leaseDone` was interrupted |

Runs that are expected to fail, each a disagreement of the code with a comment:

| Run | Shows |
|---|---|
| `upload_interrupted` | `hcurl_stream_wait_write` does not look at `paused` as `wait_read` does. After an interrupted `flushResume`, `feedBody` sleeps on a full ring while libcurl is paused and no RESUME comes |
| `headers_stall` | without a status line (a protocol other than HTTP) `awaitResponseHead` waits for the end of the transfer, while a body longer than the ring waits for the reader that only the head's caller gets. With a status line, or a body that fits, the same property holds |

Observations without a run of their own. The models contain each of them, and the
property named (if any) says what still holds:

* The close of a managed pool can leave reactors running. An exception in
  `releaseAllAgents` is caught (Agent.hs:765), its `stopAgent` children are
  cancelled, and one that had not sent its STOP never does; the registry is
  emptied all the same (766-768). The exception is thrown only then, and
  `runOnce` runs the close again (Once.hs:51-53): the retry finds no handles,
  stops nothing and records success for every caller. HANDOFF.md:33-35 says "Stop
  first and remove second, so concurrent close or an async exception cannot
  orphan a reactor." Without the `cutOff` of `OwnedUntilStopped` TLC reaches it
  in four steps: `CloseBegin`, `CancelController`, `InterruptReleaseAll`,
  `CloseEnd`.
* A worker can be drained within the kill cooldown. `controllerLoop` reads the
  clock (Agent.hs:257) before it waits for `maState`. If a worker is spawned in
  between, `now - msLastSpawn` wraps around in `Word64` (386), the cooldown counts
  as over and a worker is drained at once, against the comment at 359-361 ("no
  spawn happened within the kill cooldown, so fresh workers are not killed right
  after being started"). TLC's steps: `ReadClock` at 0, `Advance`, `AdmitGrowing`
  at 1, `Tick` drains. Where the clock is not behind, the cooldown is just the
  guard of `Tick`, so it is no property here.
* An exception in the blocked `modifyMVar_` of `finishOnce` leaves all other
  callers of the `Once` waiting (GHC may throw `BlockedIndefinitelyOnMVar` at
  them, but only when nothing else refers to the cell). `WaitersReturn`
  excludes it through `cutOff`.
* `releaseLease` sets `leaseReleased` before it runs an interruptible
  `leaseDone` (Transfer.hs:76). An interrupted one is never repeated, and its
  draining worker keeps its reactor until the pool is closed, although
  Agent.hs:119-121 says draining "tears its loop down once its in-flight transfers
  finish". `DrainedIsStopped` excludes it.
* `readBody` takes a chunk out of the ring before `flushResume` (Body.hs:296). An
  exception in the `threadDelay` of its retries (Body.hs:205) drops that chunk: the
  next `readBody` goes on after it. `BodyInOrder` counts such chunks in `lost`.
* The two kinds of call measure different things as the download size: a stream
  the bytes after decoding, a buffered call those on the wire.
* `fail_unregistered_transfer` does not normalize its code, so an aborted
  transfer that then fails to start reports that failure.
* `admissionPick` compares `mpMaxAgents` with the selectable workers only, so
  draining workers that still carry transfers run beside a full set of them
  (`OwnedUntilStopped` bounds the selectable ones).

### Bounds

* Streams: `Capacity` 1 and 2 (full, empty and in between; wrap-around of the
  ring is in the sequence), `N` and `MaxChunks` one more than the capacity so
  that a pause happens and is resumed, `ChunkLen` 2 for partial copies. Three
  `Tokens` in the safety runs: the waiter, one in a firing thread's hand, one
  free to register again. One closer that may close repeatedly; the proofs
  cover any number. One foreign `resumeRequest` (`spurious`) and one
  `requestCancel` (`cancelled`) per transfer, each enough to make a control
  message stale.
* Channel: `Max` 2 slots and up to 3 messages (two streams and STOP), so the
  queue fills, a slot is reused and `head` wraps around at `Word` = 2.
  `MaxSends` bounds accepted messages, not attempts.
* Response: three blocks are two intermediate ones and the last; one field and
  one trailer are enough to see lines in the wrong buffer. A `size_t` of 16
  values and `INT64_MAX` of 7 with chunks of 1, 7 and 8 bytes reach every branch
  of the growth (doubling, exact size, no room for the NUL, more than
  `max_len`) and of the saturation. Two chunks and a ring of one make a chunk
  wait and be replayed.
* Reactor: two IDs that collide in a table of one bucket and part when it grows
  (`MaxLoad` 1), a third transfer that repeats an ID, a queue of two, one RESUME
  (`MaxResumes`).
* EventLoop: two sockets; three contexts let a descriptor have one closing and
  one open context while the other socket has its own. Nothing is counted, so
  runs of any length are covered.
* Once: four callers: owner, one inside its claim, two waiting.
* Pool: `MaxAgents` 2 and `MaxWorkers` 3 IDs, so that a worker can be replaced
  while two others exist; `MaxTime` 1 covers both sides of the kill cooldown and
  the wrap-around; `MaxFaults` 1 is one reactor that fails or one interrupted
  `leaseDone`. Interruptions of a retirement and of the close are not counted; the
  close has two attempts.

Deadlock checking is off: all of these systems may stop (a closed stream, a
stopped agent, a closed pool), and streams and pools are driven by bounded
environments.

### Fairness

Threads that can run do (`WF`), which the OS and GHC's scheduler give. Strong
fairness is assumed of an enqueue that is retried, because the reactor empties
the queue again and again;
of a sender waiting for `contextStatus` and a `finishOnce` waiting for its
`MVar`, because GHC hands an `MVar` out in FIFO order; of a `calloc` that is
retried by `stopAgent`; and of `OnTimeout`, because libuv runs due timers in
every turn of the loop, however many socket events it has. Nothing is assumed of
the server or of libcurl's progress in the specifications of `download_live`,
`headers` and `reactor`. `ReadingEnds` states what it needs of them as a
hypothesis (`ServerFairness` and a reader that starts reading); `upload_live`
has a server that goes on reading and answers; `ServedSpec` of `headers_stall`
has one that sends its response while libcurl listens, and a caller that reads
what it can, so that the stall is not for want of either. `EventLoop` assumes
that libcurl returns from a call and, on shutdown, that the loop is run until no
handle is left, which is what `agent_shutdown` does. No exception, failure, new call or
spurious wake-up is ever assumed to happen.

## Proofs

Each theorem is `Spec => ...` for every value of the constants that meets the
named assumptions of the component's module. An invariant of a run is seldom
inductive, so each proof module has an `IInv`, a conjunction of named parts,
each with a lemma that every step keeps it; TLC checked each `IInv` on the
component's run before it was proved.

| Module | Theorem | States |
|---|---|---|
| `DownloadProofs` | `StreamInvariant`, `TypeCorrect` | `[]IInv`; `[]TypeOK`, the ring within its capacity |
| | `NoWakeupIsLost`, `TokensHaveOneOwner`, `ReaderIsNotStalled` | `NoLostWakeup`, `TokenOwnership`, `NoStall` |
| | `BodyStaysInOrder` (with `ClosedStaysEmpty`) | `BodyInOrder` |
| | `EndsAgree`, `EndStaysFinal`, `AbandonedNeverSucceeds` | `Agreement`, `EndIsFinal`, `CloseNeverSucceeds` |
| | `ControlStaysBounded` | `BoundedControl` |
| `UploadProofs` | `WriterWakes`, `WireSafety` | `NoLostWakeup`, `WireInOrder` |
| `SenderProofs` | `SlotSafety`, `LifetimeSafety`, `AnswerSafety` | `SlotIsFree`, `NoUseAfterFree`, `AnswerIsTrue` |
| | `ChannelRefinement` | `ImplementsChannel`: the refinement of `ControlChannel` |
| `HeadersProofs` | `BlocksNeverMixed`, `HeadStaysFinal` | `NeverMixed`, `HeadIsFinal`, of the whole `ResponseSpec` |
| | `BodyReachesCaller` | `ResponseIsWhole` |
| `ReactorProofs` | `RegistryCorrect`, `OwnershipSafety`, `BorrowingSafety`, `AbortSafety` | `RegistryFinds`, `OneOwner`, `BorrowedUntilDone`, `AbortedForCause` |
| `EventLoopProofs` | `ContextSafety`, `WatchSafety` | `ContextsAreLive`, `SocketsAreWatched` |
| `OnceProofs` | `OnceSafety` | `OneRunOneResult` |
| `PoolProofs` | `PoolOwnership`, `DrainingSafety` | `OwnedUntilStopped`, `NeverInterrupted` |

### Download stream

For every `Capacity > 0`, `N`, set of closers and set of tokens, with and
without interrupted delays and foreign control messages. `IInv` is
`TypeOK /\ TokenInv /\ NoLostWakeup /\ ReactorInv /\ ResumeInv`:

* `TokenInv` adds to `TokenOwnership` that only threads about to fire hold a
  waiter and that the registered or fired pointer is the user's current one.
  Without it `Unregister` could free a pointer someone else still fires, and a
  thread could overwrite the waiter it holds.
* `NoLostWakeup` is inductive once a step that fills the ring or ends the
  stream is known to detach the waiter.
* `ReactorInv` ties `pc[Reactor]`, `transfer` and `chan` together; it excludes
  a callback after shutdown and an EXECUTE behind other messages, so that a
  RESUME is never taken before the transfer is active.
* `ResumeInv` is the heart of `NoStall`: a pause libcurl is in, or is about to
  be put into by the callback, is still in `paused`, or has its RESUME queued
  or in the hands of `flush_resume`, or the stream is over. It holds because
  `flush_resume` clears `paused` before it enqueues; together with
  `NoLostWakeup` (a sleeping reader has `~paused` and an open stream) only the
  queued RESUME is left.

More invariants rest on it:

* `EndInv`, for `Agreement`: a thread completes the stream itself
  (`localComplete`) only when the sender is closed, and then the reactor has no
  success left to report; EXECUTE stays first in the queue until it is taken,
  so the drain cannot miss it.
* `BodyInv`, for `BodyInOrder`: success is on its way only after the last chunk
  (`WholeInv`); the chunks taken are a prefix of the body and the ring is what
  follows (`PrefixInv`); the chunk in hand is the newest and survives a retried
  `flush_resume` (`OrderInv`), and chunks are lost only if delays can be
  interrupted; the reader looks for the result only when nothing
  is left (`EofInv`).
* `ResumeBound` and `CancelBound`, for `BoundedControl`: a RESUME of the stream's
  own is in the queue, in the hands of `flush_resume` or still in `paused`, and
  there is none while libcurl listens, since only a pause of libcurl creates one
  and only a RESUME ends the pause; a closer sends CANCEL only after it has set
  `cancel_sent`, and clears it only when its own CANCEL was not accepted.

`CloseNeverSucceeds` speaks of everything after a state, so it follows from a
predicate that no step falsifies, `Abandoned`: the stream is closed, no success
was reported, and a code that is past its normalization is not success.

### Upload stream

`IInv` is `TypeOK /\ FeedInv /\ WireInv`. `WireInv` splits the accepted units
where libcurl has got to: the wire is all units of the chunks that left the
ring and `offset` units of its first one, and `offset` is 0 without a first
chunk. `FeedInv` bounds `accepted` for the call in progress. `NoLostWakeup`
needs only the types: here a waiter is registered only for want of room.

### Control channel

For any number of streams and callers, any queue size and any wrap-around.
`SenderAssumption` has `Max >= 2` and `Word % Max = 0`: `initMPSCQ` accepts only
powers of two from 2 on (MPSC.hs:25-27), and these divide the modulus of
`size_t`. With another size, slots would collide when `head` wraps around.

* `GateInv`: `inside` is the number of producers between `enter` and `leave`,
  and none is there once the reactor has found it zero with the closed bit set.
* `ShutdownInv`: how far the reactor has come determines what still exists.
* `RefInv`: `references` is the number of owners, each named.
* `CountInv`: `count` is the tickets not taken, those about to be drawn, the
  attempts about to be undone and the message the reactor has yet to subtract;
  the first two are at most `Max`. A failed attempt also raises `count`, so
  `count` itself has no such bound.
* `TicketInv`: a message has one ticket, from its `fetch_add` on.
* `RingInv`: the slots from `tail` on are those of the waiting tickets, each
  filled unless its producer has yet to store; the others are empty.

For the refinement a step of `MessageSender` is mapped to `Accept` (the
`fetch_add` on `head`), `Take`, `Close`, `Seal`, `Destroy` or a stutter.

### Response head and body

The lemma `Projection` shows every step of `ResponseNext` to be a step of the
head (`HeadNext`), a refusal by the body, or a stutter for the head, so the
rest of the proof does not see the body; `WriteInv` is what it needs. `OpenInv`
describes the block libcurl is in, `BlockInv` when the completed one may be
shown: `Settled` says that no other block can come. `WaitInv` follows the
pointer, `EndInv` the end, `HeadInv` what the caller got. `RestType` types what
`TypeOK` leaves open. The number of blocks, fields and trailers is any.

`BodyInv` is the body's part. `BufferInv`: the buffer has room for the bytes so
far and their NUL; this needs `GrownFacts`, that the doubling loop ends with at
least what is needed and at most `SIZE_MAX`. `Grown` is a recursive function, and
the lemma first shows that such a function exists and then what it returns, both
by descent from `SIZE_MAX` (`Descent`, from the least element of a set of
naturals). `WholeInv`: the transfer does not end inside the write callback, and
succeeds only without a chunk left. `ReportInv`: the counter of a stream is the
bytes accepted, capped at `INT64_MAX`. `ResponseAssumption` asks that the first
capacity (4096) and `max_len` are values of `size_t`.

### Reactor

For any finite set of transfers, any IDs and any hash function. `RegistryInv`:
every entry is in the bucket of its ID, IDs in the table are distinct and
`count` is their number; `ResizeKeeps`, `InsertKeeps`, `RemoveKeeps` and
`DetachKeeps` are the lemmas on the `registry_*` functions. `PhaseInv` says what
the reactor has in hand. `OwnerInv` follows a transfer from its builder through
queue, registry, detached chain and `finish` to its cleanup, which comes before
the owner is woken. `CauseInv` carries the reason of an abort from the owner that
sent the CANCEL, or `stopAgent`, through the queue to the code.

### Event loop, Once, pool

* `EventLoop`: `PointerInv` (libcurl points only to open contexts of the
  socket, and the context being handled is not freed) gives `ContextsAreLive`;
  `PollInv` (one polling context per socket) is needed because a context that
  an old libcurl has forgotten may still poll.
* `Once`: `OwnerInv` (the run has one owner, and the replacement exists only
  after a failure), `RunsInv` (the first run is the caller's, the second the
  replacement's), `ResultInv` (the owner carries the result to `OnceDone` first
  and then to the cell).
* `ManagedPool`: `OwnedInv` (a live reactor is in the registry or in `cutOff`;
  the registry is within what the closer has set out to stop, and before the closer
  empties it every live reactor is in `cutOff`), `FreshInv` (an ID not given out is unused), `CountInv`
  (`mwActive` is at least the number of leases), `DrainInv` (what is being
  retired is draining and idle), `LeaseInv`, `ThreadInv` (who can be where).
  `TickEffect`, `AdmitEffect`, `RefreshedEffect` and `ReleaseEffect` state what
  the scaling policy may change, whatever it decides. `PoolAssumption` says of
  the bounds and thread names only that they are numbers and distinct; that
  `Word` exceeds the clock is a run shorter than 2^64 ticks.

### Only model-checked

* Liveness under fairness, which the prover does not do: `ReadingEnds`,
  `CloseReturns`, `EndFreesReader`, `UploadEnds`, `AcceptedIsTaken`,
  `StopReturns`, `WaitersReturn`, `HeadArrives`, `EndsRelease`,
  `DeadlineIsServed`, `ShutdownEnds`, `DrainedIsStopped`.
* `BlocksOnlyWhileSending` and `ServedCallReturns`, which the code violates.

## Plan

1. Done: all modules above, their runs, and the theorems of the last section.
2. Next: type correctness and `Agreement` of `UploadStream` as theorems of their
   own, and shorter proofs where steps repeat.

## Not modelled

* Threaded agent: `atomicModifyIORef'` on a counter picks an agent of a fixed
  list, and its close is `releaseAllAgents` under `runOnce`; the parts that could
  go wrong are in `ManagedPool` and `Once`.
* Options, requests, easy handles, header lists: `options.c` is a switch over
  `curl_easy_setopt` calls and the Haskell side is validation and straight-line
  set-up before the transfer is shared with anyone; wrappers are generated by
  Template Haskell.
* Metrics other than the download counter: each is one copy from
  `curl_easy_getinfo`. The conversion of doubles needs reals.
* Raw bindings, `hcurl-conduit` (a wrapper of `readBody` and `closeBody`), tests,
  benchmark and example.
* libcurl, libuv and the GHC runtime are external and modelled by how this code
  uses them; memory orders weaker than sequential consistency are not modelled.
