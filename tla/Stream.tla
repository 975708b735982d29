------------------------------- MODULE Stream -------------------------------
(***************************************************************************)
(* The bounded body stream of cbits/stream.c: the state and the operations *)
(* the download and the upload direction share.  One stream belongs to one *)
(* transfer and is touched by three kinds of threads:                      *)
(*   Reactor   the libuv agent thread: libcurl callbacks, control          *)
(*             messages, completion and shutdown (message_chan.c);         *)
(*   User      the Haskell thread inside readBody or feedBody/endBody.     *)
(*             readLock/uploadLock admit one at a time, so one process     *)
(*             stands for every caller;                                    *)
(*   Closers   the threads in closeBody/abortBody or a ResourceT cleanup.  *)
(* One step is one critical section of stream->mutex, one call into the    *)
(* control channel, or one wake-up.  DownloadStream and UploadStream add   *)
(* the direction's callback and its user operations.                       *)
(*                                                                         *)
(* Tokens are the StablePtrs newStablePtrPrimMVar hands to C; a token is   *)
(* allocated again once it was consumed or freed, as the RTS does.         *)
(***************************************************************************)
EXTENDS Naturals, Sequences, FiniteSets

CONSTANTS
  Reactor, User, Closers, \* the threads
  Capacity,               \* stream->capacity, in chunks
  Tokens, NoToken,        \* wait registrations, and stored->mvar == NULL
  DelayInterruptible,     \* may threadDelay in flushResume be interrupted?
  ForeignControl          \* do others send RESUME and CANCEL too?

ASSUME StreamAssumption ==
  /\ Capacity \in Nat \ {0}
  /\ NoToken \notin Tokens
  /\ Reactor # User
  /\ Reactor \notin Closers
  /\ User \notin Closers
  /\ DelayInterruptible \in BOOLEAN

ASSUME ControlAssumption == ForeignControl \in BOOLEAN

Procs == {Reactor, User} \cup Closers

VARIABLES
  (* hcurl_stream_s, protected by its mutex *)
  ring,          \* the queued chunks, oldest first (count = Len(ring))
  paused, closed, terminal_set, terminal_code, cancel_sent,
  waiter,        \* read_waiter or write_waiter, NoToken when not present
  (* the control channel of the agent *)
  chan,          \* accepted messages about this transfer, oldest first
  senderClosed,  \* SENDER_CLOSED_BIT of sender->state
  spurious,      \* has the exposed resumeRequest been used?
  cancelled,     \* has requestCancel (Transfer.hs) been used?
  (* the transfer on the reactor *)
  transfer,      \* "queued" | "active" | "detached" | "gone"
  curlPaused,    \* libcurl holds this direction paused
  code,          \* the CURLcode finish_detached_transfer is working on
  result,        \* hs_easy_data.curl_code, "none" until completed
  done,          \* doneRequest has been put by hs_easy_data_wake
  (* threads and wake-ups *)
  pc,
  wake,          \* the waiter a thread detached and has yet to fire
  token,         \* the registration User is blocked on
  owner          \* "unused" | "c" | "fired" | "corrupt"

streamVars == <<ring, paused, closed, terminal_set, terminal_code,
                cancel_sent, waiter>>
chanVars   == <<chan, senderClosed, spurious, cancelled>>
curlVars   == <<transfer, curlPaused, code, result, done>>
threadVars == <<pc, wake, token, owner>>
sharedVars == <<streamVars, chanVars, curlVars, threadVars>>

Codes == {"ok", "error", "aborted"}
Msgs  == {"EXECUTE", "RESUME", "CANCEL"}
OptToken == Tokens \cup {NoToken}

Goto(p, l) == pc' = [pc EXCEPT ![p] = l]
Has(m) == \E i \in 1..Len(chan) : chan[i] = m

StreamInit ==
  /\ ring = <<>> /\ waiter = NoToken
  /\ paused = FALSE /\ closed = FALSE /\ cancel_sent = FALSE
  /\ terminal_set = FALSE /\ terminal_code = "ok"
  \* startTransferWith returns the stream only after EXECUTE was accepted.
  /\ chan = <<"EXECUTE">> /\ senderClosed = FALSE
  /\ spurious = FALSE /\ cancelled = FALSE
  /\ transfer = "queued" /\ curlPaused = FALSE /\ code = "ok"
  /\ result = "none" /\ done = FALSE
  /\ pc = [p \in Procs |-> IF p = Reactor THEN "loop" ELSE "idle"]
  /\ wake = [p \in Procs |-> NoToken]
  /\ token = NoToken
  /\ owner = [t \in Tokens |-> "unused"]

-----------------------------------------------------------------------------
(* Wake-ups *)

(* A detach that clears the waiter and forgets to hand it over. *)
DetachDropped(p) == waiter' = NoToken /\ UNCHANGED wake

(* detach_waiter_locked: p takes the waiter over and fires it unlocked. *)
Detach(p) ==
  /\ wake' = [wake EXCEPT ![p] = waiter]
  /\ waiter' = NoToken

(* wake_detached/wake_up_waker: hs_try_putmvar consumes the StablePtr.  A   *)
(* pointer C does not own any more is a use after free.                     *)
Fire(p, l) ==
  /\ owner' = IF wake[p] = NoToken THEN owner
              ELSE [owner EXCEPT ![wake[p]] =
                      IF @ # "c" THEN "corrupt"
                      ELSE IF pc[User] = "blocked" /\ token = wake[p]
                           THEN "fired" ELSE "unused"]
  /\ wake' = [wake EXCEPT ![p] = NoToken]
  /\ Goto(p, l)

(* The code of the first completion stays; the mutant takes the last one. *)
LastCode(c) == c
FirstCode(c) == IF terminal_set THEN terminal_code ELSE c

(* hcurl_stream_complete, which any thread may run. *)
CompleteStream(p, c) ==
  /\ terminal_set' = TRUE
  /\ terminal_code' = FirstCode(c)
  /\ paused' = FALSE
  /\ Detach(p)

-----------------------------------------------------------------------------
(* The ring, and resuming: the User thread in hcurl_stream_flush_resume *)

(* stream->count == stream->capacity, and the test off by one. *)
HasSpaceOffByOne == Len(ring) <= Capacity
HasSpace == Len(ring) < Capacity

(* Does the stream still take chunks?  The mutant never asks. *)
OpenAlways == TRUE
Open == ~closed /\ ~terminal_set

(* A read, a write and an end of body owe a paused libcurl a resume. *)
ResumeAfter == IF paused THEN "flush" ELSE "resumed"

NeedsResume == paused /\ ~closed /\ ~terminal_set /\ ~cancel_sent

(* The flag is cleared before the enqueue, so that a pause the reactor sets *)
(* while it handles RESUME is not overwritten.                              *)
FlushResume ==
  /\ pc[User] = "flush"
  /\ paused' = (paused /\ ~NeedsResume)
  /\ Goto(User, IF NeedsResume THEN "enqResume" ELSE "resumed")
  /\ UNCHANGED <<ring, closed, terminal_set, terminal_code, cancel_sent,
                 waiter, chanVars, curlVars, wake, token, owner>>

EnqueueResumeOk ==
  /\ pc[User] = "enqResume" /\ ~senderClosed
  /\ chan' = Append(chan, "RESUME")
  /\ Goto(User, "resumed")
  /\ UNCHANGED <<streamVars, senderClosed, spurious, cancelled, curlVars,
                 wake, token, owner>>

(* A full queue taken for a closed one. *)
ResumeFailedFatal == "localComplete"
ResumeFailed == IF senderClosed THEN "localComplete" ELSE "unresume"

(* ENQUEUE_MESSAGE_FULL and _OUT_OF_MEMORY are retried, _CLOSED is final. *)
EnqueueResumeFail ==
  /\ pc[User] = "enqResume"
  /\ Goto(User, ResumeFailed)
  /\ UNCHANGED <<streamVars, chanVars, curlVars, wake, token, owner>>

(* The RESUME that failed is owed again; the mutant forgets it. *)
OwedForgotten == paused
OwedAgain == paused \/ (~closed /\ ~terminal_set /\ ~cancel_sent)

RestorePaused ==
  /\ pc[User] = "unresume"
  /\ paused' = OwedAgain
  /\ Goto(User, "delay")
  /\ UNCHANGED <<ring, closed, terminal_set, terminal_code, cancel_sent,
                 waiter, chanVars, curlVars, wake, token, owner>>

(* flushResume in Body.hs: threadDelay 50, then flush_resume again.  The    *)
(* first retry after a C-level CONTROL_PENDING does not sleep; a sleep      *)
(* there is the same as one more failed attempt.                            *)
FlushRetry ==
  /\ pc[User] = "delay"
  /\ Goto(User, "flush")
  /\ UNCHANGED <<streamVars, chanVars, curlVars, wake, token, owner>>

(* A sender that is already closed: the caller publishes the end itself. *)
LocalComplete(p) ==
  /\ pc[p] = "localComplete"
  /\ CompleteStream(p, "aborted")
  /\ Goto(p, "localFire")
  /\ UNCHANGED <<ring, closed, cancel_sent, chanVars, curlVars, token, owner>>

LocalFire(p) ==
  /\ pc[p] = "localFire"
  /\ Fire(p, IF p = User THEN "resumed" ELSE "await")
  /\ UNCHANGED <<streamVars, chanVars, curlVars, token>>

-----------------------------------------------------------------------------
(* Waiting: awaitOneShot around wait_read and wait_write *)

Register(t) ==
  /\ owner[t] = "unused"
  /\ waiter' = t
  /\ token' = t
  /\ owner' = [owner EXCEPT ![t] = "c"]

(* takeMVar returned: the operation is tried again. *)
Woken ==
  /\ pc[User] = "blocked" /\ owner[token] = "fired"
  /\ owner' = [owner EXCEPT ![token] = "unused"]
  /\ token' = NoToken
  /\ Goto(User, "try")
  /\ UNCHANGED <<streamVars, chanVars, curlVars, wake>>

(* An asynchronous exception in restore (takeMVar ready), before or after   *)
(* the wake-up.                                                             *)
InterruptWait ==
  /\ pc[User] = "blocked"
  /\ Goto(User, "unregister")
  /\ UNCHANGED <<streamVars, chanVars, curlVars, wake, token, owner>>

(* May the caller free its pointer?  The mutant believes it always may. *)
RegisteredAlways == TRUE
StillRegistered == waiter = token

Unregister ==
  /\ pc[User] = "unregister"
  /\ waiter' = IF StillRegistered THEN NoToken ELSE waiter
  /\ owner' = IF StillRegistered \/ owner[token] = "fired"
              THEN [owner EXCEPT ![token] = "unused"] ELSE owner
  /\ token' = NoToken
  /\ Goto(User, "idle")
  /\ UNCHANGED <<ring, paused, closed, terminal_set, terminal_code,
                 cancel_sent, chanVars, curlVars, wake>>

-----------------------------------------------------------------------------
(* Closing: closeRawStream around hcurl_stream_close, then finishTransfer *)

StartClose(c) ==
  /\ pc[c] = "idle"
  /\ Goto(c, "close")
  /\ UNCHANGED <<streamVars, chanVars, curlVars, wake, token, owner>>

(* Every close sends its own CANCEL. *)
NeedsCancelAlways == ~terminal_set

NeedsCancel == ~terminal_set /\ ~cancel_sent

CloseStream(c) ==
  /\ pc[c] = "close"
  /\ closed' = TRUE
  /\ paused' = FALSE
  /\ ring' = <<>>
  /\ Detach(c)
  /\ cancel_sent' = (cancel_sent \/ NeedsCancel)
  /\ Goto(c, IF NeedsCancel THEN "fireCancel" ELSE "fireOk")
  /\ UNCHANGED <<terminal_set, terminal_code, chanVars, curlVars,
                 token, owner>>

CloseFire(c) ==
  /\ pc[c] \in {"fireCancel", "fireOk"}
  /\ Fire(c, IF pc[c] = "fireCancel" THEN "enqCancel" ELSE "await")
  /\ UNCHANGED <<streamVars, chanVars, curlVars, token>>

EnqueueCancelOk(c) ==
  /\ pc[c] = "enqCancel" /\ ~senderClosed
  /\ chan' = Append(chan, "CANCEL")
  /\ Goto(c, "await")
  /\ UNCHANGED <<streamVars, senderClosed, spurious, cancelled, curlVars,
                 wake, token, owner>>

EnqueueCancelFail(c) ==
  /\ pc[c] = "enqCancel"
  /\ Goto(c, IF senderClosed THEN "localComplete" ELSE "uncancel")
  /\ UNCHANGED <<streamVars, chanVars, curlVars, wake, token, owner>>

(* cancel_sent after a CANCEL that failed; the mutant leaves it set. *)
CancelKept == cancel_sent
CancelUndone == cancel_sent /\ terminal_set

(* CONTROL_RETRY: closeRawStream sleeps and calls hcurl_stream_close again. *)
UndoCancel(c) ==
  /\ pc[c] = "uncancel"
  /\ cancel_sent' = CancelUndone
  /\ Goto(c, "close")
  /\ UNCHANGED <<ring, paused, closed, terminal_set, terminal_code, waiter,
                 chanVars, curlVars, wake, token, owner>>

(* transfer.finishTransfer: readMVar doneRequest. *)
AwaitDone(c) ==
  /\ pc[c] = "await" /\ done
  /\ Goto(c, "closed")
  /\ UNCHANGED <<streamVars, chanVars, curlVars, wake, token, owner>>

(* An interrupted close: runOnce runs the action again on a new thread. *)
RetryClose(c) ==
  /\ DelayInterruptible /\ pc[c] = "await"
  /\ Goto(c, "close")
  /\ UNCHANGED <<streamVars, chanVars, curlVars, wake, token, owner>>

CloserStep(c) ==
  \/ CloseStream(c) \/ CloseFire(c) \/ EnqueueCancelOk(c)
  \/ EnqueueCancelFail(c) \/ UndoCancel(c) \/ AwaitDone(c)
  \/ LocalComplete(c) \/ LocalFire(c)

-----------------------------------------------------------------------------
(* Other senders of control messages for this transfer *)

(* requestCancel of the transfer's own ResourceT cleanup, at most once. *)
RequestCancel ==
  /\ ForeignControl /\ ~cancelled /\ ~senderClosed /\ ~done
  /\ cancelled' = TRUE
  /\ chan' = Append(chan, "CANCEL")
  /\ UNCHANGED <<streamVars, senderClosed, spurious, curlVars, threadVars>>

(* resumeRequest is exposed and may send a RESUME nobody owes; one here. *)
ResumeRequest ==
  /\ ForeignControl /\ ~spurious /\ ~senderClosed
  /\ spurious' = TRUE
  /\ chan' = Append(chan, "RESUME")
  /\ UNCHANGED <<streamVars, senderClosed, cancelled, curlVars, threadVars>>

-----------------------------------------------------------------------------
(* The reactor: control messages, completion, shutdown *)

AtLoop == pc[Reactor] = "loop"
Receive(m) == AtLoop /\ chan # <<>> /\ Head(chan) = m /\ chan' = Tail(chan)

(* execute_transfer *)
ExecuteOk ==
  /\ Receive("EXECUTE")
  /\ transfer' = "active"
  /\ UNCHANGED <<streamVars, senderClosed, spurious, cancelled, curlPaused,
                 code, result, done, threadVars>>

(* fail_unregistered_transfer (allocation, CURLOPT_PRIVATE) does not        *)
(* normalize the code; finish_detached_transfer (multi_add_handle) does.    *)
ExecuteFail ==
  /\ Receive("EXECUTE")
  /\ transfer' = "detached"
  /\ code' = "error"
  /\ \/ Goto(Reactor, "setResult")
     \/ Goto(Reactor, "normalize")
  /\ UNCHANGED <<streamVars, senderClosed, spurious, cancelled, curlPaused,
                 result, done, wake, token, owner>>

(* registry_remove and finish_detached_transfer with code c. *)
Finish(c) ==
  /\ transfer' = "detached"
  /\ code' = c
  /\ Goto(Reactor, "normalize")

(* cancel_transfer *)
CancelTransfer ==
  /\ Receive("CANCEL") /\ transfer = "active"
  /\ Finish("aborted")
  /\ UNCHANGED <<streamVars, senderClosed, spurious, cancelled, curlPaused,
                 result, done, wake, token, owner>>

(* resume_transfer; the callback it makes libcurl run again is the next one. *)
ResumeTransfer ==
  /\ Receive("RESUME") /\ transfer = "active"
  /\ \/ curlPaused' = FALSE /\ UNCHANGED <<transfer, code, pc>>
     \/ Finish("error") /\ UNCHANGED curlPaused
  /\ UNCHANGED <<streamVars, senderClosed, spurious, cancelled, result, done,
                 wake, token, owner>>

(* A late CANCEL or RESUME finds no registered transfer. *)
StaleControl ==
  /\ Receive("CANCEL") \/ Receive("RESUME")
  /\ transfer # "active"
  /\ UNCHANGED <<streamVars, senderClosed, spurious, cancelled, curlVars,
                 threadVars>>

(* CURLMSG_DONE, read by check_multi_info; complete_transfer. *)
CurlDone(c) ==
  /\ AtLoop /\ transfer = "active"
  /\ Finish(c)
  /\ UNCHANGED <<streamVars, chanVars, curlPaused, result, done, wake, token,
                 owner>>

(* A closed stream reports ABORTED; the mutant reports what libcurl said. *)
NotNormalized == code
Normalized == IF closed \/ cancel_sent THEN "aborted" ELSE code

Normalize ==
  /\ pc[Reactor] = "normalize"
  /\ code' = Normalized
  /\ Goto(Reactor, "setResult")
  /\ UNCHANGED <<streamVars, chanVars, transfer, curlPaused, result, done,
                 wake, token, owner>>

(* curl_metrics_finish and hs_easy_data_set_result *)
SetResult ==
  /\ pc[Reactor] = "setResult"
  /\ result' = code
  /\ Goto(Reactor, "complete")
  /\ UNCHANGED <<streamVars, chanVars, transfer, curlPaused, code, done,
                 wake, token, owner>>

CompleteTransfer ==
  /\ pc[Reactor] = "complete"
  /\ CompleteStream(Reactor, code)
  /\ Goto(Reactor, "completeFire")
  /\ UNCHANGED <<ring, closed, cancel_sent, chanVars, curlVars, token, owner>>

CompleteFire ==
  /\ pc[Reactor] = "completeFire"
  /\ Fire(Reactor, "wakeResult")
  /\ UNCHANGED <<streamVars, chanVars, curlVars, token>>

(* curl_easy_cleanup, hs_easy_data_wake, free(transfer); the shutdown loop  *)
(* goes on with the queue.                                                  *)
WakeResult ==
  /\ pc[Reactor] = "wakeResult"
  /\ done' = TRUE
  /\ transfer' = "gone"
  /\ Goto(Reactor, IF senderClosed THEN "drain" ELSE "loop")
  /\ UNCHANGED <<streamVars, chanVars, curlPaused, code, result, wake, token,
                 owner>>

(* shutdown_message_context on STOP_AGENT ("aborted") or after a fatal      *)
(* multi error ("error"): close the sender, then finish what is registered. *)
Shutdown(c) ==
  /\ AtLoop
  /\ senderClosed' = TRUE
  /\ IF transfer = "active" THEN Finish(c)
     ELSE code' = c /\ Goto(Reactor, "drain") /\ UNCHANGED transfer
  /\ UNCHANGED <<streamVars, chan, spurious, cancelled, curlPaused, result,
                 done, wake, token, owner>>

(* What the drain fails instead of dropping; the mutant drops everything. *)
DrainFailsNone(m) == FALSE
DrainFails(m) == m = "EXECUTE"

(* The drain loop: an EXECUTE that was accepted is failed, not dropped. *)
Drain ==
  /\ pc[Reactor] = "drain"
  /\ IF chan = <<>>
     THEN Goto(Reactor, "stopped") /\ UNCHANGED <<chan, transfer>>
     ELSE /\ chan' = Tail(chan)
          /\ IF DrainFails(Head(chan))
             THEN transfer' = "detached" /\ Goto(Reactor, "setResult")
             ELSE UNCHANGED <<transfer, pc>>
  /\ UNCHANGED <<streamVars, senderClosed, spurious, cancelled, curlPaused,
                 code, result, done, wake, token, owner>>

FinishStep == Normalize \/ SetResult \/ CompleteTransfer \/ CompleteFire
              \/ WakeResult

-----------------------------------------------------------------------------
(* Properties of both directions *)

UserPcs == {"idle", "try", "flush", "enqResume", "unresume", "delay",
            "localComplete", "localFire", "resumed", "wait", "blocked",
            "unregister", "finish"}

CloserPcs == {"idle", "close", "fireCancel", "fireOk", "enqCancel",
              "uncancel", "localComplete", "localFire", "await", "closed"}

StreamType(Chunk) ==
  /\ ring \in Seq(Chunk) /\ Len(ring) <= Capacity
  /\ paused \in BOOLEAN /\ closed \in BOOLEAN
  /\ terminal_set \in BOOLEAN /\ terminal_code \in Codes
  /\ cancel_sent \in BOOLEAN /\ waiter \in OptToken

ChanType ==
  /\ chan \in Seq(Msgs) /\ senderClosed \in BOOLEAN
  /\ spurious \in BOOLEAN /\ cancelled \in BOOLEAN

CurlType ==
  /\ transfer \in {"queued", "active", "detached", "gone"}
  /\ curlPaused \in BOOLEAN /\ code \in Codes
  /\ result \in Codes \cup {"none"} /\ done \in BOOLEAN

ThreadType(ReactorPc) ==
  /\ pc \in [Procs -> UserPcs \cup CloserPcs \cup ReactorPc]
  /\ pc[User] \in UserPcs /\ pc[Reactor] \in ReactorPc
  /\ \A c \in Closers : pc[c] \in CloserPcs
  /\ wake \in [Procs -> OptToken] /\ token \in OptToken
  /\ owner \in [Tokens -> {"unused", "c", "fired", "corrupt"}]

(* Every StablePtr C owns is held in exactly one place, the stream's waiter *)
(* or the hand of one thread about to fire it; none is fired or freed       *)
(* twice; a blocked reader's pointer is still owned or has been fired.      *)
TokenOwnership ==
  /\ \A t \in Tokens : owner[t] # "corrupt"
  /\ \A t \in Tokens : owner[t] = "c" <=> waiter = t \/ \E p \in Procs : wake[p] = t
  /\ \A p \in Procs : wake[p] # NoToken => wake[p] # waiter
  /\ \A p, q \in Procs : p # q /\ wake[p] # NoToken => wake[p] # wake[q]
  /\ pc[User] = "blocked" => token # NoToken /\ owner[token] \in {"c", "fired"}

(* readBody's final answer and the transfer's result agree on success, and  *)
(* a shutdown leaves no accepted request without either.                    *)
Agreement ==
  /\ terminal_set /\ result # "none" => (terminal_code = "ok" <=> result = "ok")
  /\ pc[Reactor] = "stopped" => done /\ terminal_set /\ chan = <<>>

(* A closed stream holds no chunk: none is stored after the drop. *)
ClosedIsEmpty == closed => ring = <<>>

Count(m) == Cardinality({i \in 1..Len(chan) : chan[i] = m})

(* One transfer occupies a bounded part of the agent's queue: a resume is   *)
(* not repeated while one is on its way, nor a cancel once one was taken.   *)
BoundedControl ==
  /\ Count("EXECUTE") <= 1
  /\ Count("RESUME") <= IF spurious THEN 2 ELSE 1
  /\ Count("CANCEL") <= IF cancelled THEN 2 ELSE 1

(* The end of a stream is final: neither the first terminal code nor close  *)
(* is ever taken back.                                                      *)
EndIsFinal ==
  [][ /\ closed => closed'
      /\ terminal_set => terminal_set' /\ terminal_code' = terminal_code
      /\ done => done' /\ result' = result ]_sharedVars

(* Abandoning a transfer that has not completed never reports success. *)
CloseNeverSucceeds ==
  [](closed /\ transfer \in {"queued", "active"} => [](result # "ok"))

(* closeBody comes back, even when the server never sends another byte. *)
CloseReturns == \A c \in Closers : pc[c] = "close" ~> pc[c] = "closed"
=============================================================================
