---------------------------- MODULE UploadStream ----------------------------
(***************************************************************************)
(* A streaming request body: feedBody and endBody (Body.hs, Upload.hs)     *)
(* fill the ring, libcurl's read callback empties it.  Chunk n consists of *)
(* the units (n-1)*ChunkLen+1 .. n*ChunkLen, and one callback may copy any *)
(* part of what is left of the oldest chunk.                               *)
(***************************************************************************)
EXTENDS Stream

CONSTANTS
  MaxChunks,            \* how many chunks the program feeds
  ChunkLen              \* the length of a chunk, in units

ASSUME UploadAssumption == MaxChunks \in Nat /\ ChunkLen \in Nat \ {0}

VARIABLES
  op,                   \* "feed" | "end": the call the writer is in
  accepted,             \* chunks try_write has stored
  retried,              \* has this endBody been through flushResume?
  outcome,              \* what the last call returned
  finished,             \* stream->finished
  offset,               \* chunks[head].offset
  wire,                 \* the units libcurl has copied, in order
  eofSent               \* the read callback has returned 0

writeVars == <<op, accepted, retried, outcome, finished, offset, wire, eofSent>>
vars == <<sharedVars, writeVars>>

Outcomes == {"none", "ok", "error", "closed", "memory", "invalid",
             "interrupted"}

Init ==
  /\ StreamInit
  /\ op = "feed" /\ accepted = 0 /\ retried = FALSE /\ outcome = "none"
  /\ finished = FALSE /\ offset = 0 /\ wire = <<>> /\ eofSent = FALSE

Return(o) == Goto(User, "idle") /\ outcome' = o

-----------------------------------------------------------------------------
(* The writer; uploadLock admits one call at a time *)

StartWrite ==
  /\ pc[User] = "idle"
  /\ op' \in IF accepted < MaxChunks THEN {"feed", "end"} ELSE {"end"}
  /\ retried' = FALSE /\ outcome' = "none"
  /\ Goto(User, "try")
  /\ UNCHANGED <<streamVars, chanVars, curlVars, wake, token, owner, accepted,
                 finished, offset, wire, eofSent>>

(* What try_write and finish_upload answer on a stream that is over. *)
OverOutcome ==
  IF closed THEN "closed"
  ELSE IF op = "end" /\ terminal_code = "ok" THEN "ok" ELSE "error"

(* The calls that end at once: the stream is over, finished was set, or     *)
(* there is no memory for the copy.                                         *)
WriteRefused ==
  /\ pc[User] = "try"
  /\ \/ ~Open /\ Return(OverOutcome)
     \/ Open /\ op = "feed" /\ finished /\ Return("closed")
     \/ Open /\ op = "feed" /\ ~finished /\ HasSpace
        /\ Return("memory")
  /\ UNCHANGED <<streamVars, chanVars, curlVars, wake, token, owner, op,
                 accepted, retried, finished, offset, wire, eofSent>>

WriteWouldBlock ==
  /\ pc[User] = "try" /\ Open
  /\ op = "feed" /\ ~finished /\ ~HasSpace
  /\ Goto(User, "wait")
  /\ UNCHANGED <<streamVars, chanVars, curlVars, wake, token, owner, writeVars>>

(* hcurl_stream_try_write stores the chunk. *)
AcceptWrite ==
  /\ pc[User] = "try" /\ Open
  /\ op = "feed" /\ ~finished /\ HasSpace
  /\ ring' = Append(ring, accepted + 1)
  /\ accepted' = accepted + 1
  /\ Goto(User, ResumeAfter)
  /\ UNCHANGED <<paused, closed, terminal_set, terminal_code, cancel_sent,
                 waiter, chanVars, curlVars, wake, token, owner, op, retried,
                 outcome, finished, offset, wire, eofSent>>

(* hcurl_stream_finish_upload *)
FinishUpload ==
  /\ pc[User] = "try" /\ Open /\ op = "end"
  /\ finished' = TRUE
  /\ Goto(User, ResumeAfter)
  /\ UNCHANGED <<streamVars, chanVars, curlVars, wake, token, owner, op,
                 accepted, retried, outcome, offset, wire, eofSent>>

(* CONTROL_PENDING: the flush goes on in Haskell. *)
WriteControlPending ==
  /\ RestorePaused
  /\ retried' = TRUE
  /\ UNCHANGED <<op, accepted, outcome, finished, offset, wire, eofSent>>

(* feedBody returns; finishLoop asks finish_upload again after a flush. *)
WriteResumed ==
  /\ pc[User] = "resumed"
  /\ IF op = "end" /\ retried
     THEN Goto(User, "try") /\ retried' = FALSE /\ UNCHANGED outcome
     ELSE Return("ok") /\ UNCHANGED retried
  /\ UNCHANGED <<streamVars, chanVars, curlVars, wake, token, owner, op,
                 accepted, finished, offset, wire, eofSent>>

(* A wait that does not look at the end of the stream again. *)
WriteReadyNoEnd == HasSpace
WriteReady == HasSpace \/ closed \/ terminal_set

(* hcurl_stream_wait_write: unlike wait_read it does not look at paused. *)
WaitWrite ==
  /\ pc[User] = "wait"
  /\ IF WriteReady \/ waiter # NoToken
     THEN /\ IF WriteReady THEN Goto(User, "try") /\ UNCHANGED outcome
             ELSE Return("invalid")
          /\ UNCHANGED <<waiter, token, owner>>
     ELSE /\ \E t \in Tokens : Register(t)
          /\ Goto(User, "blocked")
          /\ UNCHANGED outcome
  /\ UNCHANGED <<ring, paused, closed, terminal_set, terminal_code,
                 cancel_sent, chanVars, curlVars, wake, op, accepted, retried,
                 finished, offset, wire, eofSent>>

(* An asynchronous exception in the threadDelay of flushResume: a chunk     *)
(* that was stored stays stored.                                            *)
InterruptDelay ==
  /\ DelayInterruptible /\ pc[User] = "delay"
  /\ Return("interrupted")
  /\ UNCHANGED <<streamVars, chanVars, curlVars, wake, token, owner, op,
                 accepted, retried, finished, offset, wire, eofSent>>

-----------------------------------------------------------------------------
(* The reactor: hcurl_upload_read_callback *)

Asks == AtLoop /\ transfer = "active" /\ ~curlPaused /\ ~eofSent
Aborts == closed \/ (terminal_set /\ terminal_code # "ok")

ReadAbort ==
  /\ Asks /\ Aborts
  /\ Finish("aborted")
  /\ UNCHANGED <<streamVars, chanVars, curlPaused, result, done, wake, token,
                 owner, writeVars>>

(* The end of the body follows the last chunk. *)
AtEnd == ring = <<>> /\ finished

ReadEof ==
  /\ Asks /\ ~Aborts /\ AtEnd
  /\ eofSent' = TRUE
  /\ UNCHANGED <<sharedVars, op, accepted, retried, outcome, finished, offset,
                 wire>>

(* CURL_READFUNC_PAUSE until there is more. *)
ReadPause ==
  /\ Asks /\ ~Aborts /\ ring = <<>> /\ ~finished
  /\ paused' = TRUE
  /\ curlPaused' = TRUE
  /\ UNCHANGED <<ring, closed, terminal_set, terminal_code, cancel_sent,
                 waiter, chanVars, transfer, code, result, done, threadVars,
                 writeVars>>

Unit(c, i) == (c - 1) * ChunkLen + i

(* A chunk leaves the ring when all of it was copied, not before. *)
PoppedAlways(n) == TRUE
Popped(n) == n = ChunkLen - offset

(* A ring that stops being full wakes the writer; the mutant forgets to. *)
WakeNobody(n) == UNCHANGED <<waiter, wake>>
WakeWriter(n) == IF ~HasSpace /\ Popped(n) THEN Detach(Reactor)
                 ELSE UNCHANGED <<waiter, wake>>

(* libcurl copies the next n units of the oldest chunk. *)
ReadCopy(n) ==
  /\ Asks /\ ~Aborts /\ ring # <<>>
  /\ wire' = wire \o [i \in 1..n |-> Unit(Head(ring), offset + i)]
  /\ ring' = IF Popped(n) THEN Tail(ring) ELSE ring
  /\ offset' = IF Popped(n) THEN 0 ELSE offset + n
  /\ WakeWriter(n)
  /\ Goto(Reactor, "fire")
  /\ UNCHANGED <<paused, closed, terminal_set, terminal_code, cancel_sent,
                 chanVars, curlVars, token, owner, op, accepted, retried,
                 outcome, finished, eofSent>>

CallbackFire ==
  /\ pc[Reactor] = "fire"
  /\ Fire(Reactor, "loop")
  /\ UNCHANGED <<streamVars, chanVars, curlVars, token, writeVars>>

-----------------------------------------------------------------------------
WriterStep ==
  \/ WriteRefused \/ WriteWouldBlock \/ AcceptWrite \/ FinishUpload
  \/ WriteControlPending \/ WriteResumed \/ WaitWrite
  \/ (FlushResume \/ EnqueueResumeOk \/ EnqueueResumeFail \/ FlushRetry
      \/ LocalComplete(User) \/ LocalFire(User) \/ Woken \/ Unregister)
     /\ UNCHANGED writeVars

CloseStep(c) == CloserStep(c) /\ UNCHANGED writeVars

ReactorStep ==
  \/ CallbackFire
  \/ (ResumeTransfer \/ ExecuteOk \/ ExecuteFail \/ CancelTransfer
      \/ StaleControl \/ FinishStep \/ Drain) /\ UNCHANGED writeVars

Upload == ReadAbort \/ ReadEof \/ ReadPause
          \/ \E n \in 1..(ChunkLen - offset) : ReadCopy(n)

(* The server may answer before it has read the whole request. *)
ServerAnswers == CurlDone("ok") /\ UNCHANGED writeVars

Environment ==
  \/ StartWrite \/ InterruptDelay
  \/ (InterruptWait \/ RequestCancel \/ ResumeRequest \/ CurlDone("error")
      \/ (\E c \in {"aborted", "error"} : Shutdown(c))
      \/ (\E c \in Closers : StartClose(c) \/ RetryClose(c)))
     /\ UNCHANGED writeVars

Next ==
  \/ WriterStep \/ (\E c \in Closers : CloseStep(c))
  \/ ReactorStep \/ Upload \/ ServerAnswers \/ Environment

Spec == Init /\ [][Next]_vars

(* As in DownloadStream: threads run, the queue is not full for ever. *)
ThreadFairness ==
  /\ WF_vars(WriterStep) /\ SF_vars(EnqueueResumeOk /\ UNCHANGED writeVars)
  /\ \A c \in Closers : /\ WF_vars(CloseStep(c))
                        /\ SF_vars(EnqueueCancelOk(c) /\ UNCHANGED writeVars)
  /\ WF_vars(ReactorStep)

(* libcurl sends what it is given, and the server answers a whole request. *)
ServerFairness ==
  /\ WF_vars(Upload)
  /\ WF_vars(eofSent /\ ServerAnswers)

FairSpec == Spec /\ ThreadFairness /\ ServerFairness

-----------------------------------------------------------------------------
(* Properties *)

ReactorPcs == {"loop", "fire", "normalize", "setResult", "complete",
               "completeFire", "wakeResult", "drain", "stopped"}

(* The state is what the structs and the threads can hold, and the ring     *)
(* never exceeds its capacity nor the offset the oldest chunk.              *)
TypeOK ==
  /\ StreamType(1..MaxChunks) /\ ChanType /\ CurlType
  /\ ThreadType(ReactorPcs)
  /\ op \in {"feed", "end"} /\ accepted \in 0..MaxChunks
  /\ retried \in BOOLEAN /\ outcome \in Outcomes /\ finished \in BOOLEAN
  /\ offset \in 0..(ChunkLen - 1) /\ eofSent \in BOOLEAN
  /\ wire \in Seq(1..(MaxChunks * ChunkLen))

(* No lost wake-up: a writer stays registered only while the ring is full   *)
(* and the transfer is not over.                                            *)
NoLostWakeup ==
  waiter # NoToken => Len(ring) = Capacity /\ ~closed /\ ~terminal_set

(* libcurl sends exactly what feedBody accepted, in order: the units on the *)
(* wire, then the rest of the ring, while the stream is open.  The end of   *)
(* the request body follows the last accepted unit.  The ring stays within  *)
(* its capacity, and every variable within its type.                        *)
WireInOrder ==
  /\ TypeOK
  /\ \A i \in 1..Len(wire) : wire[i] = i
  /\ ~closed => Len(wire) + Len(ring) * ChunkLen - offset = accepted * ChunkLen
  /\ ~closed => \A i \in 1..Len(ring) : ring[i] = accepted - Len(ring) + i
  /\ eofSent => finished /\ Len(wire) = accepted * ChunkLen

(* Upload.hs:67: feedBody blocks "while libcurl is still sending earlier    *)
(* data"; so not while libcurl is paused and nobody will resume it.         *)
BlocksOnlyWhileSending ==
  waiter # NoToken /\ transfer = "active" /\ curlPaused => Has("RESUME")

(* feedBody and endBody come back, and a request whose body was ended gets  *)
(* its answer, through a queue that refuses RESUMEs and a ring that fills.  *)
UploadEnds ==
  /\ pc[User] = "try" ~> pc[User] = "idle"
  /\ finished ~> done
=============================================================================
