--------------------------- MODULE DownloadStream ---------------------------
(***************************************************************************)
(* A streaming response body: libcurl's write callback fills the ring, the *)
(* reader (readBody in Body.hs) empties it.  The response is the chunks    *)
(* 1..N, so that order, loss and duplication are visible.                  *)
(***************************************************************************)
EXTENDS Stream

CONSTANT N              \* length of the response body, in chunks

ASSUME DownloadAssumption == N \in Nat

VARIABLES
  next,                 \* the chunk libcurl delivers next
  inHand,               \* the chunk try_read took out of the ring, or 0
  received,             \* the chunks readBody has returned
  lost,                 \* chunks an interrupted readBody had in hand
  outcome               \* how the last readBody ended

readVars == <<next, inHand, received, lost, outcome>>
vars == <<sharedVars, readVars>>

NoChunk == 0
Chunks == 1..N
Outcomes == {"none", "chunk", "eof", "error", "closed", "invalid",
             "interrupted"}

Init ==
  /\ StreamInit
  /\ next = 1 /\ inHand = NoChunk /\ received = <<>> /\ lost = {}
  /\ outcome = "none"

-----------------------------------------------------------------------------
(* The reader *)

StartRead ==
  /\ pc[User] = "idle"
  /\ Goto(User, "try")
  /\ outcome' = "none"
  /\ UNCHANGED <<streamVars, chanVars, curlVars, wake, token, owner, next,
                 inHand, received, lost>>

(* Chunks are read before the end is; the mutant swaps the two. *)
EndFirst == ring # <<>> /\ ~terminal_set
ChunkFirst == ring # <<>>

(* hcurl_stream_try_read: queued chunks first, then close, then the end. *)
TryRead ==
  /\ pc[User] = "try"
  /\ IF ChunkFirst
     THEN /\ inHand' = Head(ring) /\ ring' = Tail(ring)
          /\ Goto(User, ResumeAfter)
          /\ UNCHANGED outcome
     ELSE /\ UNCHANGED <<ring, inHand>>
          /\ outcome' = IF closed THEN "closed" ELSE outcome
          /\ Goto(User, IF closed THEN "idle"
                        ELSE IF terminal_set THEN "finish" ELSE "wait")
  /\ UNCHANGED <<paused, closed, terminal_set, terminal_code, cancel_sent,
                 waiter, chanVars, curlVars, wake, token, owner, next,
                 received, lost>>

(* flush_resume cleared paused before the enqueue and leaves it alone       *)
(* after; the mutant clears it then, over a pause that is newer.            *)
PauseClearedLate ==
  paused' = FALSE /\ UNCHANGED <<ring, closed, terminal_set, terminal_code,
                                 cancel_sent, waiter>>
PauseKept == UNCHANGED streamVars

(* The flush is over: return the chunk, or go back to waiting. *)
ReadResumed ==
  /\ pc[User] = "resumed"
  /\ IF inHand # NoChunk
     THEN /\ received' = Append(received, inHand)
          /\ inHand' = NoChunk
          /\ outcome' = "chunk"
          /\ Goto(User, "idle")
     ELSE Goto(User, "wait") /\ UNCHANGED <<received, inHand, outcome>>
  /\ PauseKept
  /\ UNCHANGED <<chanVars, curlVars, wake, token, owner, next,
                 lost>>

(* A wait that does not look at the ring again. *)
ReadReadyNoRing == closed \/ terminal_set
ReadReady == ring # <<>> \/ closed \/ terminal_set

(* hcurl_stream_wait_read; CONTROL_PENDING goes through flushResume. *)
WaitRead ==
  /\ pc[User] = "wait"
  /\ IF ReadReady \/ paused \/ waiter # NoToken
     THEN /\ Goto(User, IF ReadReady THEN "try"
                        ELSE IF paused THEN "flush" ELSE "idle")
          /\ outcome' = IF ReadReady \/ paused THEN outcome ELSE "invalid"
          /\ UNCHANGED <<waiter, token, owner>>
     ELSE /\ \E t \in Tokens : Register(t)
          /\ Goto(User, "blocked")
          /\ UNCHANGED outcome
  /\ UNCHANGED <<ring, paused, closed, terminal_set, terminal_code,
                 cancel_sent, chanVars, curlVars, wake, next, inHand,
                 received, lost>>

(* EOF and errors are returned after finishTransfer saw doneRequest. *)
FinishRead ==
  /\ pc[User] = "finish" /\ done
  /\ outcome' = IF terminal_code = "ok" THEN "eof" ELSE "error"
  /\ Goto(User, "idle")
  /\ UNCHANGED <<streamVars, chanVars, curlVars, wake, token, owner, next,
                 inHand, received, lost>>

(* An asynchronous exception in the threadDelay of flushResume: the chunk   *)
(* readBody has already taken out of the ring is dropped with it.           *)
InterruptDelay ==
  /\ DelayInterruptible /\ pc[User] = "delay"
  /\ lost' = lost \cup ({inHand} \ {NoChunk})
  /\ inHand' = NoChunk
  /\ outcome' = "interrupted"
  /\ Goto(User, "idle")
  /\ UNCHANGED <<streamVars, chanVars, curlVars, wake, token, owner, next,
                 received>>

(* ... and one in the readMVar of finishTransfer. *)
InterruptFinish ==
  /\ pc[User] = "finish" /\ ~done
  /\ outcome' = "interrupted"
  /\ Goto(User, "idle")
  /\ UNCHANGED <<streamVars, chanVars, curlVars, wake, token, owner, next,
                 inHand, received, lost>>

-----------------------------------------------------------------------------
(* The reactor: hcurl_download_write_callback and RESUME *)

Arrives == AtLoop /\ transfer = "active" /\ ~curlPaused /\ next <= N

(* The chunk is stored; a ring that is now full is paused explicitly. *)
AcceptChunk ==
  /\ Arrives /\ Open /\ HasSpace
  /\ ring' = Append(ring, next)
  /\ next' = next + 1
  /\ paused' = (paused \/ Len(ring) + 1 = Capacity)
  /\ Detach(Reactor)
  /\ Goto(Reactor, IF Len(ring) + 1 = Capacity THEN "firePause" ELSE "fire")
  /\ UNCHANGED <<closed, terminal_set, terminal_code, cancel_sent, chanVars,
                 curlVars, token, owner, inHand, received, lost, outcome>>

(* The chunk after a refused one is itself; the mutant answers as if it had *)
(* stored it.                                                               *)
RefusedSkipped == next + 1
RefusedAgain == next

(* CURL_WRITEFUNC_PAUSE: libcurl keeps the chunk and delivers it again. *)
RefuseChunk ==
  /\ Arrives /\ Open /\ ~HasSpace
  /\ next' = RefusedAgain
  /\ paused' = TRUE
  /\ curlPaused' = TRUE
  /\ UNCHANGED <<ring, closed, terminal_set, terminal_code, cancel_sent,
                 waiter, chanVars, transfer, code, result, done, threadVars,
                 inHand, received, lost, outcome>>

(* A callback that returns 0, on a finished stream or when malloc fails,    *)
(* ends the transfer; check_multi_info reads CURLE_WRITE_ERROR.             *)
RejectChunk ==
  /\ Arrives /\ (~Open \/ HasSpace)
  /\ Finish("error")
  /\ UNCHANGED <<streamVars, chanVars, curlPaused, result, done, wake, token,
                 owner, readVars>>

CallbackFire ==
  /\ pc[Reactor] \in {"fire", "firePause"}
  /\ Fire(Reactor, IF pc[Reactor] = "fire" THEN "loop" ELSE "pause")
  /\ UNCHANGED <<streamVars, chanVars, curlVars, token, readVars>>

(* curl_easy_pause(CURLPAUSE_RECV); its failure makes the callback return 0. *)
CallbackPause ==
  /\ pc[Reactor] = "pause"
  /\ \/ curlPaused' = TRUE /\ Goto(Reactor, "loop") /\ UNCHANGED <<transfer, code>>
     \/ Finish("error") /\ UNCHANGED curlPaused
  /\ UNCHANGED <<streamVars, chanVars, result, done, wake, token, owner,
                 readVars>>

(* libcurl reports success only when it has delivered the whole body. *)
BodyDone == next > N /\ CurlDone("ok") /\ UNCHANGED readVars

-----------------------------------------------------------------------------
ReaderStep ==
  \/ TryRead \/ ReadResumed \/ WaitRead \/ FinishRead
  \/ (FlushResume \/ EnqueueResumeOk \/ EnqueueResumeFail \/ RestorePaused
      \/ FlushRetry \/ LocalComplete(User) \/ LocalFire(User) \/ Woken
      \/ Unregister) /\ UNCHANGED readVars

CloseStep(c) == CloserStep(c) /\ UNCHANGED readVars

ReactorStep ==
  \/ CallbackFire \/ CallbackPause
  \/ (ResumeTransfer \/ ExecuteOk \/ ExecuteFail \/ CancelTransfer \/ StaleControl
      \/ FinishStep \/ Drain) /\ UNCHANGED readVars

Deliver == AcceptChunk \/ RefuseChunk \/ RejectChunk

(* What nobody can count on: new calls, exceptions, failures, other senders. *)
Environment ==
  \/ StartRead \/ InterruptDelay \/ InterruptFinish
  \/ (InterruptWait \/ RequestCancel \/ ResumeRequest \/ CurlDone("error")
      \/ (\E c \in {"aborted", "error"} : Shutdown(c))
      \/ (\E c \in Closers : StartClose(c) \/ RetryClose(c)))
     /\ UNCHANGED readVars

Next ==
  \/ ReaderStep \/ (\E c \in Closers : CloseStep(c))
  \/ ReactorStep \/ Deliver \/ BodyDone \/ Environment

Spec == Init /\ [][Next]_vars

(* Every thread that can run does; the queue is not full for ever, so one   *)
(* of the repeated attempts at a control message gets through.              *)
ThreadFairness ==
  /\ WF_vars(ReaderStep) /\ SF_vars(EnqueueResumeOk /\ UNCHANGED readVars)
  /\ \A c \in Closers : /\ WF_vars(CloseStep(c))
                        /\ SF_vars(EnqueueCancelOk(c) /\ UNCHANGED readVars)
  /\ WF_vars(ReactorStep)

(* The server sends the rest of its response while libcurl is not paused. *)
ServerFairness ==
  /\ WF_vars(Deliver)
  /\ WF_vars(BodyDone /\ ~curlPaused)

SilentSpec == Spec /\ ThreadFairness

-----------------------------------------------------------------------------
(* Properties *)

ReactorPcs == {"loop", "fire", "firePause", "pause", "normalize", "setResult",
               "complete", "completeFire", "wakeResult", "drain", "stopped"}

(* The state is what the structs and the threads can hold, and the ring     *)
(* never exceeds the capacity hcurl_stream_create was given.                *)
TypeOK ==
  /\ StreamType(Chunks) /\ ChanType /\ CurlType /\ ThreadType(ReactorPcs)
  /\ next \in 1..(N + 1) /\ inHand \in Chunks \cup {NoChunk}
  /\ received \in Seq(Chunks) /\ lost \in SUBSET Chunks
  /\ outcome \in Outcomes

(* No lost wake-up: a reader stays registered only while there is nothing   *)
(* to read, the stream is open, and no resume is owed.                      *)
NoLostWakeup ==
  waiter # NoToken =>
    ring = <<>> /\ ~closed /\ ~terminal_set /\ ~paused

Taken == {received[i] : i \in 1..Len(received)} \cup lost
         \cup ({inHand} \ {NoChunk})

(* The reader sees the body in order and nothing twice.  A chunk is missing *)
(* only where an exception ended the call that had it in hand (Body.hs:296  *)
(* retries a RESUME with an interruptible delay): what was returned, is in  *)
(* hand or fell to such a call is a prefix of the body, and while the       *)
(* stream is open the ring holds exactly the rest of what libcurl has       *)
(* delivered.  A closed stream stores nothing, and the end of the body is   *)
(* reported only when every chunk of it was taken.                          *)
BodyInOrder ==
  /\ \A i, j \in 1..Len(received) : i < j => received[i] < received[j]
  /\ \A i \in 1..Len(received) : received[i] \notin lost
  /\ ~DelayInterruptible => lost = {}
  /\ inHand # NoChunk => \A c \in Taken : c <= inHand
  /\ \E k \in 0..(next - 1) :
       /\ Taken = 1..k
       /\ ~closed => /\ k + Len(ring) = next - 1
                     /\ \A i \in 1..Len(ring) : ring[i] = k + i
  /\ ClosedIsEmpty
  /\ outcome = "eof" => Taken = Chunks /\ result = "ok"

(* A reader that sleeps while libcurl is paused has a RESUME on its way. *)
NoStall ==
  waiter # NoToken /\ transfer = "active" /\ curlPaused => Has("RESUME")

(* Closing the body or stopping the agent frees a reader that is waiting. *)
EndFreesReader == closed \/ senderClosed ~> pc[User] \notin {"wait", "blocked"}

(* A reader that keeps reading gets to the end of the response, if the      *)
(* server sends one: every pause of the full ring is ended by a RESUME.     *)
ReadingEnds ==
  ServerFairness /\ WF_vars(StartRead) => <>(outcome \in {"eof", "error", "closed"})

-----------------------------------------------------------------------------
(* The inductive invariant behind NoLostWakeup, TokenOwnership and NoStall *)

(* TokenOwnership, and: only a thread about to fire holds a waiter; the     *)
(* registered waiter and a fired pointer are User's current one.            *)
TokenInv ==
  /\ TokenOwnership
  /\ \A p \in Procs : wake[p] # NoToken =>
       pc[p] \in {"fire", "firePause", "completeFire", "localFire",
                  "fireCancel", "fireOk"}
  /\ token # NoToken <=> pc[User] \in {"blocked", "unregister"}
  /\ \A t \in Tokens : owner[t] = "fired" => t = token
  /\ waiter # NoToken => waiter = token

(* Where the reactor is, what is queued and how far the transfer has come. *)
ReactorInv ==
  /\ cancel_sent => closed
  /\ senderClosed => /\ transfer # "active"
                     /\ pc[Reactor] \notin {"loop", "fire", "firePause", "pause"}
  /\ \A i \in 1..Len(chan) :
       chan[i] = "EXECUTE" => i = 1 /\ transfer = "queued"
  /\ transfer = "queued" => ~curlPaused
  /\ pc[Reactor] \in {"fire", "firePause", "pause"} => transfer = "active"
  /\ pc[Reactor] \in {"normalize", "setResult", "complete", "completeFire",
                      "wakeResult"} => transfer = "detached"
  /\ pc[Reactor] \in {"drain", "stopped"} => senderClosed
  /\ done => transfer = "gone"

(* A pause libcurl is in, or about to be put into, is still remembered in   *)
(* paused, has its RESUME queued or about to be queued, or does not matter  *)
(* because the stream is over.                                              *)
ResumeInv ==
  /\ transfer = "active"
  /\ curlPaused \/ pc[Reactor] \in {"firePause", "pause"}
  => \/ paused \/ Has("RESUME") \/ closed \/ terminal_set
     \/ pc[User] \in {"enqResume", "unresume"}

(* The invariant every step of the stream preserves (DownloadProofs). *)
IInv == TypeOK /\ TokenInv /\ NoLostWakeup /\ ReactorInv /\ ResumeInv
=============================================================================
