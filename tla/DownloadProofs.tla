--------------------------- MODULE DownloadProofs ---------------------------
(***************************************************************************)
(* Safety of DownloadStream for every Capacity, N, set of Closers and set  *)
(* of Tokens.  IInv is proved inductive part by part, one step per action; *)
(* EndInv, BodyInv, ResumeBound and CancelBound rest on it, and the        *)
(* theorems follow from them.                                              *)
(***************************************************************************)
EXTENDS DownloadStream, SequenceTheorems, FiniteSetTheorems, TLAPS

ReadType ==
  /\ next \in 1..(N + 1) /\ inHand \in Chunks \cup {NoChunk}
  /\ received \in Seq(Chunks) /\ lost \in SUBSET Chunks
  /\ outcome \in Outcomes

FinishLabels == {"normalize", "setResult", "complete", "completeFire", "wakeResult"}

(* The end of the transfer and of the stream.  A thread completes the       *)
(* stream itself only when the sender is closed, and then the reactor has   *)
(* no success left to report.  EXECUTE is the first message until it is     *)
(* taken, so that the drain cannot miss it.                                 *)
EndInv ==
  /\ senderClosed => code # "ok"
  /\ \A p \in Procs : pc[p] = "localComplete" => senderClosed
  /\ transfer = "detached" => pc[Reactor] \in FinishLabels
  /\ done <=> transfer = "gone"
  /\ result # "none" <=>
       done \/ pc[Reactor] \in {"complete", "completeFire", "wakeResult"}
  /\ pc[Reactor] = "complete" => result = code
  /\ done \/ pc[Reactor] \in {"completeFire", "wakeResult"} => terminal_set
  /\ terminal_set /\ result = "none" => senderClosed /\ terminal_code # "ok"
  /\ transfer = "queued" => chan # <<>> /\ Head(chan) = "EXECUTE"
  /\ Agreement

(* Success is on its way, or reported, only after the last chunk. *)
WholeInv ==
  /\ code = "ok" /\ pc[Reactor] \in {"normalize", "setResult", "complete"} => next = N + 1
  /\ result = "ok" => next = N + 1
  /\ terminal_set /\ terminal_code = "ok" => next = N + 1

HandLabels == {"flush", "enqResume", "unresume", "delay", "localComplete",
               "localFire", "resumed"}

(* The chunks taken are a prefix of the body and the ring is what follows;  *)
(* the one in hand is the newest, and a call keeps it until it returns or   *)
(* is interrupted.                                                          *)
PrefixInv ==
  \E k \in 0..(next - 1) :
    /\ Taken = 1..k
    /\ ~closed => /\ k + Len(ring) = next - 1
                  /\ \A i \in 1..Len(ring) : ring[i] = k + i

OrderInv ==
  /\ \A i, j \in 1..Len(received) : i < j => received[i] < received[j]
  /\ \A i \in 1..Len(received) : received[i] \notin lost
  /\ ~DelayInterruptible => lost = {}
  /\ inHand # NoChunk => /\ pc[User] \in HandLabels
                         /\ \A i \in 1..Len(received) : received[i] < inHand
                         /\ \A c \in lost : c < inHand

(* The reader goes to wait for doneRequest only when nothing is left. *)
EofInv ==
  /\ pc[User] = "finish" => terminal_set /\ (terminal_code = "ok" => Taken = Chunks)
  /\ outcome = "eof" => pc[User] = "idle" /\ Taken = Chunks /\ result = "ok"

BodyInv == WholeInv /\ PrefixInv /\ OrderInv /\ EofInv

(* A closed transfer that has no success left to report. *)
Abandoned ==
  closed /\ result # "ok" /\ (pc[Reactor] = "setResult" => code # "ok")

One(b) == IF b THEN 1 ELSE 0

(* A RESUME the stream owes is in the queue, in the hands of flush_resume   *)
(* or still in paused.  While libcurl is not paused there is none of the    *)
(* stream's own, and a pause adds one.                                      *)
Owed == Count("RESUME") + One(paused) + One(pc[User] \in {"enqResume", "unresume"})

Listening ==
  /\ transfer \in {"queued", "active"} /\ ~curlPaused
  /\ pc[Reactor] \notin {"firePause", "pause"}

ResumeBound ==
  Owed <= 1 + One(spurious) /\ (Listening => Owed <= One(spurious))

Cancelling(c) == pc[c] \in {"fireCancel", "enqCancel", "uncancel"}

(* cancel_sent admits one closer at a time, and stays set once its CANCEL   *)
(* has been accepted.                                                       *)
CancelBound ==
  /\ \A c, d \in Closers : Cancelling(c) /\ Cancelling(d) => c = d
  /\ \A c \in Closers : Cancelling(c) => cancel_sent /\ Count("CANCEL") <= One(cancelled)
  /\ ~cancel_sent => Count("CANCEL") <= One(cancelled)
  /\ Count("CANCEL") <= 1 + One(cancelled)

(* Every step of every thread keeps the types and the ring's bound. *)
LEMMA TypeStep == TypeOK /\ [Next]_vars => TypeOK'
<1> SUFFICES ASSUME TypeOK, [Next]_vars PROVE TypeOK'
  OBVIOUS
<1>c. /\ chan # <<>> => Head(chan) \in Msgs /\ Tail(chan) \in Seq(Msgs)
      /\ ring # <<>> => /\ Head(ring) \in Chunks /\ Tail(ring) \in Seq(Chunks)
                        /\ Len(Tail(ring)) <= Capacity
      /\ \A e \in Chunks : Append(received, e) \in Seq(Chunks)
      /\ <<>> \in Seq(Chunks) /\ Len(<<>>) <= Capacity
  BY HeadTailProperties, AppendProperties, EmptySeq, LenProperties, StreamAssumption
  DEF TypeOK, StreamType, ChanType
<1> USE StreamAssumption, DownloadAssumption
    DEF TypeOK, StreamType, ChanType, CurlType, ThreadType, vars, sharedVars,
        streamVars, chanVars, curlVars, threadVars, readVars, Goto, Procs,
        Codes, Msgs, OptToken, Chunks, NoChunk, Outcomes, UserPcs, CloserPcs,
        ReactorPcs
<1>1. CASE StartRead
  BY <1>1 DEF StartRead
<1>2. CASE TryRead
  <2>a. CASE ring # <<>>
    <3>1. StreamType(Chunks)'
      BY <1>2, <2>a, <1>c DEF TryRead, ChunkFirst, ResumeAfter
    <3>2. ChanType'
      BY <1>2, <2>a, <1>c DEF TryRead, ChunkFirst, ResumeAfter
    <3>3. CurlType'
      BY <1>2, <2>a, <1>c DEF TryRead, ChunkFirst, ResumeAfter
    <3>4. ThreadType(ReactorPcs)'
      BY <1>2, <2>a DEF TryRead, ChunkFirst, ResumeAfter
    <3>5. ReadType'
      BY <1>2, <2>a, <1>c DEF TryRead, ChunkFirst, ResumeAfter, ReadType
    <3>q. QED
      BY <3>1, <3>2, <3>3, <3>4, <3>5 DEF ReadType
  <2>b. CASE ring = <<>>
    <3>1. StreamType(Chunks)'
      BY <1>2, <2>b, <1>c DEF TryRead, ChunkFirst, ResumeAfter
    <3>2. ChanType'
      BY <1>2, <2>b, <1>c DEF TryRead, ChunkFirst, ResumeAfter
    <3>3. CurlType'
      BY <1>2, <2>b, <1>c DEF TryRead, ChunkFirst, ResumeAfter
    <3>4. ThreadType(ReactorPcs)'
      BY <1>2, <2>b DEF TryRead, ChunkFirst, ResumeAfter
    <3>5. ReadType'
      BY <1>2, <2>b, <1>c DEF TryRead, ChunkFirst, ResumeAfter, ReadType
    <3>q. QED
      BY <3>1, <3>2, <3>3, <3>4, <3>5 DEF ReadType
  <2>q. QED
    BY <2>a, <2>b
<1>3. CASE ReadResumed
  <2>a. CASE inHand # NoChunk
    <3>1. StreamType(Chunks)'
      BY <1>3, <2>a, <1>c DEF ReadResumed, PauseKept
    <3>2. ChanType'
      BY <1>3, <2>a, <1>c DEF ReadResumed, PauseKept
    <3>3. CurlType'
      BY <1>3, <2>a, <1>c DEF ReadResumed, PauseKept
    <3>0. pc' = [pc EXCEPT ![User] = "idle"] /\ UNCHANGED <<wake, token, owner>>
      BY <1>3, <2>a DEF ReadResumed, PauseKept
    <3>4. ThreadType(ReactorPcs)'
      BY <3>0
    <3>6. /\ received' = Append(received, inHand) /\ inHand' = NoChunk
          /\ outcome' = "chunk" /\ UNCHANGED <<next, lost>>
      BY <1>3, <2>a DEF ReadResumed
    <3>5. ReadType'
      BY <3>6, <2>a, <1>c DEF ReadType
    <3>q. QED
      BY <3>1, <3>2, <3>3, <3>4, <3>5 DEF ReadType
  <2>b. CASE inHand = NoChunk
    <3>1. StreamType(Chunks)'
      BY <1>3, <2>b, <1>c DEF ReadResumed, PauseKept
    <3>2. ChanType'
      BY <1>3, <2>b, <1>c DEF ReadResumed, PauseKept
    <3>3. CurlType'
      BY <1>3, <2>b, <1>c DEF ReadResumed, PauseKept
    <3>4. ThreadType(ReactorPcs)'
      BY <1>3, <2>b DEF ReadResumed, PauseKept
    <3>5. ReadType'
      BY <1>3, <2>b, <1>c DEF ReadResumed, PauseKept, ReadType
    <3>q. QED
      BY <3>1, <3>2, <3>3, <3>4, <3>5 DEF ReadType
  <2>q. QED
    BY <2>a, <2>b
<1>4. CASE WaitRead
  <2>1. StreamType(Chunks)'
    BY <1>4 DEF WaitRead, ReadReady, Register
  <2>2. ChanType'
    BY <1>4 DEF WaitRead, ReadReady, Register
  <2>3. CurlType'
    BY <1>4 DEF WaitRead, ReadReady, Register
  <2>4. ThreadType(ReactorPcs)'
    BY <1>4 DEF WaitRead, ReadReady, Register
  <2>5. ReadType'
    BY <1>4 DEF WaitRead, ReadReady, Register, ReadType
  <2>q. QED
    BY <2>1, <2>2, <2>3, <2>4, <2>5 DEF ReadType
<1>5. CASE FinishRead
  BY <1>5 DEF FinishRead
<1>6. CASE InterruptDelay
  BY <1>6 DEF InterruptDelay
<1>7. CASE InterruptFinish
  BY <1>7 DEF InterruptFinish
<1>8. CASE AcceptChunk
  BY <1>8 DEF AcceptChunk, Arrives, AtLoop, Open, HasSpace, Detach
<1>9. CASE RefuseChunk
  BY <1>9 DEF RefuseChunk, Arrives, AtLoop, Open, HasSpace, RefusedAgain
<1>10. CASE RejectChunk
  BY <1>10 DEF RejectChunk, Arrives, AtLoop, Finish
<1>11. CASE CallbackFire
  BY <1>11 DEF CallbackFire, Fire
<1>12. CASE CallbackPause
  <2>1. StreamType(Chunks)'
    BY <1>12 DEF CallbackPause, Finish
  <2>2. ChanType'
    BY <1>12 DEF CallbackPause, Finish
  <2>3. CurlType'
    BY <1>12 DEF CallbackPause, Finish
  <2>0. /\ \/ pc' = [pc EXCEPT ![Reactor] = "loop"]
           \/ pc' = [pc EXCEPT ![Reactor] = "normalize"]
        /\ UNCHANGED <<wake, token, owner>>
    BY <1>12 DEF CallbackPause, Finish
  <2>4. ThreadType(ReactorPcs)'
    BY <2>0
  <2>5. ReadType'
    BY <1>12 DEF CallbackPause, Finish, ReadType
  <2>q. QED
    BY <2>1, <2>2, <2>3, <2>4, <2>5 DEF ReadType
<1>13. CASE BodyDone
  BY <1>13 DEF BodyDone, CurlDone, AtLoop, Finish
<1>14. CASE FlushResume /\ UNCHANGED readVars
  BY <1>14 DEF FlushResume, NeedsResume
<1>15. CASE EnqueueResumeOk /\ UNCHANGED readVars
  BY <1>15 DEF EnqueueResumeOk
<1>16. CASE EnqueueResumeFail /\ UNCHANGED readVars
  BY <1>16 DEF EnqueueResumeFail, ResumeFailed
<1>17. CASE RestorePaused /\ UNCHANGED readVars
  BY <1>17 DEF RestorePaused, OwedAgain
<1>18. CASE FlushRetry /\ UNCHANGED readVars
  BY <1>18 DEF FlushRetry
<1>19. CASE Woken /\ UNCHANGED readVars
  <2>1. StreamType(Chunks)'
    BY <1>19 DEF Woken
  <2>2. ChanType'
    BY <1>19 DEF Woken
  <2>3. CurlType'
    BY <1>19 DEF Woken
  <2>4. ThreadType(ReactorPcs)'
    BY <1>19 DEF Woken
  <2>5. ReadType'
    BY <1>19 DEF Woken, ReadType
  <2>q. QED
    BY <2>1, <2>2, <2>3, <2>4, <2>5 DEF ReadType
<1>20. CASE InterruptWait /\ UNCHANGED readVars
  BY <1>20 DEF InterruptWait
<1>21. CASE Unregister /\ UNCHANGED readVars
  <2>1. StreamType(Chunks)'
    BY <1>21 DEF Unregister, StillRegistered
  <2>2. ChanType'
    BY <1>21 DEF Unregister, StillRegistered
  <2>3. CurlType'
    BY <1>21 DEF Unregister, StillRegistered
  <2>4. ThreadType(ReactorPcs)'
    BY <1>21 DEF Unregister, StillRegistered
  <2>5. ReadType'
    BY <1>21 DEF Unregister, StillRegistered, ReadType
  <2>q. QED
    BY <2>1, <2>2, <2>3, <2>4, <2>5 DEF ReadType
<1>22. CASE RequestCancel /\ UNCHANGED readVars
  BY <1>22 DEF RequestCancel
<1>23. CASE ResumeRequest /\ UNCHANGED readVars
  BY <1>23 DEF ResumeRequest
<1>24. CASE ExecuteOk /\ UNCHANGED readVars
  BY <1>24 DEF ExecuteOk, Receive, AtLoop
<1>25. CASE ExecuteFail /\ UNCHANGED readVars
  BY <1>25 DEF ExecuteFail, Receive, AtLoop
<1>26. CASE CancelTransfer /\ UNCHANGED readVars
  BY <1>26 DEF CancelTransfer, Receive, AtLoop, Finish
<1>27. CASE ResumeTransfer /\ UNCHANGED readVars
  <2>1. StreamType(Chunks)'
    BY <1>27, <1>c DEF ResumeTransfer, Receive, AtLoop, Finish
  <2>2. ChanType'
    BY <1>27, <1>c DEF ResumeTransfer, Receive, AtLoop, Finish
  <2>3. CurlType'
    BY <1>27, <1>c DEF ResumeTransfer, Receive, AtLoop, Finish
  <2>4. ThreadType(ReactorPcs)'
    BY <1>27 DEF ResumeTransfer, Receive, AtLoop, Finish
  <2>5. ReadType'
    BY <1>27, <1>c DEF ResumeTransfer, Receive, AtLoop, Finish, ReadType
  <2>q. QED
    BY <2>1, <2>2, <2>3, <2>4, <2>5 DEF ReadType
<1>28. CASE StaleControl /\ UNCHANGED readVars
  <2>1. StreamType(Chunks)'
    BY <1>28, <1>c DEF StaleControl, Receive, AtLoop
  <2>2. ChanType'
    BY <1>28, <1>c DEF StaleControl, Receive, AtLoop
  <2>3. CurlType'
    BY <1>28, <1>c DEF StaleControl, Receive, AtLoop
  <2>4. ThreadType(ReactorPcs)'
    BY <1>28 DEF StaleControl, Receive, AtLoop
  <2>5. ReadType'
    BY <1>28, <1>c DEF StaleControl, Receive, AtLoop, ReadType
  <2>q. QED
    BY <2>1, <2>2, <2>3, <2>4, <2>5 DEF ReadType
<1>29. CASE CurlDone("error") /\ UNCHANGED readVars
  BY <1>29 DEF CurlDone, AtLoop, Finish
<1>30. CASE Normalize /\ UNCHANGED readVars
  BY <1>30 DEF Normalize, Normalized
<1>31. CASE SetResult /\ UNCHANGED readVars
  BY <1>31 DEF SetResult
<1>32. CASE CompleteTransfer /\ UNCHANGED readVars
  <2>1. StreamType(Chunks)'
    BY <1>32 DEF CompleteTransfer, CompleteStream, FirstCode, Detach
  <2>2. ChanType'
    BY <1>32 DEF CompleteTransfer, CompleteStream, FirstCode, Detach
  <2>3. CurlType'
    BY <1>32 DEF CompleteTransfer, CompleteStream, FirstCode, Detach
  <2>4. ThreadType(ReactorPcs)'
    BY <1>32 DEF CompleteTransfer, CompleteStream, FirstCode, Detach
  <2>5. ReadType'
    BY <1>32 DEF CompleteTransfer, CompleteStream, FirstCode, Detach, ReadType
  <2>q. QED
    BY <2>1, <2>2, <2>3, <2>4, <2>5 DEF ReadType
<1>33. CASE CompleteFire /\ UNCHANGED readVars
  BY <1>33 DEF CompleteFire, Fire
<1>34. CASE WakeResult /\ UNCHANGED readVars
  BY <1>34 DEF WakeResult
<1>35. CASE Drain /\ UNCHANGED readVars
  <2>a. CASE chan # <<>>
    <3>1. StreamType(Chunks)'
      BY <1>35, <2>a, <1>c DEF Drain, DrainFails
    <3>2. ChanType'
      BY <1>35, <2>a, <1>c DEF Drain, DrainFails
    <3>3. CurlType'
      BY <1>35, <2>a, <1>c DEF Drain, DrainFails
    <3>0. /\ pc' = pc \/ pc' = [pc EXCEPT ![Reactor] = "setResult"]
          /\ UNCHANGED <<wake, token, owner>>
      BY <1>35, <2>a DEF Drain, DrainFails
    <3>4. ThreadType(ReactorPcs)'
      BY <3>0
    <3>5. ReadType'
      BY <1>35, <2>a, <1>c DEF Drain, DrainFails, ReadType
    <3>q. QED
      BY <3>1, <3>2, <3>3, <3>4, <3>5 DEF ReadType
  <2>b. CASE chan = <<>>
    <3>1. StreamType(Chunks)'
      BY <1>35, <2>b, <1>c DEF Drain, DrainFails
    <3>2. ChanType'
      BY <1>35, <2>b, <1>c DEF Drain, DrainFails
    <3>3. CurlType'
      BY <1>35, <2>b, <1>c DEF Drain, DrainFails
    <3>4. ThreadType(ReactorPcs)'
      BY <1>35, <2>b DEF Drain, DrainFails
    <3>5. ReadType'
      BY <1>35, <2>b, <1>c DEF Drain, DrainFails, ReadType
    <3>q. QED
      BY <3>1, <3>2, <3>3, <3>4, <3>5 DEF ReadType
  <2>q. QED
    BY <2>a, <2>b
<1>36. CASE \E c \in {"aborted", "error"} : Shutdown(c) /\ UNCHANGED readVars
  <2>1. StreamType(Chunks)'
    BY <1>36 DEF Shutdown, AtLoop, Finish
  <2>2. ChanType'
    BY <1>36 DEF Shutdown, AtLoop, Finish
  <2>3. CurlType'
    BY <1>36 DEF Shutdown, AtLoop, Finish
  <2>0. /\ \/ pc' = [pc EXCEPT ![Reactor] = "drain"]
           \/ pc' = [pc EXCEPT ![Reactor] = "normalize"]
        /\ UNCHANGED <<wake, token, owner>>
    BY <1>36 DEF Shutdown, AtLoop, Finish
  <2>4. ThreadType(ReactorPcs)'
    BY <2>0
  <2>5. ReadType'
    BY <1>36 DEF Shutdown, AtLoop, Finish, ReadType
  <2>q. QED
    BY <2>1, <2>2, <2>3, <2>4, <2>5 DEF ReadType
<1>37. CASE \E p \in {User} \cup Closers : LocalComplete(p) /\ UNCHANGED readVars
  <2>0. /\ terminal_set' = TRUE /\ terminal_code' \in Codes
        /\ paused' = FALSE /\ waiter' = NoToken
        /\ UNCHANGED <<ring, closed, cancel_sent>>
    BY <1>37 DEF LocalComplete, CompleteStream, FirstCode, Detach
  <2>1. StreamType(Chunks)'
    BY <2>0
  <2>2. ChanType'
    BY <1>37 DEF LocalComplete, CompleteStream, FirstCode, Detach
  <2>3. CurlType'
    BY <1>37 DEF LocalComplete, CompleteStream, FirstCode, Detach
  <2>4. ThreadType(ReactorPcs)'
    BY <1>37 DEF LocalComplete, CompleteStream, FirstCode, Detach
  <2>5. ReadType'
    BY <1>37 DEF LocalComplete, CompleteStream, FirstCode, Detach, ReadType
  <2>q. QED
    BY <2>1, <2>2, <2>3, <2>4, <2>5 DEF ReadType
<1>38. CASE \E p \in {User} \cup Closers : LocalFire(p) /\ UNCHANGED readVars
  BY <1>38 DEF LocalFire, Fire
<1>39. CASE \E c \in Closers : StartClose(c) /\ UNCHANGED readVars
  BY <1>39 DEF StartClose
<1>40. CASE \E c \in Closers : CloseStream(c) /\ UNCHANGED readVars
  <2>0. /\ closed' = TRUE /\ paused' = FALSE /\ ring' = <<>>
        /\ waiter' = NoToken /\ cancel_sent' \in BOOLEAN
        /\ UNCHANGED <<terminal_set, terminal_code>>
    BY <1>40 DEF CloseStream, NeedsCancel, Detach
  <2>1. StreamType(Chunks)'
    BY <2>0, <1>c
  <2>2. ChanType'
    BY <1>40, <1>c DEF CloseStream, NeedsCancel, Detach
  <2>3. CurlType'
    BY <1>40, <1>c DEF CloseStream, NeedsCancel, Detach
  <2>4. ThreadType(ReactorPcs)'
    BY <1>40 DEF CloseStream, NeedsCancel, Detach
  <2>5. ReadType'
    BY <1>40, <1>c DEF CloseStream, NeedsCancel, Detach, ReadType
  <2>q. QED
    BY <2>1, <2>2, <2>3, <2>4, <2>5 DEF ReadType
<1>41. CASE \E c \in Closers : CloseFire(c) /\ UNCHANGED readVars
  BY <1>41 DEF CloseFire, Fire
<1>42. CASE \E c \in Closers : EnqueueCancelOk(c) /\ UNCHANGED readVars
  BY <1>42 DEF EnqueueCancelOk
<1>43. CASE \E c \in Closers : EnqueueCancelFail(c) /\ UNCHANGED readVars
  BY <1>43 DEF EnqueueCancelFail
<1>44. CASE \E c \in Closers : UndoCancel(c) /\ UNCHANGED readVars
  BY <1>44 DEF UndoCancel, CancelUndone
<1>45. CASE \E c \in Closers : AwaitDone(c) /\ UNCHANGED readVars
  BY <1>45 DEF AwaitDone
<1>46. CASE \E c \in Closers : RetryClose(c) /\ UNCHANGED readVars
  BY <1>46 DEF RetryClose
<1>47. CASE UNCHANGED vars
  BY <1>47
<1>q. QED
  BY <1>1, <1>2, <1>3, <1>4, <1>5, <1>6, <1>7, <1>8, <1>9, <1>10, <1>11,
     <1>12, <1>13, <1>14, <1>15, <1>16, <1>17, <1>18, <1>19, <1>20, <1>21,
     <1>22, <1>23, <1>24, <1>25, <1>26, <1>27, <1>28, <1>29, <1>30, <1>31,
     <1>32, <1>33, <1>34, <1>35, <1>36, <1>37, <1>38, <1>39, <1>40, <1>41,
     <1>42, <1>43, <1>44, <1>45, <1>46, <1>47
  DEF Next, ReaderStep, CloseStep, CloserStep, ReactorStep, FinishStep,
      Deliver, Environment

(* Detaching, firing, registering and cancelling move each StablePtr        *)
(* between its owners without losing or copying it.                         *)
LEMMA TokenStep == TypeOK /\ TokenInv /\ [Next]_vars => TokenInv'
<1> SUFFICES ASSUME TypeOK, TokenInv, [Next]_vars PROVE TokenInv'
  OBVIOUS
<1>t. /\ pc \in [Procs -> UserPcs \cup CloserPcs \cup ReactorPcs]
      /\ wake \in [Procs -> OptToken] /\ token \in OptToken /\ waiter \in OptToken
      /\ owner \in [Tokens -> {"unused", "c", "fired", "corrupt"}]
  BY DEF TypeOK, StreamType, ThreadType
<1> USE StreamAssumption, <1>t
    DEF TokenInv, TokenOwnership, Procs, OptToken, vars, sharedVars, streamVars, chanVars, curlVars, threadVars, readVars,
        Goto
<1>1. CASE StartRead
  BY <1>1 DEF StartRead
<1>2. CASE TryRead
  BY <1>2 DEF TryRead, ChunkFirst, ResumeAfter
<1>3. CASE ReadResumed
  BY <1>3 DEF ReadResumed, PauseKept
<1>4. CASE WaitRead
  BY <1>4 DEF WaitRead, ReadReady, Register
<1>5. CASE FinishRead
  BY <1>5 DEF FinishRead
<1>6. CASE InterruptDelay
  BY <1>6 DEF InterruptDelay
<1>7. CASE InterruptFinish
  BY <1>7 DEF InterruptFinish
<1>8. CASE AcceptChunk
  BY <1>8 DEF AcceptChunk, Arrives, AtLoop, Open, HasSpace, Detach
<1>9. CASE RefuseChunk
  BY <1>9 DEF RefuseChunk, Arrives, AtLoop, Open, HasSpace, RefusedAgain
<1>10. CASE RejectChunk
  BY <1>10 DEF RejectChunk, Arrives, AtLoop, Finish
<1>11. CASE CallbackFire
  BY <1>11 DEF CallbackFire, Fire
<1>12. CASE CallbackPause
  BY <1>12 DEF CallbackPause, Finish
<1>13. CASE BodyDone
  BY <1>13 DEF BodyDone, CurlDone, AtLoop, Finish
<1>14. CASE FlushResume /\ UNCHANGED readVars
  BY <1>14 DEF FlushResume, NeedsResume
<1>15. CASE EnqueueResumeOk /\ UNCHANGED readVars
  BY <1>15 DEF EnqueueResumeOk
<1>16. CASE EnqueueResumeFail /\ UNCHANGED readVars
  BY <1>16 DEF EnqueueResumeFail, ResumeFailed
<1>17. CASE RestorePaused /\ UNCHANGED readVars
  BY <1>17 DEF RestorePaused, OwedAgain
<1>18. CASE FlushRetry /\ UNCHANGED readVars
  BY <1>18 DEF FlushRetry
<1>19. CASE Woken /\ UNCHANGED readVars
  BY <1>19 DEF Woken
<1>20. CASE InterruptWait /\ UNCHANGED readVars
  BY <1>20 DEF InterruptWait
<1>21. CASE Unregister /\ UNCHANGED readVars
  BY <1>21 DEF Unregister, StillRegistered
<1>22. CASE RequestCancel /\ UNCHANGED readVars
  BY <1>22 DEF RequestCancel
<1>23. CASE ResumeRequest /\ UNCHANGED readVars
  BY <1>23 DEF ResumeRequest
<1>24. CASE ExecuteOk /\ UNCHANGED readVars
  BY <1>24 DEF ExecuteOk, Receive, AtLoop
<1>25. CASE ExecuteFail /\ UNCHANGED readVars
  BY <1>25 DEF ExecuteFail, Receive, AtLoop
<1>26. CASE CancelTransfer /\ UNCHANGED readVars
  BY <1>26 DEF CancelTransfer, Receive, AtLoop, Finish
<1>27. CASE ResumeTransfer /\ UNCHANGED readVars
  BY <1>27 DEF ResumeTransfer, Receive, AtLoop, Finish
<1>28. CASE StaleControl /\ UNCHANGED readVars
  BY <1>28 DEF StaleControl, Receive, AtLoop
<1>29. CASE CurlDone("error") /\ UNCHANGED readVars
  BY <1>29 DEF CurlDone, AtLoop, Finish
<1>30. CASE Normalize /\ UNCHANGED readVars
  BY <1>30 DEF Normalize, Normalized
<1>31. CASE SetResult /\ UNCHANGED readVars
  BY <1>31 DEF SetResult
<1>32. CASE CompleteTransfer /\ UNCHANGED readVars
  BY <1>32 DEF CompleteTransfer, CompleteStream, FirstCode, Detach
<1>33. CASE CompleteFire /\ UNCHANGED readVars
  BY <1>33 DEF CompleteFire, Fire
<1>34. CASE WakeResult /\ UNCHANGED readVars
  BY <1>34 DEF WakeResult
<1>35. CASE Drain /\ UNCHANGED readVars
  BY <1>35 DEF Drain, DrainFails
<1>36. CASE \E c \in {"aborted", "error"} : Shutdown(c) /\ UNCHANGED readVars
  BY <1>36 DEF Shutdown, AtLoop, Finish
<1>37. CASE \E p \in {User} \cup Closers : LocalComplete(p) /\ UNCHANGED readVars
  BY <1>37 DEF LocalComplete, CompleteStream, FirstCode, Detach
<1>38. CASE \E p \in {User} \cup Closers : LocalFire(p) /\ UNCHANGED readVars
  BY <1>38 DEF LocalFire, Fire
<1>39. CASE \E c \in Closers : StartClose(c) /\ UNCHANGED readVars
  BY <1>39 DEF StartClose
<1>40. CASE \E c \in Closers : CloseStream(c) /\ UNCHANGED readVars
  BY <1>40 DEF CloseStream, NeedsCancel, Detach
<1>41. CASE \E c \in Closers : CloseFire(c) /\ UNCHANGED readVars
  BY <1>41 DEF CloseFire, Fire
<1>42. CASE \E c \in Closers : EnqueueCancelOk(c) /\ UNCHANGED readVars
  BY <1>42 DEF EnqueueCancelOk
<1>43. CASE \E c \in Closers : EnqueueCancelFail(c) /\ UNCHANGED readVars
  BY <1>43 DEF EnqueueCancelFail
<1>44. CASE \E c \in Closers : UndoCancel(c) /\ UNCHANGED readVars
  BY <1>44 DEF UndoCancel, CancelUndone
<1>45. CASE \E c \in Closers : AwaitDone(c) /\ UNCHANGED readVars
  BY <1>45 DEF AwaitDone
<1>46. CASE \E c \in Closers : RetryClose(c) /\ UNCHANGED readVars
  BY <1>46 DEF RetryClose
<1>47. CASE UNCHANGED vars
  BY <1>47
<1>q. QED
  BY <1>1, <1>2, <1>3, <1>4, <1>5, <1>6, <1>7, <1>8, <1>9, <1>10, <1>11,
     <1>12, <1>13, <1>14, <1>15, <1>16, <1>17, <1>18, <1>19, <1>20, <1>21,
     <1>22, <1>23, <1>24, <1>25, <1>26, <1>27, <1>28, <1>29, <1>30, <1>31,
     <1>32, <1>33, <1>34, <1>35, <1>36, <1>37, <1>38, <1>39, <1>40, <1>41,
     <1>42, <1>43, <1>44, <1>45, <1>46, <1>47
  DEF Next, ReaderStep, CloseStep, CloserStep, ReactorStep, FinishStep,
      Deliver, Environment

(* Whatever makes a waiting reader's condition true detaches the reader in  *)
(* the same critical section.                                               *)
LEMMA WakeupStep == TypeOK /\ TokenInv /\ NoLostWakeup /\ [Next]_vars
                       => NoLostWakeup'
<1> SUFFICES ASSUME TypeOK, TokenInv, NoLostWakeup, [Next]_vars PROVE NoLostWakeup'
  OBVIOUS
<1>t. /\ paused \in BOOLEAN /\ ring \in Seq(Chunks) /\ Capacity \in Nat \ {0}
      /\ waiter # NoToken => pc[User] \in {"blocked", "unregister"}
      /\ ring = <<>> => Len(ring) = 0
  BY StreamAssumption, EmptySeq DEF TypeOK, StreamType, TokenInv
<1> USE <1>t DEF NoLostWakeup, vars, sharedVars, streamVars, chanVars, curlVars, threadVars, readVars,
        Goto
<1>1. CASE StartRead
  BY <1>1 DEF StartRead
<1>2. CASE TryRead
  BY <1>2 DEF TryRead, ChunkFirst, ResumeAfter
<1>3. CASE ReadResumed
  BY <1>3 DEF ReadResumed, PauseKept
<1>4. CASE WaitRead
  BY <1>4 DEF WaitRead, ReadReady, Register
<1>5. CASE FinishRead
  BY <1>5 DEF FinishRead
<1>6. CASE InterruptDelay
  BY <1>6 DEF InterruptDelay
<1>7. CASE InterruptFinish
  BY <1>7 DEF InterruptFinish
<1>8. CASE AcceptChunk
  BY <1>8 DEF AcceptChunk, Arrives, AtLoop, Open, HasSpace, Detach
<1>9. CASE RefuseChunk
  BY <1>9 DEF RefuseChunk, Arrives, AtLoop, Open, HasSpace, RefusedAgain
<1>10. CASE RejectChunk
  BY <1>10 DEF RejectChunk, Arrives, AtLoop, Finish
<1>11. CASE CallbackFire
  BY <1>11 DEF CallbackFire, Fire
<1>12. CASE CallbackPause
  BY <1>12 DEF CallbackPause, Finish
<1>13. CASE BodyDone
  BY <1>13 DEF BodyDone, CurlDone, AtLoop, Finish
<1>14. CASE FlushResume /\ UNCHANGED readVars
  BY <1>14 DEF FlushResume, NeedsResume
<1>15. CASE EnqueueResumeOk /\ UNCHANGED readVars
  BY <1>15 DEF EnqueueResumeOk
<1>16. CASE EnqueueResumeFail /\ UNCHANGED readVars
  BY <1>16 DEF EnqueueResumeFail, ResumeFailed
<1>17. CASE RestorePaused /\ UNCHANGED readVars
  BY <1>17 DEF RestorePaused, OwedAgain
<1>18. CASE FlushRetry /\ UNCHANGED readVars
  BY <1>18 DEF FlushRetry
<1>19. CASE Woken /\ UNCHANGED readVars
  BY <1>19 DEF Woken
<1>20. CASE InterruptWait /\ UNCHANGED readVars
  BY <1>20 DEF InterruptWait
<1>21. CASE Unregister /\ UNCHANGED readVars
  BY <1>21 DEF Unregister, StillRegistered
<1>22. CASE RequestCancel /\ UNCHANGED readVars
  BY <1>22 DEF RequestCancel
<1>23. CASE ResumeRequest /\ UNCHANGED readVars
  BY <1>23 DEF ResumeRequest
<1>24. CASE ExecuteOk /\ UNCHANGED readVars
  BY <1>24 DEF ExecuteOk, Receive, AtLoop
<1>25. CASE ExecuteFail /\ UNCHANGED readVars
  BY <1>25 DEF ExecuteFail, Receive, AtLoop
<1>26. CASE CancelTransfer /\ UNCHANGED readVars
  BY <1>26 DEF CancelTransfer, Receive, AtLoop, Finish
<1>27. CASE ResumeTransfer /\ UNCHANGED readVars
  BY <1>27 DEF ResumeTransfer, Receive, AtLoop, Finish
<1>28. CASE StaleControl /\ UNCHANGED readVars
  BY <1>28 DEF StaleControl, Receive, AtLoop
<1>29. CASE CurlDone("error") /\ UNCHANGED readVars
  BY <1>29 DEF CurlDone, AtLoop, Finish
<1>30. CASE Normalize /\ UNCHANGED readVars
  BY <1>30 DEF Normalize, Normalized
<1>31. CASE SetResult /\ UNCHANGED readVars
  BY <1>31 DEF SetResult
<1>32. CASE CompleteTransfer /\ UNCHANGED readVars
  BY <1>32 DEF CompleteTransfer, CompleteStream, FirstCode, Detach
<1>33. CASE CompleteFire /\ UNCHANGED readVars
  BY <1>33 DEF CompleteFire, Fire
<1>34. CASE WakeResult /\ UNCHANGED readVars
  BY <1>34 DEF WakeResult
<1>35. CASE Drain /\ UNCHANGED readVars
  BY <1>35 DEF Drain, DrainFails
<1>36. CASE \E c \in {"aborted", "error"} : Shutdown(c) /\ UNCHANGED readVars
  BY <1>36 DEF Shutdown, AtLoop, Finish
<1>37. CASE \E p \in {User} \cup Closers : LocalComplete(p) /\ UNCHANGED readVars
  BY <1>37 DEF LocalComplete, CompleteStream, FirstCode, Detach
<1>38. CASE \E p \in {User} \cup Closers : LocalFire(p) /\ UNCHANGED readVars
  BY <1>38 DEF LocalFire, Fire
<1>39. CASE \E c \in Closers : StartClose(c) /\ UNCHANGED readVars
  BY <1>39 DEF StartClose
<1>40. CASE \E c \in Closers : CloseStream(c) /\ UNCHANGED readVars
  BY <1>40 DEF CloseStream, NeedsCancel, Detach
<1>41. CASE \E c \in Closers : CloseFire(c) /\ UNCHANGED readVars
  BY <1>41 DEF CloseFire, Fire
<1>42. CASE \E c \in Closers : EnqueueCancelOk(c) /\ UNCHANGED readVars
  BY <1>42 DEF EnqueueCancelOk
<1>43. CASE \E c \in Closers : EnqueueCancelFail(c) /\ UNCHANGED readVars
  BY <1>43 DEF EnqueueCancelFail
<1>44. CASE \E c \in Closers : UndoCancel(c) /\ UNCHANGED readVars
  BY <1>44 DEF UndoCancel, CancelUndone
<1>45. CASE \E c \in Closers : AwaitDone(c) /\ UNCHANGED readVars
  BY <1>45 DEF AwaitDone
<1>46. CASE \E c \in Closers : RetryClose(c) /\ UNCHANGED readVars
  BY <1>46 DEF RetryClose
<1>47. CASE UNCHANGED vars
  BY <1>47
<1>q. QED
  BY <1>1, <1>2, <1>3, <1>4, <1>5, <1>6, <1>7, <1>8, <1>9, <1>10, <1>11,
     <1>12, <1>13, <1>14, <1>15, <1>16, <1>17, <1>18, <1>19, <1>20, <1>21,
     <1>22, <1>23, <1>24, <1>25, <1>26, <1>27, <1>28, <1>29, <1>30, <1>31,
     <1>32, <1>33, <1>34, <1>35, <1>36, <1>37, <1>38, <1>39, <1>40, <1>41,
     <1>42, <1>43, <1>44, <1>45, <1>46, <1>47
  DEF Next, ReaderStep, CloseStep, CloserStep, ReactorStep, FinishStep,
      Deliver, Environment

(* The reactor's position, the queue and the transfer stay in step. *)
LEMMA ReactorInvStep == TypeOK /\ ReactorInv /\ [Next]_vars => ReactorInv'
<1> SUFFICES ASSUME TypeOK, ReactorInv, [Next]_vars PROVE ReactorInv'
  OBVIOUS
<1>t. /\ pc \in [Procs -> UserPcs \cup CloserPcs \cup ReactorPcs]
      /\ chan \in Seq(Msgs)
      /\ closed \in BOOLEAN /\ cancel_sent \in BOOLEAN /\ senderClosed \in BOOLEAN
      /\ curlPaused \in BOOLEAN
  BY DEF TypeOK, StreamType, ChanType, CurlType, ThreadType
<1> USE StreamAssumption, <1>t DEF ReactorInv, Procs, vars, sharedVars, streamVars, chanVars, curlVars, threadVars, readVars,
        Goto
<1>1. CASE StartRead
  BY <1>1 DEF StartRead
<1>2. CASE TryRead
  BY <1>2 DEF TryRead, ChunkFirst, ResumeAfter
<1>3. CASE ReadResumed
  BY <1>3 DEF ReadResumed, PauseKept
<1>4. CASE WaitRead
  BY <1>4 DEF WaitRead, ReadReady, Register
<1>5. CASE FinishRead
  BY <1>5 DEF FinishRead
<1>6. CASE InterruptDelay
  BY <1>6 DEF InterruptDelay
<1>7. CASE InterruptFinish
  BY <1>7 DEF InterruptFinish
<1>8. CASE AcceptChunk
  BY <1>8 DEF AcceptChunk, Arrives, AtLoop, Open, HasSpace, Detach
<1>9. CASE RefuseChunk
  BY <1>9 DEF RefuseChunk, Arrives, AtLoop, Open, HasSpace, RefusedAgain
<1>10. CASE RejectChunk
  BY <1>10 DEF RejectChunk, Arrives, AtLoop, Finish
<1>11. CASE CallbackFire
  BY <1>11 DEF CallbackFire, Fire
<1>12. CASE CallbackPause
  BY <1>12 DEF CallbackPause, Finish
<1>13. CASE BodyDone
  BY <1>13 DEF BodyDone, CurlDone, AtLoop, Finish
<1>14. CASE FlushResume /\ UNCHANGED readVars
  BY <1>14 DEF FlushResume, NeedsResume
<1>15. CASE EnqueueResumeOk /\ UNCHANGED readVars
  BY <1>15 DEF EnqueueResumeOk
<1>16. CASE EnqueueResumeFail /\ UNCHANGED readVars
  BY <1>16 DEF EnqueueResumeFail, ResumeFailed
<1>17. CASE RestorePaused /\ UNCHANGED readVars
  BY <1>17 DEF RestorePaused, OwedAgain
<1>18. CASE FlushRetry /\ UNCHANGED readVars
  BY <1>18 DEF FlushRetry
<1>19. CASE Woken /\ UNCHANGED readVars
  BY <1>19 DEF Woken
<1>20. CASE InterruptWait /\ UNCHANGED readVars
  BY <1>20 DEF InterruptWait
<1>21. CASE Unregister /\ UNCHANGED readVars
  BY <1>21 DEF Unregister, StillRegistered
<1>22. CASE RequestCancel /\ UNCHANGED readVars
  BY <1>22 DEF RequestCancel
<1>23. CASE ResumeRequest /\ UNCHANGED readVars
  BY <1>23 DEF ResumeRequest
<1>24. CASE ExecuteOk /\ UNCHANGED readVars
  BY <1>24 DEF ExecuteOk, Receive, AtLoop
<1>25. CASE ExecuteFail /\ UNCHANGED readVars
  BY <1>25 DEF ExecuteFail, Receive, AtLoop
<1>26. CASE CancelTransfer /\ UNCHANGED readVars
  BY <1>26 DEF CancelTransfer, Receive, AtLoop, Finish
<1>27. CASE ResumeTransfer /\ UNCHANGED readVars
  BY <1>27 DEF ResumeTransfer, Receive, AtLoop, Finish
<1>28. CASE StaleControl /\ UNCHANGED readVars
  BY <1>28 DEF StaleControl, Receive, AtLoop
<1>29. CASE CurlDone("error") /\ UNCHANGED readVars
  BY <1>29 DEF CurlDone, AtLoop, Finish
<1>30. CASE Normalize /\ UNCHANGED readVars
  BY <1>30 DEF Normalize, Normalized
<1>31. CASE SetResult /\ UNCHANGED readVars
  BY <1>31 DEF SetResult
<1>32. CASE CompleteTransfer /\ UNCHANGED readVars
  BY <1>32 DEF CompleteTransfer, CompleteStream, FirstCode, Detach
<1>33. CASE CompleteFire /\ UNCHANGED readVars
  BY <1>33 DEF CompleteFire, Fire
<1>34. CASE WakeResult /\ UNCHANGED readVars
  BY <1>34 DEF WakeResult
<1>35. CASE Drain /\ UNCHANGED readVars
  BY <1>35 DEF Drain, DrainFails
<1>36. CASE \E c \in {"aborted", "error"} : Shutdown(c) /\ UNCHANGED readVars
  BY <1>36 DEF Shutdown, AtLoop, Finish
<1>37. CASE \E p \in {User} \cup Closers : LocalComplete(p) /\ UNCHANGED readVars
  BY <1>37 DEF LocalComplete, CompleteStream, FirstCode, Detach
<1>38. CASE \E p \in {User} \cup Closers : LocalFire(p) /\ UNCHANGED readVars
  BY <1>38 DEF LocalFire, Fire
<1>39. CASE \E c \in Closers : StartClose(c) /\ UNCHANGED readVars
  BY <1>39 DEF StartClose
<1>40. CASE \E c \in Closers : CloseStream(c) /\ UNCHANGED readVars
  BY <1>40 DEF CloseStream, NeedsCancel, Detach
<1>41. CASE \E c \in Closers : CloseFire(c) /\ UNCHANGED readVars
  BY <1>41 DEF CloseFire, Fire
<1>42. CASE \E c \in Closers : EnqueueCancelOk(c) /\ UNCHANGED readVars
  BY <1>42 DEF EnqueueCancelOk
<1>43. CASE \E c \in Closers : EnqueueCancelFail(c) /\ UNCHANGED readVars
  BY <1>43 DEF EnqueueCancelFail
<1>44. CASE \E c \in Closers : UndoCancel(c) /\ UNCHANGED readVars
  BY <1>44 DEF UndoCancel, CancelUndone
<1>45. CASE \E c \in Closers : AwaitDone(c) /\ UNCHANGED readVars
  BY <1>45 DEF AwaitDone
<1>46. CASE \E c \in Closers : RetryClose(c) /\ UNCHANGED readVars
  BY <1>46 DEF RetryClose
<1>47. CASE UNCHANGED vars
  BY <1>47
<1>q. QED
  BY <1>1, <1>2, <1>3, <1>4, <1>5, <1>6, <1>7, <1>8, <1>9, <1>10, <1>11,
     <1>12, <1>13, <1>14, <1>15, <1>16, <1>17, <1>18, <1>19, <1>20, <1>21,
     <1>22, <1>23, <1>24, <1>25, <1>26, <1>27, <1>28, <1>29, <1>30, <1>31,
     <1>32, <1>33, <1>34, <1>35, <1>36, <1>37, <1>38, <1>39, <1>40, <1>41,
     <1>42, <1>43, <1>44, <1>45, <1>46, <1>47
  DEF Next, ReaderStep, CloseStep, CloserStep, ReactorStep, FinishStep,
      Deliver, Environment

(* A pause is remembered, or its RESUME is under way, until it is undone. *)
LEMMA ResumeStep == TypeOK /\ ReactorInv /\ ResumeInv /\ [Next]_vars => ResumeInv'
<1> SUFFICES ASSUME TypeOK, ReactorInv, ResumeInv, [Next]_vars PROVE ResumeInv'
  OBVIOUS
<1>t. /\ pc \in [Procs -> UserPcs \cup CloserPcs \cup ReactorPcs]
      /\ chan \in Seq(Msgs)
      /\ closed \in BOOLEAN /\ cancel_sent \in BOOLEAN /\ senderClosed \in BOOLEAN
      /\ curlPaused \in BOOLEAN /\ paused \in BOOLEAN /\ terminal_set \in BOOLEAN
  BY DEF TypeOK, StreamType, ChanType, CurlType, ThreadType
<1> USE StreamAssumption, <1>t DEF ReactorInv, ResumeInv, Has, Procs, vars, sharedVars, streamVars, chanVars, curlVars, threadVars, readVars,
        Goto
<1>1. CASE StartRead
  BY <1>1 DEF StartRead
<1>2. CASE TryRead
  BY <1>2 DEF TryRead, ChunkFirst, ResumeAfter
<1>3. CASE ReadResumed
  BY <1>3 DEF ReadResumed, PauseKept
<1>4. CASE WaitRead
  BY <1>4 DEF WaitRead, ReadReady, Register
<1>5. CASE FinishRead
  BY <1>5 DEF FinishRead
<1>6. CASE InterruptDelay
  BY <1>6 DEF InterruptDelay
<1>7. CASE InterruptFinish
  BY <1>7 DEF InterruptFinish
<1>8. CASE AcceptChunk
  BY <1>8 DEF AcceptChunk, Arrives, AtLoop, Open, HasSpace, Detach
<1>9. CASE RefuseChunk
  BY <1>9 DEF RefuseChunk, Arrives, AtLoop, Open, HasSpace, RefusedAgain
<1>10. CASE RejectChunk
  BY <1>10 DEF RejectChunk, Arrives, AtLoop, Finish
<1>11. CASE CallbackFire
  BY <1>11 DEF CallbackFire, Fire
<1>12. CASE CallbackPause
  BY <1>12 DEF CallbackPause, Finish
<1>13. CASE BodyDone
  BY <1>13 DEF BodyDone, CurlDone, AtLoop, Finish
<1>14. CASE FlushResume /\ UNCHANGED readVars
  BY <1>14 DEF FlushResume, NeedsResume
<1>15. CASE EnqueueResumeOk /\ UNCHANGED readVars
  BY <1>15 DEF EnqueueResumeOk
<1>16. CASE EnqueueResumeFail /\ UNCHANGED readVars
  BY <1>16 DEF EnqueueResumeFail, ResumeFailed
<1>17. CASE RestorePaused /\ UNCHANGED readVars
  BY <1>17 DEF RestorePaused, OwedAgain
<1>18. CASE FlushRetry /\ UNCHANGED readVars
  BY <1>18 DEF FlushRetry
<1>19. CASE Woken /\ UNCHANGED readVars
  BY <1>19 DEF Woken
<1>20. CASE InterruptWait /\ UNCHANGED readVars
  BY <1>20 DEF InterruptWait
<1>21. CASE Unregister /\ UNCHANGED readVars
  BY <1>21 DEF Unregister, StillRegistered
<1>22. CASE RequestCancel /\ UNCHANGED readVars
  BY <1>22 DEF RequestCancel
<1>23. CASE ResumeRequest /\ UNCHANGED readVars
  BY <1>23 DEF ResumeRequest
<1>24. CASE ExecuteOk /\ UNCHANGED readVars
  BY <1>24 DEF ExecuteOk, Receive, AtLoop
<1>25. CASE ExecuteFail /\ UNCHANGED readVars
  BY <1>25 DEF ExecuteFail, Receive, AtLoop
<1>26. CASE CancelTransfer /\ UNCHANGED readVars
  BY <1>26 DEF CancelTransfer, Receive, AtLoop, Finish
<1>27. CASE ResumeTransfer /\ UNCHANGED readVars
  BY <1>27 DEF ResumeTransfer, Receive, AtLoop, Finish
<1>28. CASE StaleControl /\ UNCHANGED readVars
  BY <1>28 DEF StaleControl, Receive, AtLoop
<1>29. CASE CurlDone("error") /\ UNCHANGED readVars
  BY <1>29 DEF CurlDone, AtLoop, Finish
<1>30. CASE Normalize /\ UNCHANGED readVars
  BY <1>30 DEF Normalize, Normalized
<1>31. CASE SetResult /\ UNCHANGED readVars
  BY <1>31 DEF SetResult
<1>32. CASE CompleteTransfer /\ UNCHANGED readVars
  BY <1>32 DEF CompleteTransfer, CompleteStream, FirstCode, Detach
<1>33. CASE CompleteFire /\ UNCHANGED readVars
  BY <1>33 DEF CompleteFire, Fire
<1>34. CASE WakeResult /\ UNCHANGED readVars
  BY <1>34 DEF WakeResult
<1>35. CASE Drain /\ UNCHANGED readVars
  BY <1>35 DEF Drain, DrainFails
<1>36. CASE \E c \in {"aborted", "error"} : Shutdown(c) /\ UNCHANGED readVars
  BY <1>36 DEF Shutdown, AtLoop, Finish
<1>37. CASE \E p \in {User} \cup Closers : LocalComplete(p) /\ UNCHANGED readVars
  BY <1>37 DEF LocalComplete, CompleteStream, FirstCode, Detach
<1>38. CASE \E p \in {User} \cup Closers : LocalFire(p) /\ UNCHANGED readVars
  BY <1>38 DEF LocalFire, Fire
<1>39. CASE \E c \in Closers : StartClose(c) /\ UNCHANGED readVars
  BY <1>39 DEF StartClose
<1>40. CASE \E c \in Closers : CloseStream(c) /\ UNCHANGED readVars
  BY <1>40 DEF CloseStream, NeedsCancel, Detach
<1>41. CASE \E c \in Closers : CloseFire(c) /\ UNCHANGED readVars
  BY <1>41 DEF CloseFire, Fire
<1>42. CASE \E c \in Closers : EnqueueCancelOk(c) /\ UNCHANGED readVars
  BY <1>42 DEF EnqueueCancelOk
<1>43. CASE \E c \in Closers : EnqueueCancelFail(c) /\ UNCHANGED readVars
  BY <1>43 DEF EnqueueCancelFail
<1>44. CASE \E c \in Closers : UndoCancel(c) /\ UNCHANGED readVars
  BY <1>44 DEF UndoCancel, CancelUndone
<1>45. CASE \E c \in Closers : AwaitDone(c) /\ UNCHANGED readVars
  BY <1>45 DEF AwaitDone
<1>46. CASE \E c \in Closers : RetryClose(c) /\ UNCHANGED readVars
  BY <1>46 DEF RetryClose
<1>47. CASE UNCHANGED vars
  BY <1>47
<1>q. QED
  BY <1>1, <1>2, <1>3, <1>4, <1>5, <1>6, <1>7, <1>8, <1>9, <1>10, <1>11,
     <1>12, <1>13, <1>14, <1>15, <1>16, <1>17, <1>18, <1>19, <1>20, <1>21,
     <1>22, <1>23, <1>24, <1>25, <1>26, <1>27, <1>28, <1>29, <1>30, <1>31,
     <1>32, <1>33, <1>34, <1>35, <1>36, <1>37, <1>38, <1>39, <1>40, <1>41,
     <1>42, <1>43, <1>44, <1>45, <1>46, <1>47
  DEF Next, ReaderStep, CloseStep, CloserStep, ReactorStep, FinishStep,
      Deliver, Environment

(* The write callback stores nothing in a closed stream, and close empties  *)
(* the ring, so a closed stream stays empty.                                *)
LEMMA ClosedStep == TypeOK /\ ClosedIsEmpty /\ [Next]_vars => ClosedIsEmpty'
<1> SUFFICES ASSUME TypeOK, ClosedIsEmpty, [Next]_vars PROVE ClosedIsEmpty'
  OBVIOUS
<1> USE DEF ClosedIsEmpty, vars, sharedVars, streamVars, chanVars, curlVars, threadVars, readVars,
        Goto
<1>1. CASE StartRead
  BY <1>1 DEF StartRead
<1>2. CASE TryRead
  BY <1>2 DEF TryRead, ChunkFirst, ResumeAfter
<1>3. CASE ReadResumed
  BY <1>3 DEF ReadResumed, PauseKept
<1>4. CASE WaitRead
  BY <1>4 DEF WaitRead, ReadReady, Register
<1>5. CASE FinishRead
  BY <1>5 DEF FinishRead
<1>6. CASE InterruptDelay
  BY <1>6 DEF InterruptDelay
<1>7. CASE InterruptFinish
  BY <1>7 DEF InterruptFinish
<1>8. CASE AcceptChunk
  BY <1>8 DEF AcceptChunk, Arrives, AtLoop, Open, HasSpace, Detach
<1>9. CASE RefuseChunk
  BY <1>9 DEF RefuseChunk, Arrives, AtLoop, Open, HasSpace, RefusedAgain
<1>10. CASE RejectChunk
  BY <1>10 DEF RejectChunk, Arrives, AtLoop, Finish
<1>11. CASE CallbackFire
  BY <1>11 DEF CallbackFire, Fire
<1>12. CASE CallbackPause
  BY <1>12 DEF CallbackPause, Finish
<1>13. CASE BodyDone
  BY <1>13 DEF BodyDone, CurlDone, AtLoop, Finish
<1>14. CASE FlushResume /\ UNCHANGED readVars
  BY <1>14 DEF FlushResume, NeedsResume
<1>15. CASE EnqueueResumeOk /\ UNCHANGED readVars
  BY <1>15 DEF EnqueueResumeOk
<1>16. CASE EnqueueResumeFail /\ UNCHANGED readVars
  BY <1>16 DEF EnqueueResumeFail, ResumeFailed
<1>17. CASE RestorePaused /\ UNCHANGED readVars
  BY <1>17 DEF RestorePaused, OwedAgain
<1>18. CASE FlushRetry /\ UNCHANGED readVars
  BY <1>18 DEF FlushRetry
<1>19. CASE Woken /\ UNCHANGED readVars
  BY <1>19 DEF Woken
<1>20. CASE InterruptWait /\ UNCHANGED readVars
  BY <1>20 DEF InterruptWait
<1>21. CASE Unregister /\ UNCHANGED readVars
  BY <1>21 DEF Unregister, StillRegistered
<1>22. CASE RequestCancel /\ UNCHANGED readVars
  BY <1>22 DEF RequestCancel
<1>23. CASE ResumeRequest /\ UNCHANGED readVars
  BY <1>23 DEF ResumeRequest
<1>24. CASE ExecuteOk /\ UNCHANGED readVars
  BY <1>24 DEF ExecuteOk, Receive, AtLoop
<1>25. CASE ExecuteFail /\ UNCHANGED readVars
  BY <1>25 DEF ExecuteFail, Receive, AtLoop
<1>26. CASE CancelTransfer /\ UNCHANGED readVars
  BY <1>26 DEF CancelTransfer, Receive, AtLoop, Finish
<1>27. CASE ResumeTransfer /\ UNCHANGED readVars
  BY <1>27 DEF ResumeTransfer, Receive, AtLoop, Finish
<1>28. CASE StaleControl /\ UNCHANGED readVars
  BY <1>28 DEF StaleControl, Receive, AtLoop
<1>29. CASE CurlDone("error") /\ UNCHANGED readVars
  BY <1>29 DEF CurlDone, AtLoop, Finish
<1>30. CASE Normalize /\ UNCHANGED readVars
  BY <1>30 DEF Normalize, Normalized
<1>31. CASE SetResult /\ UNCHANGED readVars
  BY <1>31 DEF SetResult
<1>32. CASE CompleteTransfer /\ UNCHANGED readVars
  BY <1>32 DEF CompleteTransfer, CompleteStream, FirstCode, Detach
<1>33. CASE CompleteFire /\ UNCHANGED readVars
  BY <1>33 DEF CompleteFire, Fire
<1>34. CASE WakeResult /\ UNCHANGED readVars
  BY <1>34 DEF WakeResult
<1>35. CASE Drain /\ UNCHANGED readVars
  BY <1>35 DEF Drain, DrainFails
<1>36. CASE \E c \in {"aborted", "error"} : Shutdown(c) /\ UNCHANGED readVars
  BY <1>36 DEF Shutdown, AtLoop, Finish
<1>37. CASE \E p \in {User} \cup Closers : LocalComplete(p) /\ UNCHANGED readVars
  BY <1>37 DEF LocalComplete, CompleteStream, FirstCode, Detach
<1>38. CASE \E p \in {User} \cup Closers : LocalFire(p) /\ UNCHANGED readVars
  BY <1>38 DEF LocalFire, Fire
<1>39. CASE \E c \in Closers : StartClose(c) /\ UNCHANGED readVars
  BY <1>39 DEF StartClose
<1>40. CASE \E c \in Closers : CloseStream(c) /\ UNCHANGED readVars
  BY <1>40 DEF CloseStream, NeedsCancel, Detach
<1>41. CASE \E c \in Closers : CloseFire(c) /\ UNCHANGED readVars
  BY <1>41 DEF CloseFire, Fire
<1>42. CASE \E c \in Closers : EnqueueCancelOk(c) /\ UNCHANGED readVars
  BY <1>42 DEF EnqueueCancelOk
<1>43. CASE \E c \in Closers : EnqueueCancelFail(c) /\ UNCHANGED readVars
  BY <1>43 DEF EnqueueCancelFail
<1>44. CASE \E c \in Closers : UndoCancel(c) /\ UNCHANGED readVars
  BY <1>44 DEF UndoCancel, CancelUndone
<1>45. CASE \E c \in Closers : AwaitDone(c) /\ UNCHANGED readVars
  BY <1>45 DEF AwaitDone
<1>46. CASE \E c \in Closers : RetryClose(c) /\ UNCHANGED readVars
  BY <1>46 DEF RetryClose
<1>47. CASE UNCHANGED vars
  BY <1>47
<1>q. QED
  BY <1>1, <1>2, <1>3, <1>4, <1>5, <1>6, <1>7, <1>8, <1>9, <1>10, <1>11,
     <1>12, <1>13, <1>14, <1>15, <1>16, <1>17, <1>18, <1>19, <1>20, <1>21,
     <1>22, <1>23, <1>24, <1>25, <1>26, <1>27, <1>28, <1>29, <1>30, <1>31,
     <1>32, <1>33, <1>34, <1>35, <1>36, <1>37, <1>38, <1>39, <1>40, <1>41,
     <1>42, <1>43, <1>44, <1>45, <1>46, <1>47
  DEF Next, ReaderStep, CloseStep, CloserStep, ReactorStep, FinishStep,
      Deliver, Environment

(* What EndIsFinal forbids: taking back the close, the first terminal code  *)
(* or the result.                                                           *)
LEMMA FinalStep ==
  IInv /\ [Next]_vars => [ /\ closed => closed'
                           /\ terminal_set => /\ terminal_set'
                                              /\ terminal_code' = terminal_code
                           /\ done => done' /\ result' = result ]_sharedVars
<1> SUFFICES ASSUME IInv, [Next]_vars
             PROVE  /\ closed => closed'
                    /\ terminal_set => terminal_set' /\ terminal_code' = terminal_code
                    /\ done => done' /\ result' = result
  OBVIOUS
<1>t. /\ done => pc[Reactor] \notin {"normalize", "setResult", "complete",
                                     "completeFire", "wakeResult"}
      /\ closed \in BOOLEAN /\ terminal_set \in BOOLEAN /\ done \in BOOLEAN
  BY DEF IInv, ReactorInv, TypeOK, StreamType, CurlType
<1> USE <1>t DEF vars, sharedVars, streamVars, chanVars, curlVars, threadVars, readVars,
        Goto
<1>1. CASE StartRead
  BY <1>1 DEF StartRead
<1>2. CASE TryRead
  BY <1>2 DEF TryRead, ChunkFirst, ResumeAfter
<1>3. CASE ReadResumed
  BY <1>3 DEF ReadResumed, PauseKept
<1>4. CASE WaitRead
  BY <1>4 DEF WaitRead, ReadReady, Register
<1>5. CASE FinishRead
  BY <1>5 DEF FinishRead
<1>6. CASE InterruptDelay
  BY <1>6 DEF InterruptDelay
<1>7. CASE InterruptFinish
  BY <1>7 DEF InterruptFinish
<1>8. CASE AcceptChunk
  BY <1>8 DEF AcceptChunk, Arrives, AtLoop, Open, HasSpace, Detach
<1>9. CASE RefuseChunk
  BY <1>9 DEF RefuseChunk, Arrives, AtLoop, Open, HasSpace, RefusedAgain
<1>10. CASE RejectChunk
  BY <1>10 DEF RejectChunk, Arrives, AtLoop, Finish
<1>11. CASE CallbackFire
  BY <1>11 DEF CallbackFire, Fire
<1>12. CASE CallbackPause
  BY <1>12 DEF CallbackPause, Finish
<1>13. CASE BodyDone
  BY <1>13 DEF BodyDone, CurlDone, AtLoop, Finish
<1>14. CASE FlushResume /\ UNCHANGED readVars
  BY <1>14 DEF FlushResume, NeedsResume
<1>15. CASE EnqueueResumeOk /\ UNCHANGED readVars
  BY <1>15 DEF EnqueueResumeOk
<1>16. CASE EnqueueResumeFail /\ UNCHANGED readVars
  BY <1>16 DEF EnqueueResumeFail, ResumeFailed
<1>17. CASE RestorePaused /\ UNCHANGED readVars
  BY <1>17 DEF RestorePaused, OwedAgain
<1>18. CASE FlushRetry /\ UNCHANGED readVars
  BY <1>18 DEF FlushRetry
<1>19. CASE Woken /\ UNCHANGED readVars
  BY <1>19 DEF Woken
<1>20. CASE InterruptWait /\ UNCHANGED readVars
  BY <1>20 DEF InterruptWait
<1>21. CASE Unregister /\ UNCHANGED readVars
  BY <1>21 DEF Unregister, StillRegistered
<1>22. CASE RequestCancel /\ UNCHANGED readVars
  BY <1>22 DEF RequestCancel
<1>23. CASE ResumeRequest /\ UNCHANGED readVars
  BY <1>23 DEF ResumeRequest
<1>24. CASE ExecuteOk /\ UNCHANGED readVars
  BY <1>24 DEF ExecuteOk, Receive, AtLoop
<1>25. CASE ExecuteFail /\ UNCHANGED readVars
  BY <1>25 DEF ExecuteFail, Receive, AtLoop
<1>26. CASE CancelTransfer /\ UNCHANGED readVars
  BY <1>26 DEF CancelTransfer, Receive, AtLoop, Finish
<1>27. CASE ResumeTransfer /\ UNCHANGED readVars
  BY <1>27 DEF ResumeTransfer, Receive, AtLoop, Finish
<1>28. CASE StaleControl /\ UNCHANGED readVars
  BY <1>28 DEF StaleControl, Receive, AtLoop
<1>29. CASE CurlDone("error") /\ UNCHANGED readVars
  BY <1>29 DEF CurlDone, AtLoop, Finish
<1>30. CASE Normalize /\ UNCHANGED readVars
  BY <1>30 DEF Normalize, Normalized
<1>31. CASE SetResult /\ UNCHANGED readVars
  BY <1>31 DEF SetResult
<1>32. CASE CompleteTransfer /\ UNCHANGED readVars
  BY <1>32 DEF CompleteTransfer, CompleteStream, FirstCode, Detach
<1>33. CASE CompleteFire /\ UNCHANGED readVars
  BY <1>33 DEF CompleteFire, Fire
<1>34. CASE WakeResult /\ UNCHANGED readVars
  BY <1>34 DEF WakeResult
<1>35. CASE Drain /\ UNCHANGED readVars
  BY <1>35 DEF Drain, DrainFails
<1>36. CASE \E c \in {"aborted", "error"} : Shutdown(c) /\ UNCHANGED readVars
  BY <1>36 DEF Shutdown, AtLoop, Finish
<1>37. CASE \E p \in {User} \cup Closers : LocalComplete(p) /\ UNCHANGED readVars
  BY <1>37 DEF LocalComplete, CompleteStream, FirstCode, Detach
<1>38. CASE \E p \in {User} \cup Closers : LocalFire(p) /\ UNCHANGED readVars
  BY <1>38 DEF LocalFire, Fire
<1>39. CASE \E c \in Closers : StartClose(c) /\ UNCHANGED readVars
  BY <1>39 DEF StartClose
<1>40. CASE \E c \in Closers : CloseStream(c) /\ UNCHANGED readVars
  BY <1>40 DEF CloseStream, NeedsCancel, Detach
<1>41. CASE \E c \in Closers : CloseFire(c) /\ UNCHANGED readVars
  BY <1>41 DEF CloseFire, Fire
<1>42. CASE \E c \in Closers : EnqueueCancelOk(c) /\ UNCHANGED readVars
  BY <1>42 DEF EnqueueCancelOk
<1>43. CASE \E c \in Closers : EnqueueCancelFail(c) /\ UNCHANGED readVars
  BY <1>43 DEF EnqueueCancelFail
<1>44. CASE \E c \in Closers : UndoCancel(c) /\ UNCHANGED readVars
  BY <1>44 DEF UndoCancel, CancelUndone
<1>45. CASE \E c \in Closers : AwaitDone(c) /\ UNCHANGED readVars
  BY <1>45 DEF AwaitDone
<1>46. CASE \E c \in Closers : RetryClose(c) /\ UNCHANGED readVars
  BY <1>46 DEF RetryClose
<1>47. CASE UNCHANGED vars
  BY <1>47
<1>q. QED
  BY <1>1, <1>2, <1>3, <1>4, <1>5, <1>6, <1>7, <1>8, <1>9, <1>10, <1>11,
     <1>12, <1>13, <1>14, <1>15, <1>16, <1>17, <1>18, <1>19, <1>20, <1>21,
     <1>22, <1>23, <1>24, <1>25, <1>26, <1>27, <1>28, <1>29, <1>30, <1>31,
     <1>32, <1>33, <1>34, <1>35, <1>36, <1>37, <1>38, <1>39, <1>40, <1>41,
     <1>42, <1>43, <1>44, <1>45, <1>46, <1>47
  DEF Next, ReaderStep, CloseStep, CloserStep, ReactorStep, FinishStep,
      Deliver, Environment

(* Whoever completes the stream and whatever was accepted, the end of the   *)
(* stream and the result agree, and a stopped reactor owes nothing.         *)
LEMMA EndStep == TypeOK /\ ReactorInv /\ EndInv /\ [Next]_vars => EndInv'
<1> SUFFICES ASSUME TypeOK, ReactorInv, EndInv, [Next]_vars PROVE EndInv'
  OBVIOUS
<1>t. /\ pc \in [Procs -> UserPcs \cup CloserPcs \cup ReactorPcs]
      /\ Reactor \in Procs /\ User \in Procs /\ Closers \subseteq Procs
      /\ Reactor # User /\ Reactor \notin Closers /\ User \notin Closers
      /\ transfer \in {"queued", "active", "detached", "gone"}
      /\ {terminal_set, senderClosed, done} \subseteq BOOLEAN
  BY StreamAssumption DEF TypeOK, StreamType, ChanType, CurlType, ThreadType, Procs
<1>c. chan \in Seq(Msgs)
  BY DEF TypeOK, ChanType
<1>f. ASSUME UNCHANGED <<senderClosed, code, transfer, done, result, terminal_set, terminal_code>>,
             UNCHANGED chan \/ (~senderClosed /\ \E m \in Msgs : chan' = Append(chan, m)),
             pc'[Reactor] = pc[Reactor],
             \A p \in Procs : pc'[p] = "localComplete" => pc[p] = "localComplete" \/ senderClosed
      PROVE EndInv'
  <2>1. transfer' = "queued" => chan' # <<>> /\ Head(chan') = "EXECUTE"
    <3>1. transfer = "queued" => chan # <<>> /\ Head(chan) = "EXECUTE"
      BY DEF EndInv
    <3>2. CASE UNCHANGED chan
      BY <1>f, <3>1, <3>2
    <3>3. ASSUME NEW m \in Msgs, chan' = Append(chan, m), chan # <<>>
          PROVE chan' # <<>> /\ Head(chan') = Head(chan)
      BY <1>c, <3>3
    <3>q. QED
      BY <1>f, <3>1, <3>2, <3>3
  <2>2. Agreement'
    <3>1. pc[Reactor] = "stopped" => senderClosed
      BY DEF ReactorInv
    <3>q. QED
      BY <1>f, <3>1 DEF EndInv, Agreement
  <2>q. QED
    BY <1>f, <2>1, <2>2 DEF EndInv
<1>r. ASSUME NEW l, pc' = [pc EXCEPT ![Reactor] = l], l # "localComplete"
      PROVE /\ pc'[Reactor] = l
            /\ \A p \in Procs : pc'[p] = "localComplete" => pc[p] = "localComplete"
  BY <1>r, <1>t
<1>w. pc[Reactor] \in {"loop", "fire", "firePause", "pause"} => ~senderClosed
  BY DEF ReactorInv
<1>x. chan # <<>> => Head(chan) = chan[1] /\ 1 \in 1..Len(chan)
  BY <1>c, LenProperties, EmptySeq
<1>y. chan # <<>> /\ Head(chan) = "EXECUTE" => transfer = "queued"
  BY <1>x DEF ReactorInv
<1>d. ASSUME NEW l, pc' = [pc EXCEPT ![Reactor] = l], l \in {"normalize", "setResult"},
             pc[Reactor] \in {"loop", "pause", "drain"}, transfer \in {"queued", "active"},
             transfer' = "detached", senderClosed => senderClosed', senderClosed' => code' # "ok",
             UNCHANGED <<done, result, terminal_set, terminal_code>>
      PROVE EndInv'
  <2>1. ~done /\ result = "none"
    BY <1>d DEF EndInv
  <2>2. /\ pc'[Reactor] = l
        /\ \A p \in Procs : pc'[p] = "localComplete" => pc[p] = "localComplete"
    BY <1>d, <1>r
  <2>3. Agreement'
    BY <1>d, <2>1, <2>2 DEF Agreement
  <2>q. QED
    BY <1>d, <2>1, <2>2, <2>3 DEF EndInv, FinishLabels
<1>s. ASSUME NEW l, pc' = [pc EXCEPT ![Reactor] = l],
             l \in {"loop", "fire", "firePause", "pause"},
             pc[Reactor] \in {"loop", "fire", "firePause", "pause"},
             UNCHANGED <<senderClosed, code, transfer, done, result, terminal_set, terminal_code, chan>>
      PROVE EndInv'
  <2>2. /\ pc'[Reactor] = l
        /\ \A p \in Procs : pc'[p] = "localComplete" => pc[p] = "localComplete"
    BY <1>s, <1>r
  <2>3. Agreement'
    BY <1>s, <2>2 DEF EndInv, Agreement
  <2>q. QED
    BY <1>s, <2>2, <2>3 DEF EndInv, FinishLabels
<1>h. ASSUME UNCHANGED <<senderClosed, code, transfer, done, result, terminal_set, terminal_code, pc>>,
             transfer # "queued", pc[Reactor] # "stopped"
      PROVE EndInv'
  <2>1. Agreement'
    BY <1>h DEF EndInv, Agreement
  <2>q. QED
    BY <1>h, <2>1 DEF EndInv
<1> USE DEF vars, sharedVars, streamVars, chanVars, curlVars, threadVars, readVars, Goto
<1>1. CASE StartRead
  BY <1>1, <1>t, <1>f DEF StartRead
<1>2. CASE TryRead
  BY <1>2, <1>t, <1>f DEF TryRead, ChunkFirst, ResumeAfter
<1>3. CASE ReadResumed
  BY <1>3, <1>t, <1>f DEF ReadResumed, PauseKept
<1>4. CASE WaitRead
  BY <1>4, <1>t, <1>f DEF WaitRead, ReadReady, Register
<1>5. CASE FinishRead
  BY <1>5, <1>t, <1>f DEF FinishRead
<1>6. CASE InterruptDelay
  BY <1>6, <1>t, <1>f DEF InterruptDelay
<1>7. CASE InterruptFinish
  BY <1>7, <1>t, <1>f DEF InterruptFinish
<1>8. CASE AcceptChunk
  BY <1>8, <1>s DEF AcceptChunk, Arrives, AtLoop
<1>9. CASE RefuseChunk
  BY <1>9, <1>t, <1>f DEF RefuseChunk, Arrives, AtLoop, Open, HasSpace, RefusedAgain
<1>10. CASE RejectChunk
  BY <1>10, <1>d, <1>w DEF RejectChunk, Arrives, AtLoop, Finish
<1>11. CASE CallbackFire
  BY <1>11, <1>s DEF CallbackFire, Fire
<1>12. CASE CallbackPause
  <2>1. transfer = "active" /\ pc[Reactor] = "pause"
    BY <1>12 DEF CallbackPause, ReactorInv
  <2>2. CASE Finish("error")
    BY <1>12, <1>d, <1>w, <2>1, <2>2 DEF CallbackPause, Finish
  <2>3. CASE Goto(Reactor, "loop") /\ UNCHANGED <<transfer, code>>
    BY <1>12, <1>s, <2>1, <2>3 DEF CallbackPause
  <2>q. QED
    BY <1>12, <2>2, <2>3 DEF CallbackPause
<1>13. CASE BodyDone
  BY <1>13, <1>d, <1>w DEF BodyDone, CurlDone, AtLoop, Finish
<1>14. CASE FlushResume /\ UNCHANGED readVars
  BY <1>14, <1>t, <1>f DEF FlushResume, NeedsResume
<1>15. CASE EnqueueResumeOk /\ UNCHANGED readVars
  <2>1. \E m \in Msgs : chan' = Append(chan, m)
    BY <1>15 DEF EnqueueResumeOk, Msgs
  <2>q. QED
    BY <1>15, <1>t, <1>f, <2>1 DEF EnqueueResumeOk
<1>16. CASE EnqueueResumeFail /\ UNCHANGED readVars
  BY <1>16, <1>t, <1>f DEF EnqueueResumeFail, ResumeFailed
<1>17. CASE RestorePaused /\ UNCHANGED readVars
  BY <1>17, <1>t, <1>f DEF RestorePaused, OwedAgain
<1>18. CASE FlushRetry /\ UNCHANGED readVars
  BY <1>18, <1>t, <1>f DEF FlushRetry
<1>19. CASE Woken /\ UNCHANGED readVars
  BY <1>19, <1>t, <1>f DEF Woken
<1>20. CASE InterruptWait /\ UNCHANGED readVars
  BY <1>20, <1>t, <1>f DEF InterruptWait
<1>21. CASE Unregister /\ UNCHANGED readVars
  BY <1>21, <1>t, <1>f DEF Unregister, StillRegistered
<1>22. CASE RequestCancel /\ UNCHANGED readVars
  <2>1. \E m \in Msgs : chan' = Append(chan, m)
    BY <1>22 DEF RequestCancel, Msgs
  <2>q. QED
    BY <1>22, <1>t, <1>f, <2>1 DEF RequestCancel
<1>23. CASE ResumeRequest /\ UNCHANGED readVars
  <2>1. \E m \in Msgs : chan' = Append(chan, m)
    BY <1>23 DEF ResumeRequest, Msgs
  <2>q. QED
    BY <1>23, <1>t, <1>f, <2>1 DEF ResumeRequest
<1>24. CASE ExecuteOk /\ UNCHANGED readVars
  <2>1. /\ pc[Reactor] = "loop" /\ transfer = "queued" /\ transfer' = "active"
        /\ UNCHANGED <<senderClosed, code, done, result, terminal_set, terminal_code, pc>>
    BY <1>24, <1>y DEF ExecuteOk, Receive, AtLoop
  <2>2. Agreement'
    BY <2>1 DEF EndInv, Agreement
  <2>q. QED
    BY <2>1, <2>2 DEF EndInv
<1>25. CASE ExecuteFail /\ UNCHANGED readVars
  BY <1>25, <1>d, <1>w, <1>y DEF ExecuteFail, Receive, AtLoop
<1>26. CASE CancelTransfer /\ UNCHANGED readVars
  BY <1>26, <1>d, <1>w DEF CancelTransfer, Receive, AtLoop, Finish
<1>27. CASE ResumeTransfer /\ UNCHANGED readVars
  <2>1. transfer = "active" /\ pc[Reactor] = "loop"
    BY <1>27 DEF ResumeTransfer, Receive, AtLoop
  <2>2. CASE Finish("error")
    BY <1>27, <1>d, <1>w, <2>1, <2>2 DEF ResumeTransfer, Finish
  <2>3. CASE UNCHANGED <<transfer, code, pc>>
    BY <1>27, <1>h, <2>1, <2>3 DEF ResumeTransfer
  <2>q. QED
    BY <1>27, <2>2, <2>3 DEF ResumeTransfer
<1>28. CASE StaleControl /\ UNCHANGED readVars
  <2>1. chan # <<>> /\ Head(chan) # "EXECUTE" /\ pc[Reactor] = "loop"
    BY <1>28 DEF StaleControl, Receive, AtLoop
  <2>2. transfer # "queued"
    BY <2>1 DEF EndInv
  <2>q. QED
    BY <1>28, <1>h, <2>1, <2>2 DEF StaleControl
<1>29. CASE CurlDone("error") /\ UNCHANGED readVars
  BY <1>29, <1>d, <1>w DEF CurlDone, AtLoop, Finish
<1>30. CASE Normalize /\ UNCHANGED readVars
  <2>1. /\ pc[Reactor] = "normalize" /\ transfer = "detached" /\ code' \in {code, "aborted"}
        /\ pc' = [pc EXCEPT ![Reactor] = "setResult"]
        /\ UNCHANGED <<senderClosed, transfer, done, result, terminal_set, terminal_code, chan>>
    BY <1>30 DEF Normalize, Normalized, ReactorInv
  <2>2. /\ pc'[Reactor] = "setResult"
        /\ \A p \in Procs : pc'[p] = "localComplete" => pc[p] = "localComplete"
    BY <2>1, <1>r
  <2>3. Agreement'
    BY <2>1, <2>2 DEF EndInv, Agreement
  <2>q. QED
    BY <2>1, <2>2, <2>3 DEF EndInv, FinishLabels
<1>31. CASE SetResult /\ UNCHANGED readVars
  <2>1. /\ pc[Reactor] = "setResult" /\ transfer = "detached" /\ result' = code
        /\ pc' = [pc EXCEPT ![Reactor] = "complete"]
        /\ UNCHANGED <<senderClosed, code, transfer, done, terminal_set, terminal_code, chan>>
    BY <1>31 DEF SetResult, ReactorInv
  <2>2. /\ pc'[Reactor] = "complete"
        /\ \A p \in Procs : pc'[p] = "localComplete" => pc[p] = "localComplete"
    BY <2>1, <1>r
  <2>3. ~done /\ result = "none" /\ code # "none"
    BY <2>1 DEF EndInv, TypeOK, CurlType, Codes
  <2>4. terminal_set => terminal_code # "ok" /\ code # "ok"
    BY <2>3 DEF EndInv
  <2>5. Agreement'
    BY <2>1, <2>2, <2>4 DEF Agreement
  <2>q. QED
    BY <2>1, <2>2, <2>3, <2>5 DEF EndInv, FinishLabels
<1>32. CASE CompleteTransfer /\ UNCHANGED readVars
  <2>1. /\ pc[Reactor] = "complete" /\ transfer = "detached" /\ terminal_set' = TRUE
        /\ terminal_code' = IF terminal_set THEN terminal_code ELSE code
        /\ pc' = [pc EXCEPT ![Reactor] = "completeFire"]
        /\ UNCHANGED <<senderClosed, code, transfer, done, result, chan>>
    BY <1>32 DEF CompleteTransfer, CompleteStream, FirstCode, ReactorInv
  <2>2. /\ pc'[Reactor] = "completeFire"
        /\ \A p \in Procs : pc'[p] = "localComplete" => pc[p] = "localComplete"
    BY <2>1, <1>r
  <2>3. result = code /\ result # "none" /\ ~done
    BY <2>1 DEF EndInv
  <2>4. terminal_set => (terminal_code = "ok" <=> result = "ok")
    BY <2>3 DEF EndInv, Agreement
  <2>5. Agreement'
    BY <2>1, <2>2, <2>3, <2>4 DEF Agreement
  <2>q. QED
    BY <2>1, <2>2, <2>3, <2>5 DEF EndInv, FinishLabels
<1>33. CASE CompleteFire /\ UNCHANGED readVars
  <2>1. /\ pc[Reactor] = "completeFire" /\ pc' = [pc EXCEPT ![Reactor] = "wakeResult"]
        /\ UNCHANGED <<senderClosed, code, transfer, done, result, terminal_set, terminal_code, chan>>
    BY <1>33 DEF CompleteFire, Fire
  <2>2. /\ pc'[Reactor] = "wakeResult"
        /\ \A p \in Procs : pc'[p] = "localComplete" => pc[p] = "localComplete"
    BY <2>1, <1>r
  <2>3. Agreement'
    BY <2>1, <2>2 DEF EndInv, Agreement
  <2>q. QED
    BY <2>1, <2>2, <2>3 DEF EndInv, FinishLabels
<1>34. CASE WakeResult /\ UNCHANGED readVars
  <2>1. /\ pc[Reactor] = "wakeResult" /\ done' = TRUE /\ transfer' = "gone"
        /\ UNCHANGED <<senderClosed, code, result, terminal_set, terminal_code, chan>>
    BY <1>34 DEF WakeResult
  <2>2. /\ pc'[Reactor] \in {"drain", "loop"}
        /\ \A p \in Procs : pc'[p] = "localComplete" => pc[p] = "localComplete"
    BY <1>34, <1>r DEF WakeResult
  <2>3. result # "none" /\ terminal_set
    BY <2>1 DEF EndInv
  <2>4. Agreement'
    BY <2>1, <2>2 DEF EndInv, Agreement
  <2>q. QED
    BY <2>1, <2>2, <2>3, <2>4 DEF EndInv, FinishLabels
<1>35. CASE Drain /\ UNCHANGED readVars
  <2>0. /\ pc[Reactor] = "drain" /\ senderClosed
        /\ UNCHANGED <<senderClosed, code, result, done, terminal_set, terminal_code>>
    BY <1>35 DEF Drain, ReactorInv
  <2>1. CASE chan = <<>>
    <3>1. UNCHANGED <<chan, transfer>> /\ pc' = [pc EXCEPT ![Reactor] = "stopped"]
      BY <1>35, <2>1 DEF Drain
    <3>2. /\ pc'[Reactor] = "stopped"
          /\ \A p \in Procs : pc'[p] = "localComplete" => pc[p] = "localComplete"
      BY <3>1, <1>r
    <3>3. transfer \notin {"active", "queued", "detached"}
      BY <2>0, <2>1 DEF EndInv, ReactorInv, FinishLabels
    <3>4. done /\ terminal_set
      BY <1>t, <3>3 DEF EndInv
    <3>5. Agreement'
      BY <2>0, <2>1, <3>1, <3>4 DEF EndInv, Agreement
    <3>q. QED
      BY <2>0, <2>1, <3>1, <3>2, <3>3, <3>4, <3>5 DEF EndInv
  <2>2. CASE chan # <<>> /\ Head(chan) = "EXECUTE"
    <3>1. transfer' = "detached" /\ pc' = [pc EXCEPT ![Reactor] = "setResult"]
      BY <1>35, <2>2 DEF Drain, DrainFails
    <3>2. transfer = "queued" /\ code # "ok"
      BY <1>y, <2>0, <2>2 DEF EndInv
    <3>q. QED
      BY <1>d, <2>0, <3>1, <3>2
  <2>3. CASE chan # <<>> /\ Head(chan) # "EXECUTE"
    <3>1. UNCHANGED <<transfer, pc>>
      BY <1>35, <2>3 DEF Drain, DrainFails
    <3>2. transfer # "queued"
      BY <2>3 DEF EndInv
    <3>q. QED
      BY <1>h, <2>0, <3>1, <3>2
  <2>q. QED
    BY <2>1, <2>2, <2>3
<1>36. CASE \E c \in {"aborted", "error"} : Shutdown(c) /\ UNCHANGED readVars
  <2> PICK c \in {"aborted", "error"} : Shutdown(c) /\ UNCHANGED readVars
    BY <1>36
  <2>1. /\ pc[Reactor] = "loop" /\ senderClosed' = TRUE
        /\ UNCHANGED <<chan, result, done, terminal_set, terminal_code>>
    BY DEF Shutdown, AtLoop
  <2>2. CASE transfer = "active"
    BY <1>d, <2>1, <2>2 DEF Shutdown, Finish
  <2>3. CASE transfer # "active"
    <3>1. code' = c /\ pc' = [pc EXCEPT ![Reactor] = "drain"] /\ UNCHANGED transfer
      BY <2>3 DEF Shutdown
    <3>2. /\ pc'[Reactor] = "drain"
          /\ \A p \in Procs : pc'[p] = "localComplete" => pc[p] = "localComplete"
      BY <3>1, <1>r
    <3>3. Agreement'
      BY <2>1, <3>2 DEF EndInv, Agreement
    <3>4. transfer # "detached"
      BY <2>1 DEF EndInv, FinishLabels
    <3>q. QED
      BY <2>1, <3>1, <3>2, <3>3, <3>4 DEF EndInv
  <2>q. QED
    BY <2>2, <2>3
<1>37. CASE \E p \in {User} \cup Closers : LocalComplete(p) /\ UNCHANGED readVars
  <2> PICK p \in {User} \cup Closers : LocalComplete(p) /\ UNCHANGED readVars
    BY <1>37
  <2>1. /\ pc[p] = "localComplete" /\ terminal_set' = TRUE
        /\ terminal_code' = IF terminal_set THEN terminal_code ELSE "aborted"
        /\ pc' = [pc EXCEPT ![p] = "localFire"]
        /\ UNCHANGED <<senderClosed, code, transfer, done, result, chan>>
    BY DEF LocalComplete, CompleteStream, FirstCode
  <2>2. p \in Procs /\ p # Reactor
    BY <1>t
  <2>3. /\ pc'[Reactor] = pc[Reactor]
        /\ \A q \in Procs : pc'[q] = "localComplete" => pc[q] = "localComplete"
    BY <1>t, <2>1, <2>2
  <2>4. senderClosed /\ code # "ok"
    BY <2>1, <2>2 DEF EndInv
  <2>5. ~terminal_set => result # "ok"
    <3>1. ~terminal_set /\ result # "none" => pc[Reactor] = "complete"
      BY DEF EndInv
    <3>q. QED
      BY <2>4, <3>1 DEF EndInv
  <2>6. terminal_set /\ result = "none" => terminal_code # "ok"
    BY DEF EndInv
  <2>7. Agreement'
    BY <2>1, <2>3, <2>5 DEF EndInv, Agreement
  <2>q. QED
    BY <2>1, <2>3, <2>4, <2>6, <2>7 DEF EndInv
<1>38. CASE \E p \in {User} \cup Closers : LocalFire(p) /\ UNCHANGED readVars
  BY <1>38, <1>t, <1>f DEF LocalFire, Fire
<1>39. CASE \E c \in Closers : StartClose(c) /\ UNCHANGED readVars
  BY <1>39, <1>t, <1>f DEF StartClose
<1>40. CASE \E c \in Closers : CloseStream(c) /\ UNCHANGED readVars
  BY <1>40, <1>t, <1>f DEF CloseStream, NeedsCancel, Detach
<1>41. CASE \E c \in Closers : CloseFire(c) /\ UNCHANGED readVars
  BY <1>41, <1>t, <1>f DEF CloseFire, Fire
<1>42. CASE \E c \in Closers : EnqueueCancelOk(c) /\ UNCHANGED readVars
  <2>1. \E m \in Msgs : chan' = Append(chan, m)
    BY <1>42 DEF EnqueueCancelOk, Msgs
  <2>q. QED
    BY <1>42, <1>t, <1>f, <2>1 DEF EnqueueCancelOk
<1>43. CASE \E c \in Closers : EnqueueCancelFail(c) /\ UNCHANGED readVars
  BY <1>43, <1>t, <1>f DEF EnqueueCancelFail
<1>44. CASE \E c \in Closers : UndoCancel(c) /\ UNCHANGED readVars
  BY <1>44, <1>t, <1>f DEF UndoCancel, CancelUndone
<1>45. CASE \E c \in Closers : AwaitDone(c) /\ UNCHANGED readVars
  BY <1>45, <1>t, <1>f DEF AwaitDone
<1>46. CASE \E c \in Closers : RetryClose(c) /\ UNCHANGED readVars
  BY <1>46, <1>t, <1>f DEF RetryClose
<1>47. CASE UNCHANGED vars
  BY <1>47, <1>t, <1>f
<1> HIDE DEF vars, sharedVars, streamVars, chanVars, curlVars, threadVars, readVars, Goto
<1>q. QED
  BY <1>1, <1>2, <1>3, <1>4, <1>5, <1>6, <1>7, <1>8, <1>9, <1>10, <1>11,
     <1>12, <1>13, <1>14, <1>15, <1>16, <1>17, <1>18, <1>19, <1>20, <1>21,
     <1>22, <1>23, <1>24, <1>25, <1>26, <1>27, <1>28, <1>29, <1>30, <1>31,
     <1>32, <1>33, <1>34, <1>35, <1>36, <1>37, <1>38, <1>39, <1>40, <1>41,
     <1>42, <1>43, <1>44, <1>45, <1>46, <1>47
  DEF Next, ReaderStep, CloseStep, CloserStep, ReactorStep, FinishStep,
      Deliver, Environment

(* Success means the whole body: BodyDone is the one source of "ok". *)
LEMMA WholeStep == TypeOK /\ ReactorInv /\ EndInv /\ WholeInv /\ [Next]_vars => WholeInv'
<1> SUFFICES ASSUME TypeOK, ReactorInv, EndInv, WholeInv, [Next]_vars PROVE WholeInv'
  OBVIOUS
<1>t. /\ pc \in [Procs -> UserPcs \cup CloserPcs \cup ReactorPcs]
      /\ Reactor \in Procs /\ User \in Procs /\ Closers \subseteq Procs
      /\ Reactor # User /\ Reactor \notin Closers
  BY StreamAssumption DEF TypeOK, ThreadType, Procs
<1>n. next \in 1..(N + 1) /\ N \in Nat
  BY DownloadAssumption DEF TypeOK
<1>f. ASSUME UNCHANGED <<code, result, next, terminal_set, terminal_code>>,
             pc'[Reactor] \in {"normalize", "setResult", "complete"} =>
               pc'[Reactor] = pc[Reactor] \/ code # "ok"
      PROVE WholeInv'
  BY <1>f DEF WholeInv
<1>d. ASSUME UNCHANGED <<result, next, terminal_set, terminal_code>>, code' # "ok"
      PROVE WholeInv'
  BY <1>d DEF WholeInv
<1> USE DEF vars, sharedVars, streamVars, chanVars, curlVars, threadVars, readVars, Goto
<1>1. CASE StartRead
  BY <1>1, <1>t, <1>f DEF StartRead
<1>2. CASE TryRead
  BY <1>2, <1>t, <1>f DEF TryRead, ChunkFirst, ResumeAfter
<1>3. CASE ReadResumed
  BY <1>3, <1>t, <1>f DEF ReadResumed, PauseKept
<1>4. CASE WaitRead
  BY <1>4, <1>t, <1>f DEF WaitRead, ReadReady, Register
<1>5. CASE FinishRead
  BY <1>5, <1>t, <1>f DEF FinishRead
<1>6. CASE InterruptDelay
  BY <1>6, <1>t, <1>f DEF InterruptDelay
<1>7. CASE InterruptFinish
  BY <1>7, <1>t, <1>f DEF InterruptFinish
<1>8. CASE AcceptChunk
  <2>1. /\ next <= N /\ pc'[Reactor] \in {"fire", "firePause"}
        /\ UNCHANGED <<code, result, terminal_set, terminal_code>>
    BY <1>8, <1>t DEF AcceptChunk, Arrives
  <2>2. next # N + 1
    BY <1>n, <2>1
  <2>q. QED
    BY <2>1, <2>2 DEF WholeInv
<1>9. CASE RefuseChunk
  BY <1>9, <1>t, <1>f DEF RefuseChunk, Arrives, AtLoop, Open, HasSpace, RefusedAgain
<1>10. CASE RejectChunk
  BY <1>10, <1>d DEF RejectChunk, Arrives, AtLoop, Finish
<1>11. CASE CallbackFire
  BY <1>11, <1>t, <1>f DEF CallbackFire, Fire
<1>12. CASE CallbackPause
  <2>1. CASE Finish("error")
    BY <1>12, <1>d, <2>1 DEF CallbackPause, Finish
  <2>2. CASE Goto(Reactor, "loop") /\ UNCHANGED <<transfer, code>>
    BY <1>12, <1>t, <1>f, <2>2 DEF CallbackPause
  <2>q. QED
    BY <1>12, <2>1, <2>2 DEF CallbackPause
<1>13. CASE BodyDone
  <2>1. next > N /\ UNCHANGED <<next, result, terminal_set, terminal_code>>
    BY <1>13 DEF BodyDone, CurlDone
  <2>2. next = N + 1
    BY <1>n, <2>1
  <2>q. QED
    BY <2>1, <2>2 DEF WholeInv
<1>14. CASE FlushResume /\ UNCHANGED readVars
  BY <1>14, <1>t, <1>f DEF FlushResume, NeedsResume
<1>15. CASE EnqueueResumeOk /\ UNCHANGED readVars
  BY <1>15, <1>t, <1>f DEF EnqueueResumeOk
<1>16. CASE EnqueueResumeFail /\ UNCHANGED readVars
  BY <1>16, <1>t, <1>f DEF EnqueueResumeFail, ResumeFailed
<1>17. CASE RestorePaused /\ UNCHANGED readVars
  BY <1>17, <1>t, <1>f DEF RestorePaused, OwedAgain
<1>18. CASE FlushRetry /\ UNCHANGED readVars
  BY <1>18, <1>t, <1>f DEF FlushRetry
<1>19. CASE Woken /\ UNCHANGED readVars
  BY <1>19, <1>t, <1>f DEF Woken
<1>20. CASE InterruptWait /\ UNCHANGED readVars
  BY <1>20, <1>t, <1>f DEF InterruptWait
<1>21. CASE Unregister /\ UNCHANGED readVars
  BY <1>21, <1>t, <1>f DEF Unregister, StillRegistered
<1>22. CASE RequestCancel /\ UNCHANGED readVars
  BY <1>22, <1>t, <1>f DEF RequestCancel
<1>23. CASE ResumeRequest /\ UNCHANGED readVars
  BY <1>23, <1>t, <1>f DEF ResumeRequest
<1>24. CASE ExecuteOk /\ UNCHANGED readVars
  BY <1>24, <1>t, <1>f DEF ExecuteOk, Receive, AtLoop
<1>25. CASE ExecuteFail /\ UNCHANGED readVars
  BY <1>25, <1>d DEF ExecuteFail, Receive, AtLoop
<1>26. CASE CancelTransfer /\ UNCHANGED readVars
  BY <1>26, <1>d DEF CancelTransfer, Receive, AtLoop, Finish
<1>27. CASE ResumeTransfer /\ UNCHANGED readVars
  <2>1. CASE Finish("error")
    BY <1>27, <1>d, <2>1 DEF ResumeTransfer, Finish
  <2>2. CASE UNCHANGED <<transfer, code, pc>>
    BY <1>27, <1>t, <1>f, <2>2 DEF ResumeTransfer
  <2>q. QED
    BY <1>27, <2>1, <2>2 DEF ResumeTransfer
<1>28. CASE StaleControl /\ UNCHANGED readVars
  BY <1>28, <1>t, <1>f DEF StaleControl, Receive, AtLoop
<1>29. CASE CurlDone("error") /\ UNCHANGED readVars
  BY <1>29, <1>d DEF CurlDone, AtLoop, Finish
<1>30. CASE Normalize /\ UNCHANGED readVars
  <2>1. /\ pc[Reactor] = "normalize" /\ code' \in {code, "aborted"}
        /\ UNCHANGED <<next, result, terminal_set, terminal_code>>
    BY <1>30 DEF Normalize, Normalized
  <2>q. QED
    BY <2>1 DEF WholeInv
<1>31. CASE SetResult /\ UNCHANGED readVars
  <2>1. /\ pc[Reactor] = "setResult" /\ result' = code
        /\ UNCHANGED <<next, code, terminal_set, terminal_code>>
    BY <1>31 DEF SetResult
  <2>q. QED
    BY <2>1 DEF WholeInv
<1>32. CASE CompleteTransfer /\ UNCHANGED readVars
  <2>1. /\ pc[Reactor] = "complete" /\ UNCHANGED <<next, code, result>>
        /\ terminal_code' = IF terminal_set THEN terminal_code ELSE code
    BY <1>32 DEF CompleteTransfer, CompleteStream, FirstCode
  <2>q. QED
    BY <2>1 DEF WholeInv
<1>33. CASE CompleteFire /\ UNCHANGED readVars
  BY <1>33, <1>t, <1>f DEF CompleteFire, Fire
<1>34. CASE WakeResult /\ UNCHANGED readVars
  BY <1>34, <1>t, <1>f DEF WakeResult
<1>35. CASE Drain /\ UNCHANGED readVars
  <2>1. code # "ok" /\ UNCHANGED <<code, result, next, terminal_set, terminal_code>>
    BY <1>35 DEF Drain, ReactorInv, EndInv
  <2>q. QED
    BY <1>f, <2>1
<1>36. CASE \E c \in {"aborted", "error"} : Shutdown(c) /\ UNCHANGED readVars
  BY <1>36, <1>d DEF Shutdown, Finish
<1>37. CASE \E p \in {User} \cup Closers : LocalComplete(p) /\ UNCHANGED readVars
  <2> PICK p \in {User} \cup Closers : LocalComplete(p) /\ UNCHANGED readVars
    BY <1>37
  <2>1. /\ terminal_code' = IF terminal_set THEN terminal_code ELSE "aborted"
        /\ pc' = [pc EXCEPT ![p] = "localFire"] /\ UNCHANGED <<next, code, result>>
    BY DEF LocalComplete, CompleteStream, FirstCode
  <2>2. pc'[Reactor] = pc[Reactor]
    BY <1>t, <2>1
  <2>q. QED
    BY <2>1, <2>2 DEF WholeInv
<1>38. CASE \E p \in {User} \cup Closers : LocalFire(p) /\ UNCHANGED readVars
  BY <1>38, <1>t, <1>f DEF LocalFire, Fire
<1>39. CASE \E c \in Closers : StartClose(c) /\ UNCHANGED readVars
  BY <1>39, <1>t, <1>f DEF StartClose
<1>40. CASE \E c \in Closers : CloseStream(c) /\ UNCHANGED readVars
  BY <1>40, <1>t, <1>f DEF CloseStream, NeedsCancel, Detach
<1>41. CASE \E c \in Closers : CloseFire(c) /\ UNCHANGED readVars
  BY <1>41, <1>t, <1>f DEF CloseFire, Fire
<1>42. CASE \E c \in Closers : EnqueueCancelOk(c) /\ UNCHANGED readVars
  BY <1>42, <1>t, <1>f DEF EnqueueCancelOk
<1>43. CASE \E c \in Closers : EnqueueCancelFail(c) /\ UNCHANGED readVars
  BY <1>43, <1>t, <1>f DEF EnqueueCancelFail
<1>44. CASE \E c \in Closers : UndoCancel(c) /\ UNCHANGED readVars
  BY <1>44, <1>t, <1>f DEF UndoCancel, CancelUndone
<1>45. CASE \E c \in Closers : AwaitDone(c) /\ UNCHANGED readVars
  BY <1>45, <1>t, <1>f DEF AwaitDone
<1>46. CASE \E c \in Closers : RetryClose(c) /\ UNCHANGED readVars
  BY <1>46, <1>t, <1>f DEF RetryClose
<1>47. CASE UNCHANGED vars
  BY <1>47, <1>t, <1>f
<1> HIDE DEF vars, sharedVars, streamVars, chanVars, curlVars, threadVars, readVars, Goto
<1>q. QED
  BY <1>1, <1>2, <1>3, <1>4, <1>5, <1>6, <1>7, <1>8, <1>9, <1>10, <1>11,
     <1>12, <1>13, <1>14, <1>15, <1>16, <1>17, <1>18, <1>19, <1>20, <1>21,
     <1>22, <1>23, <1>24, <1>25, <1>26, <1>27, <1>28, <1>29, <1>30, <1>31,
     <1>32, <1>33, <1>34, <1>35, <1>36, <1>37, <1>38, <1>39, <1>40, <1>41,
     <1>42, <1>43, <1>44, <1>45, <1>46, <1>47
  DEF Next, ReaderStep, CloseStep, CloserStep, ReactorStep, FinishStep,
      Deliver, Environment

(* The callback appends what is delivered and the reader takes the oldest:  *)
(* no step loses, repeats or reorders a chunk.                              *)
LEMMA PrefixStep ==
  TypeOK /\ ClosedIsEmpty /\ OrderInv /\ PrefixInv /\ [Next]_vars => PrefixInv'
<1> SUFFICES ASSUME TypeOK, ClosedIsEmpty, OrderInv, PrefixInv, [Next]_vars PROVE PrefixInv'
  OBVIOUS
<1>n. /\ next \in 1..(N + 1) /\ N \in Nat /\ ring \in Seq(Chunks) /\ received \in Seq(Chunks)
      /\ inHand \in Chunks \cup {NoChunk} /\ lost \subseteq Chunks
      /\ Len(ring) \in Nat /\ Len(received) \in Nat
  BY DownloadAssumption, LenProperties DEF TypeOK, StreamType
<1>k. PICK k \in 0..(next - 1) :
        /\ Taken = 1..k
        /\ ~closed => /\ k + Len(ring) = next - 1
                      /\ \A i \in 1..Len(ring) : ring[i] = k + i
  BY DEF PrefixInv
<1>f. ASSUME UNCHANGED <<received, lost, inHand, next, ring, closed>> PROVE PrefixInv'
  <2>1. Taken' = Taken
    BY <1>f DEF Taken
  <2>q. QED
    BY <1>f, <1>k, <2>1 DEF PrefixInv
<1>g. ASSUME Taken' = Taken, UNCHANGED <<next, ring, closed>> PROVE PrefixInv'
  BY <1>g, <1>k DEF PrefixInv
<1> USE DEF vars, sharedVars, streamVars, chanVars, curlVars, threadVars, readVars, Goto
<1>1. CASE StartRead
  BY <1>1, <1>f DEF StartRead
<1>2. CASE TryRead
  <2>1. CASE ring = <<>>
    BY <1>2, <1>f, <2>1 DEF TryRead, ChunkFirst
  <2>2. CASE ring # <<>>
    <3>1. /\ pc[User] = "try" /\ inHand' = Head(ring) /\ ring' = Tail(ring)
          /\ UNCHANGED <<closed, next, received, lost>>
      BY <1>2, <2>2 DEF TryRead, ChunkFirst
    <3>2. ~closed /\ inHand = NoChunk
      BY <2>2, <3>1 DEF ClosedIsEmpty, OrderInv, HandLabels
    <3>3. /\ Len(ring) > 0 /\ Head(ring) = ring[1] /\ Len(ring') = Len(ring) - 1
          /\ \A i \in 1..Len(ring') : ring'[i] = ring[i + 1]
      BY <1>n, <2>2, <3>1, HeadTailProperties, LenProperties, EmptySeq
    <3>4. /\ k + Len(ring) = next - 1 /\ inHand' = k + 1
          /\ \A i \in 1..Len(ring) : ring[i] = k + i
      BY <1>k, <1>n, <3>1, <3>2, <3>3
    <3>5. Taken' = Taken \cup {k + 1}
      <4>1. k + 1 # NoChunk
        BY <1>k DEF NoChunk
      <4>q. QED
        BY <3>1, <3>2, <3>4, <4>1 DEF Taken
    <3>6. Taken' = 1..(k + 1)
      BY <1>k, <3>5
    <3>7. k + 1 \in 0..(next' - 1) /\ (k + 1) + Len(ring') = next' - 1
      <4>1. /\ k \in Nat /\ next \in Nat /\ Len(ring) \in Nat /\ Len(ring) > 0
            /\ Len(ring') = Len(ring) - 1 /\ next' = next /\ k + Len(ring) = next - 1
        BY <1>k, <1>n, <3>1, <3>3, <3>4
      <4>q. QED
        BY <4>1
    <3>8. \A i \in 1..Len(ring') : ring'[i] = (k + 1) + i
      BY <1>k, <1>n, <3>3, <3>4
    <3>q. QED
      BY <3>6, <3>7, <3>8 DEF PrefixInv
  <2>q. QED
    BY <2>1, <2>2
<1>3. CASE ReadResumed
  <2>0. UNCHANGED <<next, ring, closed, lost>>
    BY <1>3 DEF ReadResumed, PauseKept
  <2>1. CASE inHand = NoChunk
    BY <1>3, <1>f, <2>0, <2>1 DEF ReadResumed
  <2>2. CASE inHand # NoChunk
    <3>1. received' = Append(received, inHand) /\ inHand' = NoChunk
      BY <1>3, <2>2 DEF ReadResumed
    <3>2. /\ Len(received') = Len(received) + 1
          /\ \A i \in 1..Len(received) : received'[i] = received[i]
          /\ received'[Len(received) + 1] = inHand
      BY <1>n, <2>2, <3>1, AppendProperties
    <3>3. {received'[i] : i \in 1..Len(received')} =
            {received[i] : i \in 1..Len(received)} \cup {inHand}
      BY <1>n, <3>2
    <3>4. Taken' = Taken
      BY <2>0, <2>2, <3>1, <3>3 DEF Taken
    <3>q. QED
      BY <1>g, <2>0, <3>4
  <2>q. QED
    BY <2>1, <2>2
<1>4. CASE WaitRead
  BY <1>4, <1>f DEF WaitRead, ReadReady, Register
<1>5. CASE FinishRead
  BY <1>5, <1>f DEF FinishRead
<1>6. CASE InterruptDelay
  <2>1. /\ lost' = lost \cup ({inHand} \ {NoChunk}) /\ inHand' = NoChunk
        /\ UNCHANGED <<next, ring, closed, received>>
    BY <1>6 DEF InterruptDelay
  <2>2. Taken' = Taken
    BY <2>1 DEF Taken
  <2>q. QED
    BY <1>g, <2>1, <2>2
<1>7. CASE InterruptFinish
  BY <1>7, <1>f DEF InterruptFinish
<1>8. CASE AcceptChunk
  <2>1. /\ ~closed /\ ring' = Append(ring, next) /\ next' = next + 1 /\ next <= N
        /\ UNCHANGED <<received, lost, inHand, closed>>
    BY <1>8 DEF AcceptChunk, Open, Arrives
  <2>2. next \in Chunks
    BY <1>n, <2>1 DEF Chunks
  <2>3. /\ Len(ring') = Len(ring) + 1 /\ ring'[Len(ring) + 1] = next
        /\ \A i \in 1..Len(ring) : ring'[i] = ring[i]
    BY <1>n, <2>1, <2>2, AppendProperties
  <2>4. k + Len(ring) = next - 1 /\ \A i \in 1..Len(ring) : ring[i] = k + i
    BY <1>k, <2>1
  <2>5. k \in 0..(next' - 1) /\ k + Len(ring') = next' - 1
    BY <1>k, <1>n, <2>1, <2>3, <2>4
  <2>6. ASSUME NEW i \in 1..Len(ring') PROVE ring'[i] = k + i
    <3>1. CASE i \in 1..Len(ring)
      BY <2>3, <2>4, <3>1
    <3>2. CASE i = Len(ring) + 1
      <4>1. k \in Nat /\ next \in Nat /\ Len(ring) \in Nat
        BY <1>k, <1>n
      <4>2. next = k + (Len(ring) + 1)
        BY <2>4, <4>1
      <4>q. QED
        BY <2>3, <3>2, <4>2
    <3>q. QED
      BY <1>n, <2>3, <3>1, <3>2
  <2>7. Taken' = 1..k
    BY <1>k, <2>1 DEF Taken
  <2>q. QED
    BY <2>5, <2>6, <2>7 DEF PrefixInv
<1>9. CASE RefuseChunk
  BY <1>9, <1>f DEF RefuseChunk, RefusedAgain
<1>10. CASE RejectChunk
  BY <1>10, <1>f DEF RejectChunk, Arrives, AtLoop, Finish
<1>11. CASE CallbackFire
  BY <1>11, <1>f DEF CallbackFire, Fire
<1>12. CASE CallbackPause
  BY <1>12, <1>f DEF CallbackPause, Finish
<1>13. CASE BodyDone
  BY <1>13, <1>f DEF BodyDone, CurlDone, AtLoop, Finish
<1>14. CASE FlushResume /\ UNCHANGED readVars
  BY <1>14, <1>f DEF FlushResume, NeedsResume
<1>15. CASE EnqueueResumeOk /\ UNCHANGED readVars
  BY <1>15, <1>f DEF EnqueueResumeOk
<1>16. CASE EnqueueResumeFail /\ UNCHANGED readVars
  BY <1>16, <1>f DEF EnqueueResumeFail, ResumeFailed
<1>17. CASE RestorePaused /\ UNCHANGED readVars
  BY <1>17, <1>f DEF RestorePaused, OwedAgain
<1>18. CASE FlushRetry /\ UNCHANGED readVars
  BY <1>18, <1>f DEF FlushRetry
<1>19. CASE Woken /\ UNCHANGED readVars
  BY <1>19, <1>f DEF Woken
<1>20. CASE InterruptWait /\ UNCHANGED readVars
  BY <1>20, <1>f DEF InterruptWait
<1>21. CASE Unregister /\ UNCHANGED readVars
  BY <1>21, <1>f DEF Unregister, StillRegistered
<1>22. CASE RequestCancel /\ UNCHANGED readVars
  BY <1>22, <1>f DEF RequestCancel
<1>23. CASE ResumeRequest /\ UNCHANGED readVars
  BY <1>23, <1>f DEF ResumeRequest
<1>24. CASE ExecuteOk /\ UNCHANGED readVars
  BY <1>24, <1>f DEF ExecuteOk, Receive, AtLoop
<1>25. CASE ExecuteFail /\ UNCHANGED readVars
  BY <1>25, <1>f DEF ExecuteFail, Receive, AtLoop
<1>26. CASE CancelTransfer /\ UNCHANGED readVars
  BY <1>26, <1>f DEF CancelTransfer, Receive, AtLoop, Finish
<1>27. CASE ResumeTransfer /\ UNCHANGED readVars
  BY <1>27, <1>f DEF ResumeTransfer, Receive, AtLoop, Finish
<1>28. CASE StaleControl /\ UNCHANGED readVars
  BY <1>28, <1>f DEF StaleControl, Receive, AtLoop
<1>29. CASE CurlDone("error") /\ UNCHANGED readVars
  BY <1>29, <1>f DEF CurlDone, AtLoop, Finish
<1>30. CASE Normalize /\ UNCHANGED readVars
  BY <1>30, <1>f DEF Normalize, Normalized
<1>31. CASE SetResult /\ UNCHANGED readVars
  BY <1>31, <1>f DEF SetResult
<1>32. CASE CompleteTransfer /\ UNCHANGED readVars
  BY <1>32, <1>f DEF CompleteTransfer, CompleteStream, FirstCode, Detach
<1>33. CASE CompleteFire /\ UNCHANGED readVars
  BY <1>33, <1>f DEF CompleteFire, Fire
<1>34. CASE WakeResult /\ UNCHANGED readVars
  BY <1>34, <1>f DEF WakeResult
<1>35. CASE Drain /\ UNCHANGED readVars
  BY <1>35, <1>f DEF Drain, DrainFails
<1>36. CASE \E c \in {"aborted", "error"} : Shutdown(c) /\ UNCHANGED readVars
  BY <1>36, <1>f DEF Shutdown, AtLoop, Finish
<1>37. CASE \E p \in {User} \cup Closers : LocalComplete(p) /\ UNCHANGED readVars
  BY <1>37, <1>f DEF LocalComplete, CompleteStream, FirstCode, Detach
<1>38. CASE \E p \in {User} \cup Closers : LocalFire(p) /\ UNCHANGED readVars
  BY <1>38, <1>f DEF LocalFire, Fire
<1>39. CASE \E c \in Closers : StartClose(c) /\ UNCHANGED readVars
  BY <1>39, <1>f DEF StartClose
<1>40. CASE \E c \in Closers : CloseStream(c) /\ UNCHANGED readVars
  <2>1. closed' = TRUE /\ UNCHANGED <<received, lost, inHand, next>>
    BY <1>40 DEF CloseStream
  <2>2. Taken' = 1..k
    BY <1>k, <2>1 DEF Taken
  <2>q. QED
    BY <1>k, <2>1, <2>2 DEF PrefixInv
<1>41. CASE \E c \in Closers : CloseFire(c) /\ UNCHANGED readVars
  BY <1>41, <1>f DEF CloseFire, Fire
<1>42. CASE \E c \in Closers : EnqueueCancelOk(c) /\ UNCHANGED readVars
  BY <1>42, <1>f DEF EnqueueCancelOk
<1>43. CASE \E c \in Closers : EnqueueCancelFail(c) /\ UNCHANGED readVars
  BY <1>43, <1>f DEF EnqueueCancelFail
<1>44. CASE \E c \in Closers : UndoCancel(c) /\ UNCHANGED readVars
  BY <1>44, <1>f DEF UndoCancel, CancelUndone
<1>45. CASE \E c \in Closers : AwaitDone(c) /\ UNCHANGED readVars
  BY <1>45, <1>f DEF AwaitDone
<1>46. CASE \E c \in Closers : RetryClose(c) /\ UNCHANGED readVars
  BY <1>46, <1>f DEF RetryClose
<1>47. CASE UNCHANGED vars
  BY <1>47, <1>f
<1> HIDE DEF vars, sharedVars, streamVars, chanVars, curlVars, threadVars, readVars, Goto
<1>q. QED
  BY <1>1, <1>2, <1>3, <1>4, <1>5, <1>6, <1>7, <1>8, <1>9, <1>10, <1>11,
     <1>12, <1>13, <1>14, <1>15, <1>16, <1>17, <1>18, <1>19, <1>20, <1>21,
     <1>22, <1>23, <1>24, <1>25, <1>26, <1>27, <1>28, <1>29, <1>30, <1>31,
     <1>32, <1>33, <1>34, <1>35, <1>36, <1>37, <1>38, <1>39, <1>40, <1>41,
     <1>42, <1>43, <1>44, <1>45, <1>46, <1>47
  DEF Next, ReaderStep, CloseStep, CloserStep, ReactorStep, FinishStep,
      Deliver, Environment

(* The chunk in hand is newer than all that were returned or dropped.       *)
LEMMA OrderStep ==
  TypeOK /\ ClosedIsEmpty /\ PrefixInv /\ OrderInv /\ [Next]_vars => OrderInv'
<1> SUFFICES ASSUME TypeOK, ClosedIsEmpty, PrefixInv, OrderInv, [Next]_vars PROVE OrderInv'
  OBVIOUS
<1>t. /\ pc \in [Procs -> UserPcs \cup CloserPcs \cup ReactorPcs]
      /\ Reactor \in Procs /\ User \in Procs /\ Closers \subseteq Procs
      /\ Reactor # User /\ User \notin Closers
  BY StreamAssumption DEF TypeOK, ThreadType, Procs
<1>n. /\ N \in Nat /\ ring \in Seq(Chunks) /\ received \in Seq(Chunks)
      /\ inHand \in Chunks \cup {NoChunk} /\ lost \subseteq Chunks /\ Len(received) \in Nat
      /\ \A i \in 1..Len(received) : received[i] \in Chunks
  BY DownloadAssumption, LenProperties, ElementOfSeq DEF TypeOK, StreamType
<1>f. ASSUME UNCHANGED <<received, lost, inHand>>,
             pc'[User] = pc[User] \/ inHand = NoChunk \/ pc'[User] \in HandLabels
      PROVE OrderInv'
  BY <1>f DEF OrderInv
<1>h. pc[User] \notin HandLabels => inHand = NoChunk
  BY DEF OrderInv
<1> USE DEF vars, sharedVars, streamVars, chanVars, curlVars, threadVars, readVars, Goto
<1>1. CASE StartRead
  BY <1>1, <1>t, <1>f, <1>h DEF StartRead, HandLabels
<1>2. CASE TryRead
  <2>0. pc[User] = "try" /\ UNCHANGED <<received, lost>>
    BY <1>2 DEF TryRead
  <2>h. inHand = NoChunk
    BY <1>h, <2>0 DEF HandLabels
  <2>1. CASE ring = <<>>
    BY <1>2, <1>f, <2>0, <2>h, <2>1 DEF TryRead, ChunkFirst
  <2>2. CASE ring # <<>>
    <3>1. inHand' = Head(ring) /\ pc'[User] \in HandLabels
      BY <1>2, <1>t, <2>2 DEF TryRead, ChunkFirst, ResumeAfter, HandLabels
    <3>2. PICK k \in 0..(next - 1) :
            /\ Taken = 1..k
            /\ ~closed => \A i \in 1..Len(ring) : ring[i] = k + i
      BY DEF PrefixInv
    <3>3. Head(ring) = ring[1] /\ 1 \in 1..Len(ring)
      BY <1>n, <2>2, LenProperties, EmptySeq
    <3>4. inHand' = k + 1
      BY <2>2, <3>1, <3>2, <3>3 DEF ClosedIsEmpty
    <3>5. (\A i \in 1..Len(received) : received[i] \in 1..k) /\ lost \subseteq 1..k
      BY <3>2 DEF Taken
    <3>6. (\A i \in 1..Len(received) : received[i] < inHand') /\ \A c \in lost : c < inHand'
      BY <3>2, <3>4, <3>5
    <3>q. QED
      BY <2>0, <3>1, <3>6 DEF OrderInv
  <2>q. QED
    BY <2>1, <2>2
<1>3. CASE ReadResumed
  <2>0. pc[User] = "resumed" /\ UNCHANGED lost
    BY <1>3 DEF ReadResumed
  <2>1. CASE inHand = NoChunk
    BY <1>3, <1>f, <2>0, <2>1 DEF ReadResumed
  <2>2. CASE inHand # NoChunk
    <3>1. received' = Append(received, inHand) /\ inHand' = NoChunk
      BY <1>3, <2>2 DEF ReadResumed
    <3>2. /\ Len(received') = Len(received) + 1
          /\ \A i \in 1..Len(received) : received'[i] = received[i]
          /\ received'[Len(received) + 1] = inHand
      BY <1>n, <2>2, <3>1, AppendProperties
    <3>3. /\ \A i \in 1..Len(received) : received[i] < inHand
          /\ \A i, j \in 1..Len(received) : i < j => received[i] < received[j]
          /\ \A i \in 1..Len(received) : received[i] \notin lost
      BY <2>2 DEF OrderInv
    <3>4. inHand \notin lost
      <4>1. \A c \in lost : c < inHand
        BY <2>2 DEF OrderInv
      <4>2. inHand \in Nat
        BY <1>n, <2>2 DEF Chunks
      <4>q. QED
        BY <4>1, <4>2
    <3>5. \A i, j \in 1..Len(received') : i < j => received'[i] < received'[j]
      BY <1>n, <3>2, <3>3
    <3>6. \A i \in 1..Len(received') : received'[i] \notin lost'
      BY <1>n, <2>0, <3>2, <3>3, <3>4
    <3>q. QED
      BY <2>0, <3>1, <3>5, <3>6 DEF OrderInv
  <2>q. QED
    BY <2>1, <2>2
<1>4. CASE WaitRead
  BY <1>4, <1>t, <1>f, <1>h DEF WaitRead, ReadReady, Register, HandLabels
<1>5. CASE FinishRead
  BY <1>5, <1>t, <1>f, <1>h DEF FinishRead, HandLabels
<1>6. CASE InterruptDelay
  <2>1. /\ lost' = lost \cup ({inHand} \ {NoChunk}) /\ inHand' = NoChunk /\ UNCHANGED received
    BY <1>6 DEF InterruptDelay
  <2>2. \A i \in 1..Len(received) : received[i] \notin lost'
    <3>1. CASE inHand = NoChunk
      BY <2>1, <3>1 DEF OrderInv
    <3>2. CASE inHand # NoChunk
      <4>1. inHand \in Nat /\ \A i \in 1..Len(received) : received[i] < inHand
        BY <1>n, <3>2 DEF OrderInv, Chunks
      <4>2. \A i \in 1..Len(received) : received[i] # inHand
        BY <1>n, <4>1 DEF Chunks
      <4>q. QED
        BY <2>1, <4>2 DEF OrderInv
    <3>q. QED
      BY <3>1, <3>2
  <2>3. DelayInterruptible
    BY <1>6 DEF InterruptDelay
  <2>q. QED
    BY <2>1, <2>2, <2>3 DEF OrderInv
<1>7. CASE InterruptFinish
  BY <1>7, <1>t, <1>f, <1>h DEF InterruptFinish, HandLabels
<1>8. CASE AcceptChunk
  BY <1>8, <1>t, <1>f, <1>h DEF AcceptChunk, Arrives, AtLoop, Open, HasSpace, Detach, HandLabels
<1>9. CASE RefuseChunk
  BY <1>9, <1>t, <1>f, <1>h DEF RefuseChunk, Arrives, AtLoop, Open, HasSpace, RefusedAgain, HandLabels
<1>10. CASE RejectChunk
  BY <1>10, <1>t, <1>f, <1>h DEF RejectChunk, Arrives, AtLoop, Finish, HandLabels
<1>11. CASE CallbackFire
  BY <1>11, <1>t, <1>f, <1>h DEF CallbackFire, Fire, HandLabels
<1>12. CASE CallbackPause
  BY <1>12, <1>t, <1>f, <1>h DEF CallbackPause, Finish, HandLabels
<1>13. CASE BodyDone
  BY <1>13, <1>t, <1>f, <1>h DEF BodyDone, CurlDone, AtLoop, Finish, HandLabels
<1>14. CASE FlushResume /\ UNCHANGED readVars
  BY <1>14, <1>t, <1>f, <1>h DEF FlushResume, NeedsResume, HandLabels
<1>15. CASE EnqueueResumeOk /\ UNCHANGED readVars
  BY <1>15, <1>t, <1>f, <1>h DEF EnqueueResumeOk, HandLabels
<1>16. CASE EnqueueResumeFail /\ UNCHANGED readVars
  BY <1>16, <1>t, <1>f, <1>h DEF EnqueueResumeFail, ResumeFailed, HandLabels
<1>17. CASE RestorePaused /\ UNCHANGED readVars
  BY <1>17, <1>t, <1>f, <1>h DEF RestorePaused, OwedAgain, HandLabels
<1>18. CASE FlushRetry /\ UNCHANGED readVars
  BY <1>18, <1>t, <1>f, <1>h DEF FlushRetry, HandLabels
<1>19. CASE Woken /\ UNCHANGED readVars
  BY <1>19, <1>t, <1>f, <1>h DEF Woken, HandLabels
<1>20. CASE InterruptWait /\ UNCHANGED readVars
  BY <1>20, <1>t, <1>f, <1>h DEF InterruptWait, HandLabels
<1>21. CASE Unregister /\ UNCHANGED readVars
  BY <1>21, <1>t, <1>f, <1>h DEF Unregister, StillRegistered, HandLabels
<1>22. CASE RequestCancel /\ UNCHANGED readVars
  BY <1>22, <1>t, <1>f, <1>h DEF RequestCancel, HandLabels
<1>23. CASE ResumeRequest /\ UNCHANGED readVars
  BY <1>23, <1>t, <1>f, <1>h DEF ResumeRequest, HandLabels
<1>24. CASE ExecuteOk /\ UNCHANGED readVars
  BY <1>24, <1>t, <1>f, <1>h DEF ExecuteOk, Receive, AtLoop, HandLabels
<1>25. CASE ExecuteFail /\ UNCHANGED readVars
  BY <1>25, <1>t, <1>f, <1>h DEF ExecuteFail, Receive, AtLoop, HandLabels
<1>26. CASE CancelTransfer /\ UNCHANGED readVars
  BY <1>26, <1>t, <1>f, <1>h DEF CancelTransfer, Receive, AtLoop, Finish, HandLabels
<1>27. CASE ResumeTransfer /\ UNCHANGED readVars
  BY <1>27, <1>t, <1>f, <1>h DEF ResumeTransfer, Receive, AtLoop, Finish, HandLabels
<1>28. CASE StaleControl /\ UNCHANGED readVars
  BY <1>28, <1>t, <1>f, <1>h DEF StaleControl, Receive, AtLoop, HandLabels
<1>29. CASE CurlDone("error") /\ UNCHANGED readVars
  BY <1>29, <1>t, <1>f, <1>h DEF CurlDone, AtLoop, Finish, HandLabels
<1>30. CASE Normalize /\ UNCHANGED readVars
  BY <1>30, <1>t, <1>f, <1>h DEF Normalize, Normalized, HandLabels
<1>31. CASE SetResult /\ UNCHANGED readVars
  BY <1>31, <1>t, <1>f, <1>h DEF SetResult, HandLabels
<1>32. CASE CompleteTransfer /\ UNCHANGED readVars
  BY <1>32, <1>t, <1>f, <1>h DEF CompleteTransfer, CompleteStream, FirstCode, Detach, HandLabels
<1>33. CASE CompleteFire /\ UNCHANGED readVars
  BY <1>33, <1>t, <1>f, <1>h DEF CompleteFire, Fire, HandLabels
<1>34. CASE WakeResult /\ UNCHANGED readVars
  BY <1>34, <1>t, <1>f, <1>h DEF WakeResult, HandLabels
<1>35. CASE Drain /\ UNCHANGED readVars
  BY <1>35, <1>t, <1>f, <1>h DEF Drain, DrainFails, HandLabels
<1>36. CASE \E c \in {"aborted", "error"} : Shutdown(c) /\ UNCHANGED readVars
  BY <1>36, <1>t, <1>f, <1>h DEF Shutdown, AtLoop, Finish, HandLabels
<1>37. CASE \E p \in {User} \cup Closers : LocalComplete(p) /\ UNCHANGED readVars
  BY <1>37, <1>t, <1>f, <1>h DEF LocalComplete, CompleteStream, FirstCode, Detach, HandLabels
<1>38. CASE \E p \in {User} \cup Closers : LocalFire(p) /\ UNCHANGED readVars
  BY <1>38, <1>t, <1>f, <1>h DEF LocalFire, Fire, HandLabels
<1>39. CASE \E c \in Closers : StartClose(c) /\ UNCHANGED readVars
  BY <1>39, <1>t, <1>f, <1>h DEF StartClose, HandLabels
<1>40. CASE \E c \in Closers : CloseStream(c) /\ UNCHANGED readVars
  BY <1>40, <1>t, <1>f, <1>h DEF CloseStream, NeedsCancel, Detach, HandLabels
<1>41. CASE \E c \in Closers : CloseFire(c) /\ UNCHANGED readVars
  BY <1>41, <1>t, <1>f, <1>h DEF CloseFire, Fire, HandLabels
<1>42. CASE \E c \in Closers : EnqueueCancelOk(c) /\ UNCHANGED readVars
  BY <1>42, <1>t, <1>f, <1>h DEF EnqueueCancelOk, HandLabels
<1>43. CASE \E c \in Closers : EnqueueCancelFail(c) /\ UNCHANGED readVars
  BY <1>43, <1>t, <1>f, <1>h DEF EnqueueCancelFail, HandLabels
<1>44. CASE \E c \in Closers : UndoCancel(c) /\ UNCHANGED readVars
  BY <1>44, <1>t, <1>f, <1>h DEF UndoCancel, CancelUndone, HandLabels
<1>45. CASE \E c \in Closers : AwaitDone(c) /\ UNCHANGED readVars
  BY <1>45, <1>t, <1>f, <1>h DEF AwaitDone, HandLabels
<1>46. CASE \E c \in Closers : RetryClose(c) /\ UNCHANGED readVars
  BY <1>46, <1>t, <1>f, <1>h DEF RetryClose, HandLabels
<1>47. CASE UNCHANGED vars
  BY <1>47, <1>t, <1>f, <1>h
<1> HIDE DEF vars, sharedVars, streamVars, chanVars, curlVars, threadVars, readVars, Goto
<1>q. QED
  BY <1>1, <1>2, <1>3, <1>4, <1>5, <1>6, <1>7, <1>8, <1>9, <1>10, <1>11,
     <1>12, <1>13, <1>14, <1>15, <1>16, <1>17, <1>18, <1>19, <1>20, <1>21,
     <1>22, <1>23, <1>24, <1>25, <1>26, <1>27, <1>28, <1>29, <1>30, <1>31,
     <1>32, <1>33, <1>34, <1>35, <1>36, <1>37, <1>38, <1>39, <1>40, <1>41,
     <1>42, <1>43, <1>44, <1>45, <1>46, <1>47
  DEF Next, ReaderStep, CloseStep, CloserStep, ReactorStep, FinishStep,
      Deliver, Environment

(* The end of the body is reported only when all of it was taken.           *)
LEMMA EofStep ==
  TypeOK /\ ReactorInv /\ EndInv /\ WholeInv /\ PrefixInv /\ EofInv /\ [Next]_vars => EofInv'
<1> SUFFICES ASSUME TypeOK, ReactorInv, EndInv, WholeInv, PrefixInv, EofInv, [Next]_vars PROVE EofInv'
  OBVIOUS
<1>t. /\ pc \in [Procs -> UserPcs \cup CloserPcs \cup ReactorPcs]
      /\ Reactor \in Procs /\ User \in Procs /\ Closers \subseteq Procs
      /\ Reactor # User /\ User \notin Closers
  BY StreamAssumption DEF TypeOK, ThreadType, Procs
<1>f. ASSUME UNCHANGED <<received, lost, inHand>>, outcome' # "eof" \/ UNCHANGED <<outcome, result>>,
             terminal_set => UNCHANGED <<terminal_set, terminal_code>>,
             pc'[User] = pc[User] \/ (pc[User] # "idle" /\ pc'[User] # "finish") \/ outcome' # "eof",
             pc'[User] = "finish" => pc[User] = "finish"
      PROVE EofInv'
  <2>1. Taken' = Taken
    BY <1>f DEF Taken
  <2>2. pc[User] = "finish" => terminal_set /\ (terminal_code = "ok" => Taken = Chunks)
    BY DEF EofInv
  <2>3. pc'[User] = "finish" => terminal_set' /\ (terminal_code' = "ok" => Taken' = Chunks)
    BY <1>f, <2>1, <2>2
  <2>4. outcome' = "eof" => pc'[User] = "idle" /\ Taken' = Chunks /\ result' = "ok"
    BY <1>f, <2>1 DEF EofInv
  <2>q. QED
    BY <2>3, <2>4 DEF EofInv
<1>h. pc[User] # "idle" => outcome # "eof"
  BY DEF EofInv
<1> USE DEF vars, sharedVars, streamVars, chanVars, curlVars, threadVars, readVars, Goto
<1>1. CASE StartRead
  BY <1>1, <1>t, <1>f, <1>h DEF StartRead
<1>2. CASE TryRead
  <2>0. /\ pc[User] = "try" /\ outcome # "eof" /\ outcome' \in {outcome, "closed"}
        /\ UNCHANGED <<received, lost, terminal_set, terminal_code>>
    BY <1>2, <1>h DEF TryRead
  <2>1. CASE pc'[User] # "finish"
    BY <2>0, <2>1 DEF EofInv
  <2>2. CASE pc'[User] = "finish"
    <3>1. ring = <<>> /\ ~closed /\ terminal_set /\ UNCHANGED inHand
      BY <1>2, <1>t, <2>2 DEF TryRead, ChunkFirst, ResumeAfter
    <3>2. PICK k \in 0..(next - 1) : Taken = 1..k /\ k + Len(ring) = next - 1
      BY <3>1 DEF PrefixInv
    <3>3. terminal_code = "ok" => Taken = Chunks
      <4>1. Len(ring) = 0 /\ next \in 1..(N + 1) /\ N \in Nat
        BY <3>1, DownloadAssumption DEF TypeOK
      <4>2. terminal_code = "ok" => next = N + 1
        BY <3>1 DEF WholeInv
      <4>q. QED
        BY <3>2, <4>1, <4>2 DEF Chunks
    <3>4. Taken' = Taken
      BY <2>0, <3>1 DEF Taken
    <3>q. QED
      BY <2>0, <2>2, <3>1, <3>3, <3>4 DEF EofInv
  <2>q. QED
    BY <2>1, <2>2
<1>3. CASE ReadResumed
  <2>1. /\ pc[User] = "resumed" /\ outcome' \in {outcome, "chunk"} /\ pc'[User] \in {"idle", "wait"}
    BY <1>3, <1>t DEF ReadResumed
  <2>q. QED
    BY <1>h, <2>1 DEF EofInv
<1>4. CASE WaitRead
  <2>1. /\ pc[User] = "wait" /\ outcome' \in {outcome, "invalid"}
        /\ pc'[User] \in {"try", "flush", "idle", "blocked"}
    BY <1>4, <1>t DEF WaitRead
  <2>q. QED
    BY <1>h, <2>1 DEF EofInv
<1>5. CASE FinishRead
  <2>1. /\ pc[User] = "finish" /\ done /\ pc'[User] = "idle"
        /\ outcome' = IF terminal_code = "ok" THEN "eof" ELSE "error"
        /\ UNCHANGED <<received, lost, inHand, result>>
    BY <1>5, <1>t DEF FinishRead
  <2>2. terminal_code = "ok" => result = "ok" /\ Taken = Chunks
    BY <2>1 DEF EofInv, EndInv, Agreement
  <2>3. Taken' = Taken
    BY <2>1 DEF Taken
  <2>q. QED
    BY <2>1, <2>2, <2>3 DEF EofInv
<1>6. CASE InterruptDelay
  <2>1. outcome' = "interrupted" /\ pc'[User] = "idle"
    BY <1>6, <1>t DEF InterruptDelay
  <2>q. QED
    BY <2>1 DEF EofInv
<1>7. CASE InterruptFinish
  BY <1>7, <1>t, <1>f, <1>h DEF InterruptFinish
<1>8. CASE AcceptChunk
  BY <1>8, <1>t, <1>f, <1>h DEF AcceptChunk, Arrives, AtLoop, Open, HasSpace, Detach
<1>9. CASE RefuseChunk
  BY <1>9, <1>t, <1>f, <1>h DEF RefuseChunk, Arrives, AtLoop, Open, HasSpace, RefusedAgain
<1>10. CASE RejectChunk
  BY <1>10, <1>t, <1>f, <1>h DEF RejectChunk, Arrives, AtLoop, Finish
<1>11. CASE CallbackFire
  BY <1>11, <1>t, <1>f, <1>h DEF CallbackFire, Fire
<1>12. CASE CallbackPause
  BY <1>12, <1>t, <1>f, <1>h DEF CallbackPause, Finish
<1>13. CASE BodyDone
  BY <1>13, <1>t, <1>f, <1>h DEF BodyDone, CurlDone, AtLoop, Finish
<1>14. CASE FlushResume /\ UNCHANGED readVars
  BY <1>14, <1>t, <1>f, <1>h DEF FlushResume, NeedsResume
<1>15. CASE EnqueueResumeOk /\ UNCHANGED readVars
  BY <1>15, <1>t, <1>f, <1>h DEF EnqueueResumeOk
<1>16. CASE EnqueueResumeFail /\ UNCHANGED readVars
  BY <1>16, <1>t, <1>f, <1>h DEF EnqueueResumeFail, ResumeFailed
<1>17. CASE RestorePaused /\ UNCHANGED readVars
  BY <1>17, <1>t, <1>f, <1>h DEF RestorePaused, OwedAgain
<1>18. CASE FlushRetry /\ UNCHANGED readVars
  BY <1>18, <1>t, <1>f, <1>h DEF FlushRetry
<1>19. CASE Woken /\ UNCHANGED readVars
  BY <1>19, <1>t, <1>f, <1>h DEF Woken
<1>20. CASE InterruptWait /\ UNCHANGED readVars
  BY <1>20, <1>t, <1>f, <1>h DEF InterruptWait
<1>21. CASE Unregister /\ UNCHANGED readVars
  BY <1>21, <1>t, <1>f, <1>h DEF Unregister, StillRegistered
<1>22. CASE RequestCancel /\ UNCHANGED readVars
  BY <1>22, <1>t, <1>f, <1>h DEF RequestCancel
<1>23. CASE ResumeRequest /\ UNCHANGED readVars
  BY <1>23, <1>t, <1>f, <1>h DEF ResumeRequest
<1>24. CASE ExecuteOk /\ UNCHANGED readVars
  BY <1>24, <1>t, <1>f, <1>h DEF ExecuteOk, Receive, AtLoop
<1>25. CASE ExecuteFail /\ UNCHANGED readVars
  BY <1>25, <1>t, <1>f, <1>h DEF ExecuteFail, Receive, AtLoop
<1>26. CASE CancelTransfer /\ UNCHANGED readVars
  BY <1>26, <1>t, <1>f, <1>h DEF CancelTransfer, Receive, AtLoop, Finish
<1>27. CASE ResumeTransfer /\ UNCHANGED readVars
  BY <1>27, <1>t, <1>f, <1>h DEF ResumeTransfer, Receive, AtLoop, Finish
<1>28. CASE StaleControl /\ UNCHANGED readVars
  BY <1>28, <1>t, <1>f, <1>h DEF StaleControl, Receive, AtLoop
<1>29. CASE CurlDone("error") /\ UNCHANGED readVars
  BY <1>29, <1>t, <1>f, <1>h DEF CurlDone, AtLoop, Finish
<1>30. CASE Normalize /\ UNCHANGED readVars
  BY <1>30, <1>t, <1>f, <1>h DEF Normalize, Normalized
<1>31. CASE SetResult /\ UNCHANGED readVars
  <2>1. result = "none"
    BY <1>31 DEF SetResult, EndInv, ReactorInv
  <2>2. outcome # "eof"
    BY <2>1 DEF EofInv
  <2>q. QED
    BY <1>31, <1>t, <1>f, <2>2 DEF SetResult
<1>32. CASE CompleteTransfer /\ UNCHANGED readVars
  BY <1>32, <1>t, <1>f, <1>h DEF CompleteTransfer, CompleteStream, FirstCode, Detach
<1>33. CASE CompleteFire /\ UNCHANGED readVars
  BY <1>33, <1>t, <1>f, <1>h DEF CompleteFire, Fire
<1>34. CASE WakeResult /\ UNCHANGED readVars
  BY <1>34, <1>t, <1>f, <1>h DEF WakeResult
<1>35. CASE Drain /\ UNCHANGED readVars
  BY <1>35, <1>t, <1>f, <1>h DEF Drain, DrainFails
<1>36. CASE \E c \in {"aborted", "error"} : Shutdown(c) /\ UNCHANGED readVars
  BY <1>36, <1>t, <1>f, <1>h DEF Shutdown, AtLoop, Finish
<1>37. CASE \E p \in {User} \cup Closers : LocalComplete(p) /\ UNCHANGED readVars
  BY <1>37, <1>t, <1>f, <1>h DEF LocalComplete, CompleteStream, FirstCode, Detach
<1>38. CASE \E p \in {User} \cup Closers : LocalFire(p) /\ UNCHANGED readVars
  BY <1>38, <1>t, <1>f, <1>h DEF LocalFire, Fire
<1>39. CASE \E c \in Closers : StartClose(c) /\ UNCHANGED readVars
  BY <1>39, <1>t, <1>f, <1>h DEF StartClose
<1>40. CASE \E c \in Closers : CloseStream(c) /\ UNCHANGED readVars
  BY <1>40, <1>t, <1>f, <1>h DEF CloseStream, NeedsCancel, Detach
<1>41. CASE \E c \in Closers : CloseFire(c) /\ UNCHANGED readVars
  BY <1>41, <1>t, <1>f, <1>h DEF CloseFire, Fire
<1>42. CASE \E c \in Closers : EnqueueCancelOk(c) /\ UNCHANGED readVars
  BY <1>42, <1>t, <1>f, <1>h DEF EnqueueCancelOk
<1>43. CASE \E c \in Closers : EnqueueCancelFail(c) /\ UNCHANGED readVars
  BY <1>43, <1>t, <1>f, <1>h DEF EnqueueCancelFail
<1>44. CASE \E c \in Closers : UndoCancel(c) /\ UNCHANGED readVars
  BY <1>44, <1>t, <1>f, <1>h DEF UndoCancel, CancelUndone
<1>45. CASE \E c \in Closers : AwaitDone(c) /\ UNCHANGED readVars
  BY <1>45, <1>t, <1>f, <1>h DEF AwaitDone
<1>46. CASE \E c \in Closers : RetryClose(c) /\ UNCHANGED readVars
  BY <1>46, <1>t, <1>f, <1>h DEF RetryClose
<1>47. CASE UNCHANGED vars
  BY <1>47, <1>t, <1>f, <1>h
<1> HIDE DEF vars, sharedVars, streamVars, chanVars, curlVars, threadVars, readVars, Goto
<1>q. QED
  BY <1>1, <1>2, <1>3, <1>4, <1>5, <1>6, <1>7, <1>8, <1>9, <1>10, <1>11,
     <1>12, <1>13, <1>14, <1>15, <1>16, <1>17, <1>18, <1>19, <1>20, <1>21,
     <1>22, <1>23, <1>24, <1>25, <1>26, <1>27, <1>28, <1>29, <1>30, <1>31,
     <1>32, <1>33, <1>34, <1>35, <1>36, <1>37, <1>38, <1>39, <1>40, <1>41,
     <1>42, <1>43, <1>44, <1>45, <1>46, <1>47
  DEF Next, ReaderStep, CloseStep, CloserStep, ReactorStep, FinishStep,
      Deliver, Environment

(* A closed stream's transfer is normalized to ABORTED, so that the result  *)
(* of one that had not finished is not a success.                           *)
LEMMA AbandonStep ==
  TypeOK /\ ReactorInv /\ EndInv /\ Abandoned /\ [Next]_vars => Abandoned'
<1> SUFFICES ASSUME TypeOK, ReactorInv, EndInv, Abandoned, [Next]_vars PROVE Abandoned'
  OBVIOUS
<1>t. /\ pc \in [Procs -> UserPcs \cup CloserPcs \cup ReactorPcs]
      /\ Reactor \in Procs /\ User \in Procs /\ Closers \subseteq Procs
      /\ Reactor # User /\ Reactor \notin Closers
  BY StreamAssumption DEF TypeOK, ThreadType, Procs
<1>f. ASSUME UNCHANGED <<closed, result>>,
             pc'[Reactor] = "setResult" => UNCHANGED <<pc, code>> \/ code' # "ok"
      PROVE Abandoned'
  BY <1>f DEF Abandoned
<1>g. ASSUME closed' = closed \/ closed' = TRUE, UNCHANGED <<result, code>>, pc'[Reactor] = pc[Reactor]
      PROVE Abandoned'
  BY <1>g DEF Abandoned
<1> USE DEF vars, sharedVars, streamVars, chanVars, curlVars, threadVars, readVars, Goto
<1>1. CASE StartRead
  BY <1>1, <1>t, <1>g DEF StartRead
<1>2. CASE TryRead
  BY <1>2, <1>t, <1>g DEF TryRead, ChunkFirst, ResumeAfter
<1>3. CASE ReadResumed
  BY <1>3, <1>t, <1>g DEF ReadResumed, PauseKept
<1>4. CASE WaitRead
  BY <1>4, <1>t, <1>g DEF WaitRead, ReadReady, Register
<1>5. CASE FinishRead
  BY <1>5, <1>t, <1>g DEF FinishRead
<1>6. CASE InterruptDelay
  BY <1>6, <1>t, <1>g DEF InterruptDelay
<1>7. CASE InterruptFinish
  BY <1>7, <1>t, <1>g DEF InterruptFinish
<1>8. CASE AcceptChunk
  BY <1>8, <1>t, <1>f DEF AcceptChunk, Arrives, AtLoop, Open, HasSpace, Detach
<1>9. CASE RefuseChunk
  BY <1>9, <1>t, <1>f DEF RefuseChunk, Arrives, AtLoop, Open, HasSpace, RefusedAgain
<1>10. CASE RejectChunk
  BY <1>10, <1>t, <1>f DEF RejectChunk, Arrives, AtLoop, Finish
<1>11. CASE CallbackFire
  BY <1>11, <1>t, <1>f DEF CallbackFire, Fire
<1>12. CASE CallbackPause
  BY <1>12, <1>t, <1>f DEF CallbackPause, Finish
<1>13. CASE BodyDone
  BY <1>13, <1>t, <1>f DEF BodyDone, CurlDone, AtLoop, Finish
<1>14. CASE FlushResume /\ UNCHANGED readVars
  BY <1>14, <1>t, <1>g DEF FlushResume, NeedsResume
<1>15. CASE EnqueueResumeOk /\ UNCHANGED readVars
  BY <1>15, <1>t, <1>g DEF EnqueueResumeOk
<1>16. CASE EnqueueResumeFail /\ UNCHANGED readVars
  BY <1>16, <1>t, <1>g DEF EnqueueResumeFail, ResumeFailed
<1>17. CASE RestorePaused /\ UNCHANGED readVars
  BY <1>17, <1>t, <1>g DEF RestorePaused, OwedAgain
<1>18. CASE FlushRetry /\ UNCHANGED readVars
  BY <1>18, <1>t, <1>g DEF FlushRetry
<1>19. CASE Woken /\ UNCHANGED readVars
  BY <1>19, <1>t, <1>g DEF Woken
<1>20. CASE InterruptWait /\ UNCHANGED readVars
  BY <1>20, <1>t, <1>g DEF InterruptWait
<1>21. CASE Unregister /\ UNCHANGED readVars
  BY <1>21, <1>t, <1>g DEF Unregister, StillRegistered
<1>22. CASE RequestCancel /\ UNCHANGED readVars
  BY <1>22, <1>t, <1>g DEF RequestCancel
<1>23. CASE ResumeRequest /\ UNCHANGED readVars
  BY <1>23, <1>t, <1>g DEF ResumeRequest
<1>24. CASE ExecuteOk /\ UNCHANGED readVars
  BY <1>24, <1>t, <1>f DEF ExecuteOk, Receive, AtLoop
<1>25. CASE ExecuteFail /\ UNCHANGED readVars
  BY <1>25, <1>t, <1>f DEF ExecuteFail, Receive, AtLoop
<1>26. CASE CancelTransfer /\ UNCHANGED readVars
  BY <1>26, <1>t, <1>f DEF CancelTransfer, Receive, AtLoop, Finish
<1>27. CASE ResumeTransfer /\ UNCHANGED readVars
  BY <1>27, <1>t, <1>f DEF ResumeTransfer, Receive, AtLoop, Finish
<1>28. CASE StaleControl /\ UNCHANGED readVars
  BY <1>28, <1>t, <1>f DEF StaleControl, Receive, AtLoop
<1>29. CASE CurlDone("error") /\ UNCHANGED readVars
  BY <1>29, <1>t, <1>f DEF CurlDone, AtLoop, Finish
<1>30. CASE Normalize /\ UNCHANGED readVars
  BY <1>30, <1>f DEF Normalize, Normalized, Abandoned
<1>31. CASE SetResult /\ UNCHANGED readVars
  <2>1. /\ pc[Reactor] = "setResult" /\ result' = code /\ UNCHANGED <<closed, code>>
        /\ pc'[Reactor] = "complete"
    BY <1>31, <1>t DEF SetResult
  <2>q. QED
    BY <2>1 DEF Abandoned
<1>32. CASE CompleteTransfer /\ UNCHANGED readVars
  BY <1>32, <1>t, <1>f DEF CompleteTransfer, CompleteStream, FirstCode, Detach
<1>33. CASE CompleteFire /\ UNCHANGED readVars
  BY <1>33, <1>t, <1>f DEF CompleteFire, Fire
<1>34. CASE WakeResult /\ UNCHANGED readVars
  BY <1>34, <1>t, <1>f DEF WakeResult
<1>35. CASE Drain /\ UNCHANGED readVars
  <2>1. code' # "ok" /\ UNCHANGED <<closed, result>>
    BY <1>35 DEF Drain, ReactorInv, EndInv
  <2>q. QED
    BY <1>f, <2>1
<1>36. CASE \E c \in {"aborted", "error"} : Shutdown(c) /\ UNCHANGED readVars
  BY <1>36, <1>t, <1>f DEF Shutdown, AtLoop, Finish
<1>37. CASE \E p \in {User} \cup Closers : LocalComplete(p) /\ UNCHANGED readVars
  BY <1>37, <1>t, <1>g DEF LocalComplete, CompleteStream, FirstCode, Detach
<1>38. CASE \E p \in {User} \cup Closers : LocalFire(p) /\ UNCHANGED readVars
  BY <1>38, <1>t, <1>g DEF LocalFire, Fire
<1>39. CASE \E c \in Closers : StartClose(c) /\ UNCHANGED readVars
  BY <1>39, <1>t, <1>g DEF StartClose
<1>40. CASE \E c \in Closers : CloseStream(c) /\ UNCHANGED readVars
  BY <1>40, <1>t, <1>g DEF CloseStream, NeedsCancel, Detach
<1>41. CASE \E c \in Closers : CloseFire(c) /\ UNCHANGED readVars
  BY <1>41, <1>t, <1>g DEF CloseFire, Fire
<1>42. CASE \E c \in Closers : EnqueueCancelOk(c) /\ UNCHANGED readVars
  BY <1>42, <1>t, <1>g DEF EnqueueCancelOk
<1>43. CASE \E c \in Closers : EnqueueCancelFail(c) /\ UNCHANGED readVars
  BY <1>43, <1>t, <1>g DEF EnqueueCancelFail
<1>44. CASE \E c \in Closers : UndoCancel(c) /\ UNCHANGED readVars
  BY <1>44, <1>t, <1>g DEF UndoCancel, CancelUndone
<1>45. CASE \E c \in Closers : AwaitDone(c) /\ UNCHANGED readVars
  BY <1>45, <1>t, <1>g DEF AwaitDone
<1>46. CASE \E c \in Closers : RetryClose(c) /\ UNCHANGED readVars
  BY <1>46, <1>t, <1>g DEF RetryClose
<1>47. CASE UNCHANGED vars
  BY <1>47, <1>t, <1>g
<1> HIDE DEF vars, sharedVars, streamVars, chanVars, curlVars, threadVars, readVars, Goto
<1>q. QED
  BY <1>1, <1>2, <1>3, <1>4, <1>5, <1>6, <1>7, <1>8, <1>9, <1>10, <1>11,
     <1>12, <1>13, <1>14, <1>15, <1>16, <1>17, <1>18, <1>19, <1>20, <1>21,
     <1>22, <1>23, <1>24, <1>25, <1>26, <1>27, <1>28, <1>29, <1>30, <1>31,
     <1>32, <1>33, <1>34, <1>35, <1>36, <1>37, <1>38, <1>39, <1>40, <1>41,
     <1>42, <1>43, <1>44, <1>45, <1>46, <1>47
  DEF Next, ReaderStep, CloseStep, CloserStep, ReactorStep, FinishStep,
      Deliver, Environment

-----------------------------------------------------------------------------
(* A new stream, with its EXECUTE queued, satisfies the invariant. *)
LEMMA InitInv == Init => IInv /\ ClosedIsEmpty
<1> SUFFICES ASSUME Init PROVE IInv /\ ClosedIsEmpty
  OBVIOUS
<1> USE StreamAssumption, DownloadAssumption DEF Init, StreamInit
<1>1. TypeOK
  <2>1. StreamType(Chunks)
    <3>1. ring \in Seq(Chunks)
      BY EmptySeq
    <3>2. Len(ring) <= Capacity
      BY EmptySeq
    <3>q. QED
      BY <3>1, <3>2 DEF StreamType, Codes, OptToken
  <2>2. ChanType
    <3>1. <<"EXECUTE">> \in Seq({"EXECUTE", "RESUME", "CANCEL"})
      OBVIOUS
    <3>q. QED
      BY <3>1 DEF ChanType, Msgs
  <2>3. CurlType
    BY DEF CurlType, Codes
  <2>4. ThreadType(ReactorPcs)
    BY DEF ThreadType, OptToken, Procs, UserPcs, CloserPcs, ReactorPcs
  <2>q. QED
    BY <2>1, <2>2, <2>3, <2>4
    DEF TypeOK, Chunks, NoChunk, Outcomes
<1>2. TokenInv
  BY DEF TokenInv, TokenOwnership, Procs
<1>3. NoLostWakeup /\ ClosedIsEmpty
  BY DEF NoLostWakeup, ClosedIsEmpty
<1>4. ReactorInv /\ ResumeInv
  BY DEF ReactorInv, ResumeInv, Procs
<1>q. QED
  BY <1>1, <1>2, <1>3, <1>4 DEF IInv

(* The invariant holds in every reachable state of the stream: this is the  *)
(* fact the theorems below read their properties off.                       *)
THEOREM StreamInvariant == Spec => []IInv
<1>1. Init => IInv
  BY InitInv
<1>2. IInv /\ [Next]_vars => IInv'
  BY TypeStep, TokenStep, WakeupStep, ReactorInvStep, ResumeStep DEF IInv
<1>q. QED
  BY <1>1, <1>2, PTL DEF Spec

(* Types, and the ring never exceeds the capacity given to                  *)
(* hcurl_stream_create (the callback's test for a full ring).               *)
THEOREM TypeCorrect == Spec => []TypeOK
<1>1. IInv => TypeOK
  BY DEF IInv
<1>q. QED
  BY <1>1, StreamInvariant, PTL

(* No wake-up is lost: a registered reader has nothing to read, its stream  *)
(* is open and no resume is owed, for any number of closers.                *)
THEOREM NoWakeupIsLost == Spec => []NoLostWakeup
<1>1. IInv => NoLostWakeup
  BY DEF IInv
<1>q. QED
  BY <1>1, StreamInvariant, PTL

(* Each wait registration is owned by one party and fired or freed once,    *)
(* however cancel_waiter, the callback, close and completion interleave.    *)
THEOREM TokensHaveOneOwner == Spec => []TokenOwnership
<1>1. IInv => TokenOwnership
  BY DEF IInv, TokenInv
<1>q. QED
  BY <1>1, StreamInvariant, PTL

(* A reader never sleeps on a paused libcurl without a RESUME in the queue: *)
(* clearing paused before the enqueue loses no pause.                       *)
THEOREM ReaderIsNotStalled == Spec => []NoStall
<1>1. IInv => NoStall
  <2> SUFFICES ASSUME IInv, waiter # NoToken, transfer = "active", curlPaused
               PROVE  Has("RESUME")
    BY DEF NoStall
  <2>1. ~paused /\ ~closed /\ ~terminal_set
    BY DEF IInv, NoLostWakeup
  <2>2. pc[User] \in {"blocked", "unregister"}
    BY DEF IInv, TokenInv
  <2>q. QED
    BY <2>1, <2>2 DEF IInv, ResumeInv
<1>q. QED
  BY <1>1, StreamInvariant, PTL

(* A closed stream holds no chunk: the callback's closed check and          *)
(* drop_chunks_locked leave nothing to leak.                                *)
THEOREM ClosedStaysEmpty == Spec => []ClosedIsEmpty
<1>1. Init => ClosedIsEmpty
  BY InitInv
<1>2. TypeOK /\ ClosedIsEmpty /\ [Next]_vars => ClosedIsEmpty'
  BY ClosedStep
<1>q. QED
  BY <1>1, <1>2, TypeCorrect, PTL DEF Spec

(* Close, the first terminal code and the result are never taken back,      *)
(* though three kinds of threads may complete the stream.                   *)
THEOREM EndStaysFinal == Spec => EndIsFinal
<1>q. QED
  BY FinalStep, StreamInvariant, PTL DEF Spec, EndIsFinal

(* A new stream has no end yet, and nothing of its body has been taken. *)
LEMMA InitEnd == Init => EndInv /\ BodyInv
<1> SUFFICES ASSUME Init PROVE EndInv /\ BodyInv
  OBVIOUS
<1>a. /\ next = 1 /\ inHand = NoChunk /\ received = <<>> /\ lost = {} /\ outcome = "none"
      /\ ring = <<>> /\ closed = FALSE /\ terminal_set = FALSE /\ result = "none"
      /\ done = FALSE /\ senderClosed = FALSE /\ transfer = "queued" /\ chan = <<"EXECUTE">>
  BY DEF Init, StreamInit
<1>b. /\ \A p \in Procs : pc[p] = IF p = Reactor THEN "loop" ELSE "idle"
      /\ Reactor \in Procs /\ User \in Procs /\ Reactor # User
  BY StreamAssumption DEF Init, StreamInit, Procs
<1>1. Agreement
  BY <1>a, <1>b DEF Agreement
<1>2. EndInv
  <2>1. chan # <<>> /\ Head(chan) = "EXECUTE"
    BY <1>a
  <2>q. QED
    BY <1>a, <1>b, <1>1, <2>1 DEF EndInv
<1>3. WholeInv
  BY <1>a, <1>b DEF WholeInv
<1>4. OrderInv /\ EofInv
  BY <1>a, <1>b DEF OrderInv, EofInv
<1>5. Taken = 1..0
  BY <1>a DEF Taken
<1>6. PrefixInv
  BY <1>a, <1>5 DEF PrefixInv
<1>q. QED
  BY <1>2, <1>3, <1>4, <1>6 DEF BodyInv

(* EndInv rests on IInv, and BodyInv on both. *)
LEMMA EndInvariant == Spec => []EndInv
<1>1. IInv /\ EndInv /\ [Next]_vars => EndInv'
  BY EndStep DEF IInv
<1>q. QED
  BY <1>1, InitEnd, StreamInvariant, PTL DEF Spec

LEMMA BodyInvariant == Spec => []BodyInv
<1>1. IInv /\ EndInv /\ ClosedIsEmpty /\ BodyInv /\ [Next]_vars => BodyInv'
  BY WholeStep, PrefixStep, OrderStep, EofStep DEF IInv, BodyInv
<1>q. QED
  BY <1>1, InitEnd, StreamInvariant, EndInvariant, ClosedStaysEmpty, PTL DEF Spec

(* The stream's terminal code and the transfer's result agree on success,   *)
(* though a reader or a closer may complete the stream of a closed sender   *)
(* before the reactor does, and a stopped reactor has answered whatever was *)
(* accepted (the drain of shutdown_message_context).                        *)
THEOREM EndsAgree == Spec => []Agreement
<1>1. EndInv => Agreement
  BY DEF EndInv
<1>q. QED
  BY <1>1, EndInvariant, PTL

(* readBody returns the body in order and nothing twice, drops a chunk only *)
(* when the delay in flushResume is interrupted while it has that chunk in  *)
(* hand, and reports the end only after all of it was taken, for any ring   *)
(* capacity and any length.                                                 *)
THEOREM BodyStaysInOrder == Spec => []BodyInOrder
<1>1. TypeOK /\ BodyInv /\ ClosedIsEmpty => BodyInOrder
  <2> SUFFICES ASSUME TypeOK, BodyInv, ClosedIsEmpty PROVE BodyInOrder
    OBVIOUS
  <2>1. ASSUME inHand # NoChunk, NEW c \in Taken PROVE c <= inHand
    <3>1. inHand \in Nat
      BY <2>1, DownloadAssumption DEF TypeOK, Chunks
    <3>2. /\ \A i \in 1..Len(received) : received[i] < inHand
          /\ \A d \in lost : d < inHand
      BY <2>1 DEF BodyInv, OrderInv
    <3>3. /\ \A i \in 1..Len(received) : received[i] \in Nat
          /\ \A d \in lost : d \in Nat
      BY DownloadAssumption, ElementOfSeq DEF TypeOK, Chunks
    <3>4. c = inHand \/ c \in lost \/ \E i \in 1..Len(received) : c = received[i]
      BY DEF Taken
    <3>q. QED
      BY <3>1, <3>2, <3>3, <3>4
  <2>2. PrefixInv /\ OrderInv /\ EofInv
    BY DEF BodyInv
  <2>3. /\ \A i, j \in 1..Len(received) : i < j => received[i] < received[j]
        /\ \A i \in 1..Len(received) : received[i] \notin lost
        /\ ~DelayInterruptible => lost = {}
    BY <2>2 DEF OrderInv
  <2>4. outcome = "eof" => Taken = Chunks /\ result = "ok"
    BY <2>2 DEF EofInv
  <2> HIDE DEF Taken
  <2>q. QED
    BY <2>1, <2>2, <2>3, <2>4 DEF BodyInOrder, PrefixInv
<1>q. QED
  BY <1>1, TypeCorrect, BodyInvariant, ClosedStaysEmpty, PTL

(* A transfer closed before libcurl was done with it never reports success, *)
(* whatever was already on its way (normalize_transfer_code).               *)
THEOREM AbandonedNeverSucceeds == Spec => CloseNeverSucceeds
<1>1. IInv /\ EndInv /\ closed /\ transfer \in {"queued", "active"} => Abandoned
  <2> SUFFICES ASSUME IInv, EndInv, closed, transfer \in {"queued", "active"} PROVE Abandoned
    OBVIOUS
  <2>1. pc[Reactor] \notin {"setResult", "complete", "completeFire", "wakeResult"}
    BY DEF IInv, ReactorInv
  <2>2. result = "none"
    BY <2>1 DEF EndInv
  <2>q. QED
    BY <2>1, <2>2 DEF Abandoned
<1>2. IInv /\ EndInv /\ Abandoned /\ [Next]_vars => Abandoned'
  BY AbandonStep DEF IInv
<1>3. Abandoned => result # "ok"
  BY DEF Abandoned
<1>q. QED
  BY <1>1, <1>2, <1>3, StreamInvariant, EndInvariant, PTL DEF Spec, CloseNeverSucceeds
-----------------------------------------------------------------------------
(* The messages of one kind in a queue. *)
Places(s, m) == {i \in 1..Len(s) : s[i] = m}

(* How a message put in and one taken out change their number. *)
LEMMA PlacesFacts ==
  ASSUME NEW s \in Seq(Msgs), NEW m
  PROVE  /\ IsFiniteSet(Places(s, m)) /\ Cardinality(Places(s, m)) \in Nat
         /\ \A e \in Msgs : Cardinality(Places(Append(s, e), m))
                            = Cardinality(Places(s, m)) + One(e = m)
         /\ s # <<>> => Cardinality(Places(Tail(s), m))
                         = Cardinality(Places(s, m)) - One(Head(s) = m)
<1>1. IsFiniteSet(Places(s, m)) /\ Cardinality(Places(s, m)) \in Nat
  <2>1. IsFiniteSet(1..Len(s))
    BY FS_Interval
  <2>2. Places(s, m) \subseteq 1..Len(s)
    BY DEF Places
  <2>q. QED
    BY <2>1, <2>2, FS_Subset, FS_CardinalityType
<1>2. ASSUME NEW e \in Msgs
      PROVE  Cardinality(Places(Append(s, e), m)) = Cardinality(Places(s, m)) + One(e = m)
  <2>1. Places(Append(s, e), m) = IF e = m THEN Places(s, m) \cup {Len(s) + 1} ELSE Places(s, m)
    BY DEF Places
  <2>2. Len(s) + 1 \notin Places(s, m)
    BY DEF Places
  <2>3. Cardinality(Places(s, m) \cup {Len(s) + 1}) = Cardinality(Places(s, m)) + 1
    BY <1>1, <2>2, FS_AddElement
  <2>q. QED
    BY <1>1, <2>1, <2>3 DEF One
<1>3. ASSUME s # <<>>
      PROVE  Cardinality(Places(Tail(s), m)) = Cardinality(Places(s, m)) - One(Head(s) = m)
  <2> DEFINE S == Places(s, m) \ {1}
             T == Places(Tail(s), m)
             f == [i \in T |-> i + 1]
  <2>1. /\ Len(s) >= 1 /\ Len(s) \in Nat /\ Len(Tail(s)) = Len(s) - 1 /\ Head(s) = s[1]
        /\ \A i \in 1..(Len(s) - 1) : Tail(s)[i] = s[i + 1]
    BY <1>3
  <2>2. f \in Bijection(T, S)
    <3>0. \A i : i \in T <=> i \in 1..(Len(s) - 1) /\ s[i + 1] = m
      BY <2>1 DEF Places
    <3>1. \A i : i \in S <=> i \in 2..Len(s) /\ s[i] = m
      BY <2>1 DEF Places
    <3> HIDE DEF S, T
    <3>2. f \in [T -> S]
      BY <2>1, <3>0, <3>1
    <3>3. \A a, b \in T : f[a] = f[b] => a = b
      BY <2>1, <3>0
    <3>4. ASSUME NEW t \in S PROVE \E a \in T : f[a] = t
      <4>1. t \in 2..Len(s) /\ s[t] = m
        BY <3>1
      <4>2. t - 1 \in 1..(Len(s) - 1) /\ (t - 1) + 1 = t
        BY <2>1, <4>1
      <4>3. t - 1 \in T
        BY <3>0, <4>1, <4>2
      <4>q. QED
        BY <4>2, <4>3
    <3>d. DOMAIN f = T
      OBVIOUS
    <3> HIDE DEF f
    <3>5. f \in Injection(T, S)
      BY <3>2, <3>3, <3>d, Zenon DEF Injection, IsInjective
    <3>6. f \in Surjection(T, S)
      BY <3>2, <3>4, Zenon DEF Surjection
    <3>q. QED
      BY <3>5, <3>6, Zenon DEF Bijection
  <2>3. IsFiniteSet(S) /\ Cardinality(S)
          = IF 1 \in Places(s, m) THEN Cardinality(Places(s, m)) - 1 ELSE Cardinality(Places(s, m))
    BY <1>1, FS_RemoveElement
  <2>4. IsFiniteSet(T)
    <3>1. Len(Tail(s)) \in Int /\ IsFiniteSet(1..Len(Tail(s)))
      BY <2>1, FS_Interval
    <3>2. T \subseteq 1..Len(Tail(s))
      BY DEF Places
    <3>q. QED
      BY <3>1, <3>2, FS_Subset
  <2>5. Cardinality(T) = Cardinality(S)
    <3> HIDE DEF S, T, f
    <3>1. ExistsBijection(T, S)
      BY <2>2 DEF ExistsBijection
    <3>q. QED
      BY <2>4, <3>1, FS_Bijection
  <2>6. 1 \in Places(s, m) <=> Head(s) = m
    BY <2>1 DEF Places
  <2>q. QED
    BY <1>1, <2>3, <2>5, <2>6 DEF One
<1>q. QED
  BY <1>1, <1>2, <1>3

(* The number of messages of a kind before and after a step. *)
LEMMA CountFacts ==
  ASSUME TypeOK, NEW m \in Msgs
  PROVE  /\ Count(m) \in Nat
         /\ chan' = chan => Count(m)' = Count(m)
         /\ \A e \in Msgs : chan' = Append(chan, e) => Count(m)' = Count(m) + One(e = m)
         /\ chan # <<>> /\ chan' = Tail(chan) => Count(m)' = Count(m) - One(Head(chan) = m)
<1>1. chan \in Seq(Msgs)
  BY DEF TypeOK, ChanType
<1>2. Count(m) = Cardinality(Places(chan, m)) /\ Count(m)' = Cardinality(Places(chan', m))
  BY DEF Count, Places
<1>3. /\ Cardinality(Places(chan, m)) \in Nat
      /\ \A e \in Msgs : Cardinality(Places(Append(chan, e), m))
                         = Cardinality(Places(chan, m)) + One(e = m)
      /\ chan # <<>> => Cardinality(Places(Tail(chan), m))
                         = Cardinality(Places(chan, m)) - One(Head(chan) = m)
  BY <1>1, PlacesFacts
<1>q. QED
  BY <1>2, <1>3

(* The reader and the callback owe at most one RESUME at a time. *)
LEMMA ResumeBoundStep == TypeOK /\ ReactorInv /\ ResumeBound /\ [Next]_vars => ResumeBound'
<1> SUFFICES ASSUME TypeOK, ReactorInv, ResumeBound, [Next]_vars PROVE ResumeBound'
  OBVIOUS
<1>t. /\ pc \in [Procs -> UserPcs \cup CloserPcs \cup ReactorPcs]
      /\ Reactor \in Procs /\ User \in Procs /\ Closers \subseteq Procs
      /\ Reactor # User /\ Reactor \notin Closers /\ User \notin Closers
  BY StreamAssumption DEF TypeOK, ThreadType, Procs
<1>b. paused \in BOOLEAN /\ curlPaused \in BOOLEAN /\ spurious \in BOOLEAN
  BY DEF TypeOK, StreamType, CurlType, ChanType
<1>c. /\ Count("RESUME") \in Nat
      /\ chan' = chan => Count("RESUME")' = Count("RESUME")
      /\ chan' = Append(chan, "CANCEL") => Count("RESUME")' = Count("RESUME")
      /\ chan' = Append(chan, "RESUME") => Count("RESUME")' = Count("RESUME") + 1
      /\ chan # <<>> /\ chan' = Tail(chan) =>
           /\ Count("RESUME")' <= Count("RESUME") /\ Count("RESUME")' \in Nat
           /\ Head(chan) = "RESUME" => Count("RESUME")' = Count("RESUME") - 1
  <2>1. {"RESUME", "CANCEL"} \subseteq Msgs
    BY DEF Msgs
  <2>2. /\ Count("RESUME") \in Nat
        /\ chan' = chan => Count("RESUME")' = Count("RESUME")
        /\ \A e \in Msgs : chan' = Append(chan, e) => Count("RESUME")' = Count("RESUME") + One(e = "RESUME")
        /\ chan # <<>> /\ chan' = Tail(chan)
             => Count("RESUME")' = Count("RESUME") - One(Head(chan) = "RESUME")
    BY <2>1, CountFacts
  <2>3. chan # <<>> /\ chan' = Tail(chan) => Count("RESUME")' \in Nat
    <3> SUFFICES ASSUME chan # <<>>, chan' = Tail(chan) PROVE Count("RESUME")' \in Nat
      OBVIOUS
    <3>1. chan' \in Seq(Msgs)
      BY DEF TypeOK, ChanType
    <3>2. Cardinality(Places(chan', "RESUME")) \in Nat
      BY <3>1, PlacesFacts
    <3>q. QED
      BY <3>2 DEF Count, Places
  <2>q. QED
    BY <2>1, <2>2, <2>3 DEF One
<1>d. ASSUME pc'[User] = pc[User] \/ pc'[User] \notin {"enqResume", "unresume"},
             paused' \in {paused, FALSE}, spurious' = spurious,
             chan' = chan \/ chan' = Append(chan, "CANCEL") \/ (chan # <<>> /\ chan' = Tail(chan)),
             Listening' => Listening
      PROVE  ResumeBound'
  <2>1. Count("RESUME")' <= Count("RESUME") /\ Count("RESUME")' \in Nat
    BY <1>c, <1>d
  <2>a. One(paused)' <= One(paused) /\ One(paused)' \in Nat /\ One(paused) \in Nat
    <3>1. CASE paused' = FALSE
      BY <3>1 DEF One
    <3>2. CASE paused' = paused
      BY <1>b, <3>2 DEF One
    <3>q. QED
      BY <1>d, <3>1, <3>2
  <2>2. Owed' <= Owed
    BY <1>c, <1>d, <2>1, <2>a DEF Owed, One
  <2>3. Owed' \in Nat /\ Owed \in Nat /\ One(spurious) \in Nat
    BY <1>b, <1>c, <2>1 DEF Owed, One
  <2>q. QED
    BY <1>d, <2>2, <2>3 DEF ResumeBound
<1> USE DEF vars, sharedVars, streamVars, chanVars, curlVars, threadVars, readVars, Goto
<1>1. CASE StartRead
  BY <1>1, <1>t, <1>d DEF StartRead, Listening
<1>2. CASE TryRead
  BY <1>2, <1>t, <1>d DEF TryRead, ChunkFirst, ResumeAfter, Listening
<1>3. CASE ReadResumed
  BY <1>3, <1>t, <1>d DEF ReadResumed, PauseKept, Listening
<1>4. CASE WaitRead
  BY <1>4, <1>t, <1>d DEF WaitRead, ReadReady, Register, Listening
<1>5. CASE FinishRead
  BY <1>5, <1>t, <1>d DEF FinishRead, Listening
<1>6. CASE InterruptDelay
  BY <1>6, <1>t, <1>d DEF InterruptDelay, Listening
<1>7. CASE InterruptFinish
  BY <1>7, <1>t, <1>d DEF InterruptFinish, Listening
<1>8. CASE AcceptChunk
  BY <1>8, <1>t, <1>b, <1>c DEF AcceptChunk, Arrives, AtLoop, Open, HasSpace, Detach, Owed, Listening, One, ResumeBound
<1>9. CASE RefuseChunk
  BY <1>9, <1>t, <1>b, <1>c DEF RefuseChunk, Arrives, AtLoop, Open, HasSpace, RefusedAgain, Owed, Listening, One, ResumeBound
<1>10. CASE RejectChunk
  BY <1>10, <1>t, <1>d DEF RejectChunk, Arrives, AtLoop, Finish, Listening
<1>11. CASE CallbackFire
  BY <1>11, <1>t, <1>d DEF CallbackFire, Fire, Listening
<1>12. CASE CallbackPause
  BY <1>12, <1>t, <1>d DEF CallbackPause, Finish, Listening
<1>13. CASE BodyDone
  BY <1>13, <1>t, <1>d DEF BodyDone, CurlDone, AtLoop, Finish, Listening
<1>14. CASE FlushResume /\ UNCHANGED readVars
  <2>0. /\ pc[User] = "flush" /\ spurious' = spurious /\ chan' = chan
        /\ Listening' => Listening
    BY <1>14, <1>t DEF FlushResume, Listening
  <2>1. CASE NeedsResume
    <3>1. paused /\ ~paused' /\ pc'[User] = "enqResume"
      BY <1>14, <1>t, <2>1 DEF FlushResume, NeedsResume
    <3>q. QED
      BY <1>c, <2>0, <3>1 DEF Owed, One, ResumeBound
  <2>2. CASE ~NeedsResume
    <3>1. (paused' <=> paused) /\ pc'[User] = "resumed"
      BY <1>14, <1>t, <2>2 DEF FlushResume
    <3>q. QED
      BY <1>c, <2>0, <3>1 DEF Owed, One, ResumeBound
  <2>q. QED
    BY <2>1, <2>2
<1>15. CASE EnqueueResumeOk /\ UNCHANGED readVars
  BY <1>15, <1>t, <1>b, <1>c DEF EnqueueResumeOk, Owed, Listening, One, ResumeBound
<1>16. CASE EnqueueResumeFail /\ UNCHANGED readVars
  BY <1>16, <1>t, <1>b, <1>c DEF EnqueueResumeFail, ResumeFailed, Owed, Listening, One, ResumeBound
<1>17. CASE RestorePaused /\ UNCHANGED readVars
  BY <1>17, <1>t, <1>b, <1>c DEF RestorePaused, OwedAgain, Owed, Listening, One, ResumeBound
<1>18. CASE FlushRetry /\ UNCHANGED readVars
  BY <1>18, <1>t, <1>d DEF FlushRetry, Listening
<1>19. CASE Woken /\ UNCHANGED readVars
  BY <1>19, <1>t, <1>d DEF Woken, Listening
<1>20. CASE InterruptWait /\ UNCHANGED readVars
  BY <1>20, <1>t, <1>d DEF InterruptWait, Listening
<1>21. CASE Unregister /\ UNCHANGED readVars
  BY <1>21, <1>t, <1>d DEF Unregister, StillRegistered, Listening
<1>22. CASE RequestCancel /\ UNCHANGED readVars
  BY <1>22, <1>t, <1>d DEF RequestCancel, Listening
<1>23. CASE ResumeRequest /\ UNCHANGED readVars
  BY <1>23, <1>t, <1>b, <1>c DEF ResumeRequest, Owed, Listening, One, ResumeBound
<1>24. CASE ExecuteOk /\ UNCHANGED readVars
  BY <1>24, <1>t, <1>b, <1>c DEF ExecuteOk, Receive, AtLoop, Owed, Listening, One, ResumeBound, ReactorInv
<1>25. CASE ExecuteFail /\ UNCHANGED readVars
  BY <1>25, <1>t, <1>d DEF ExecuteFail, Receive, AtLoop, Listening
<1>26. CASE CancelTransfer /\ UNCHANGED readVars
  BY <1>26, <1>t, <1>d DEF CancelTransfer, Receive, AtLoop, Finish, Listening
<1>27. CASE ResumeTransfer /\ UNCHANGED readVars
  BY <1>27, <1>t, <1>b, <1>c DEF ResumeTransfer, Receive, AtLoop, Finish, Owed, Listening, One, ResumeBound
<1>28. CASE StaleControl /\ UNCHANGED readVars
  BY <1>28, <1>t, <1>d DEF StaleControl, Receive, AtLoop, Listening
<1>29. CASE CurlDone("error") /\ UNCHANGED readVars
  BY <1>29, <1>t, <1>d DEF CurlDone, AtLoop, Finish, Listening
<1>30. CASE Normalize /\ UNCHANGED readVars
  BY <1>30, <1>t, <1>d DEF Normalize, Normalized, Listening
<1>31. CASE SetResult /\ UNCHANGED readVars
  BY <1>31, <1>t, <1>d DEF SetResult, Listening
<1>32. CASE CompleteTransfer /\ UNCHANGED readVars
  BY <1>32, <1>t, <1>d DEF CompleteTransfer, CompleteStream, FirstCode, Detach, Listening
<1>33. CASE CompleteFire /\ UNCHANGED readVars
  BY <1>33, <1>t, <1>d DEF CompleteFire, Fire, Listening
<1>34. CASE WakeResult /\ UNCHANGED readVars
  BY <1>34, <1>t, <1>d DEF WakeResult, Listening
<1>35. CASE Drain /\ UNCHANGED readVars
  BY <1>35, <1>t, <1>d DEF Drain, DrainFails, Listening
<1>36. CASE \E c \in {"aborted", "error"} : Shutdown(c) /\ UNCHANGED readVars
  BY <1>36, <1>t, <1>d DEF Shutdown, AtLoop, Finish, Listening
<1>37. CASE \E p \in {User} \cup Closers : LocalComplete(p) /\ UNCHANGED readVars
  <2>1. /\ pc'[User] = pc[User] \/ pc'[User] = "localFire"
        /\ paused' = FALSE /\ spurious' = spurious /\ chan' = chan
    BY <1>37, <1>t DEF LocalComplete, CompleteStream
  <2>2. Listening' => Listening
    BY <1>37, <1>t DEF LocalComplete, Listening
  <2>q. QED
    BY <1>d, <2>1, <2>2
<1>38. CASE \E p \in {User} \cup Closers : LocalFire(p) /\ UNCHANGED readVars
  BY <1>38, <1>t, <1>d DEF LocalFire, Fire, Listening
<1>39. CASE \E c \in Closers : StartClose(c) /\ UNCHANGED readVars
  BY <1>39, <1>t, <1>d DEF StartClose, Listening
<1>40. CASE \E c \in Closers : CloseStream(c) /\ UNCHANGED readVars
  <2>1. /\ pc'[User] = pc[User]
        /\ paused' = FALSE /\ spurious' = spurious /\ chan' = chan
    BY <1>40, <1>t DEF CloseStream
  <2>2. Listening' => Listening
    BY <1>40, <1>t DEF CloseStream, Listening
  <2>q. QED
    BY <1>d, <2>1, <2>2
<1>41. CASE \E c \in Closers : CloseFire(c) /\ UNCHANGED readVars
  BY <1>41, <1>t, <1>d DEF CloseFire, Fire, Listening
<1>42. CASE \E c \in Closers : EnqueueCancelOk(c) /\ UNCHANGED readVars
  BY <1>42, <1>t, <1>d DEF EnqueueCancelOk, Listening
<1>43. CASE \E c \in Closers : EnqueueCancelFail(c) /\ UNCHANGED readVars
  BY <1>43, <1>t, <1>d DEF EnqueueCancelFail, Listening
<1>44. CASE \E c \in Closers : UndoCancel(c) /\ UNCHANGED readVars
  BY <1>44, <1>t, <1>d DEF UndoCancel, CancelUndone, Listening
<1>45. CASE \E c \in Closers : AwaitDone(c) /\ UNCHANGED readVars
  BY <1>45, <1>t, <1>d DEF AwaitDone, Listening
<1>46. CASE \E c \in Closers : RetryClose(c) /\ UNCHANGED readVars
  BY <1>46, <1>t, <1>d DEF RetryClose, Listening
<1>47. CASE UNCHANGED vars
  BY <1>47, <1>t, <1>d DEF Listening
<1> HIDE DEF vars, sharedVars, streamVars, chanVars, curlVars, threadVars, readVars, Goto
<1>q. QED
  BY <1>1, <1>2, <1>3, <1>4, <1>5, <1>6, <1>7, <1>8, <1>9, <1>10, <1>11,
     <1>12, <1>13, <1>14, <1>15, <1>16, <1>17, <1>18, <1>19, <1>20, <1>21,
     <1>22, <1>23, <1>24, <1>25, <1>26, <1>27, <1>28, <1>29, <1>30, <1>31,
     <1>32, <1>33, <1>34, <1>35, <1>36, <1>37, <1>38, <1>39, <1>40, <1>41,
     <1>42, <1>43, <1>44, <1>45, <1>46, <1>47
  DEF Next, ReaderStep, CloseStep, CloserStep, ReactorStep, FinishStep,
      Deliver, Environment

(* The closers send at most one CANCEL, however often they retry. *)
LEMMA CancelBoundStep == TypeOK /\ CancelBound /\ [Next]_vars => CancelBound'
<1> SUFFICES ASSUME TypeOK, CancelBound, [Next]_vars PROVE CancelBound'
  OBVIOUS
<1>t. /\ pc \in [Procs -> UserPcs \cup CloserPcs \cup ReactorPcs]
      /\ Reactor \in Procs /\ User \in Procs /\ Closers \subseteq Procs
      /\ Reactor # User /\ Reactor \notin Closers /\ User \notin Closers
  BY StreamAssumption DEF TypeOK, ThreadType, Procs
<1>b. /\ cancel_sent \in BOOLEAN /\ cancelled \in BOOLEAN /\ terminal_set \in BOOLEAN
      /\ One(cancelled) \in Nat
  BY DEF TypeOK, StreamType, ChanType, One
<1>c. /\ Count("CANCEL") \in Nat
      /\ chan' = chan => Count("CANCEL")' = Count("CANCEL")
      /\ chan' = Append(chan, "RESUME") => Count("CANCEL")' = Count("CANCEL")
      /\ chan' = Append(chan, "CANCEL") => Count("CANCEL")' = Count("CANCEL") + 1
      /\ chan # <<>> /\ chan' = Tail(chan) =>
           /\ Count("CANCEL")' <= Count("CANCEL") /\ Count("CANCEL")' \in Nat
           /\ Head(chan) = "CANCEL" => Count("CANCEL")' = Count("CANCEL") - 1
  <2>1. {"RESUME", "CANCEL"} \subseteq Msgs
    BY DEF Msgs
  <2>2. /\ Count("CANCEL") \in Nat
        /\ chan' = chan => Count("CANCEL")' = Count("CANCEL")
        /\ \A e \in Msgs : chan' = Append(chan, e) => Count("CANCEL")' = Count("CANCEL") + One(e = "CANCEL")
        /\ chan # <<>> /\ chan' = Tail(chan)
             => Count("CANCEL")' = Count("CANCEL") - One(Head(chan) = "CANCEL")
    BY <2>1, CountFacts
  <2>3. chan # <<>> /\ chan' = Tail(chan) => Count("CANCEL")' \in Nat
    <3> SUFFICES ASSUME chan # <<>>, chan' = Tail(chan) PROVE Count("CANCEL")' \in Nat
      OBVIOUS
    <3>1. chan' \in Seq(Msgs)
      BY DEF TypeOK, ChanType
    <3>2. Cardinality(Places(chan', "CANCEL")) \in Nat
      BY <3>1, PlacesFacts
    <3>q. QED
      BY <3>2 DEF Count, Places
  <2>q. QED
    BY <2>1, <2>2, <2>3 DEF One
<1>d. ASSUME \A c \in Closers : Cancelling(c)' => Cancelling(c),
             cancel_sent' = cancel_sent, cancelled' = cancelled,
             chan' = chan \/ chan' = Append(chan, "RESUME") \/ (chan # <<>> /\ chan' = Tail(chan))
      PROVE  CancelBound'
  <2>1. Count("CANCEL")' <= Count("CANCEL") /\ Count("CANCEL")' \in Nat
    BY <1>c, <1>d
  <2>q. QED
    BY <1>b, <1>c, <1>d, <2>1 DEF CancelBound
<1> USE DEF vars, sharedVars, streamVars, chanVars, curlVars, threadVars, readVars, Goto
<1>1. CASE StartRead
  BY <1>1, <1>t, <1>d DEF StartRead, Cancelling
<1>2. CASE TryRead
  BY <1>2, <1>t, <1>d DEF TryRead, ChunkFirst, ResumeAfter, Cancelling
<1>3. CASE ReadResumed
  BY <1>3, <1>t, <1>d DEF ReadResumed, PauseKept, Cancelling
<1>4. CASE WaitRead
  BY <1>4, <1>t, <1>d DEF WaitRead, ReadReady, Register, Cancelling
<1>5. CASE FinishRead
  BY <1>5, <1>t, <1>d DEF FinishRead, Cancelling
<1>6. CASE InterruptDelay
  BY <1>6, <1>t, <1>d DEF InterruptDelay, Cancelling
<1>7. CASE InterruptFinish
  BY <1>7, <1>t, <1>d DEF InterruptFinish, Cancelling
<1>8. CASE AcceptChunk
  BY <1>8, <1>t, <1>d DEF AcceptChunk, Arrives, AtLoop, Open, HasSpace, Detach, Cancelling
<1>9. CASE RefuseChunk
  BY <1>9, <1>t, <1>d DEF RefuseChunk, Arrives, AtLoop, Open, HasSpace, RefusedAgain, Cancelling
<1>10. CASE RejectChunk
  BY <1>10, <1>t, <1>d DEF RejectChunk, Arrives, AtLoop, Finish, Cancelling
<1>11. CASE CallbackFire
  BY <1>11, <1>t, <1>d DEF CallbackFire, Fire, Cancelling
<1>12. CASE CallbackPause
  BY <1>12, <1>t, <1>d DEF CallbackPause, Finish, Cancelling
<1>13. CASE BodyDone
  BY <1>13, <1>t, <1>d DEF BodyDone, CurlDone, AtLoop, Finish, Cancelling
<1>14. CASE FlushResume /\ UNCHANGED readVars
  BY <1>14, <1>t, <1>d DEF FlushResume, NeedsResume, Cancelling
<1>15. CASE EnqueueResumeOk /\ UNCHANGED readVars
  BY <1>15, <1>t, <1>d DEF EnqueueResumeOk, Cancelling
<1>16. CASE EnqueueResumeFail /\ UNCHANGED readVars
  BY <1>16, <1>t, <1>d DEF EnqueueResumeFail, ResumeFailed, Cancelling
<1>17. CASE RestorePaused /\ UNCHANGED readVars
  BY <1>17, <1>t, <1>d DEF RestorePaused, OwedAgain, Cancelling
<1>18. CASE FlushRetry /\ UNCHANGED readVars
  BY <1>18, <1>t, <1>d DEF FlushRetry, Cancelling
<1>19. CASE Woken /\ UNCHANGED readVars
  BY <1>19, <1>t, <1>d DEF Woken, Cancelling
<1>20. CASE InterruptWait /\ UNCHANGED readVars
  BY <1>20, <1>t, <1>d DEF InterruptWait, Cancelling
<1>21. CASE Unregister /\ UNCHANGED readVars
  BY <1>21, <1>t, <1>d DEF Unregister, StillRegistered, Cancelling
<1>22. CASE RequestCancel /\ UNCHANGED readVars
  BY <1>22, <1>t, <1>b, <1>c DEF RequestCancel, Cancelling, One, CancelBound
<1>23. CASE ResumeRequest /\ UNCHANGED readVars
  BY <1>23, <1>t, <1>d DEF ResumeRequest, Cancelling
<1>24. CASE ExecuteOk /\ UNCHANGED readVars
  BY <1>24, <1>t, <1>d DEF ExecuteOk, Receive, AtLoop, Cancelling
<1>25. CASE ExecuteFail /\ UNCHANGED readVars
  BY <1>25, <1>t, <1>d DEF ExecuteFail, Receive, AtLoop, Cancelling
<1>26. CASE CancelTransfer /\ UNCHANGED readVars
  BY <1>26, <1>t, <1>d DEF CancelTransfer, Receive, AtLoop, Finish, Cancelling
<1>27. CASE ResumeTransfer /\ UNCHANGED readVars
  BY <1>27, <1>t, <1>d DEF ResumeTransfer, Receive, AtLoop, Finish, Cancelling
<1>28. CASE StaleControl /\ UNCHANGED readVars
  BY <1>28, <1>t, <1>d DEF StaleControl, Receive, AtLoop, Cancelling
<1>29. CASE CurlDone("error") /\ UNCHANGED readVars
  BY <1>29, <1>t, <1>d DEF CurlDone, AtLoop, Finish, Cancelling
<1>30. CASE Normalize /\ UNCHANGED readVars
  BY <1>30, <1>t, <1>d DEF Normalize, Normalized, Cancelling
<1>31. CASE SetResult /\ UNCHANGED readVars
  BY <1>31, <1>t, <1>d DEF SetResult, Cancelling
<1>32. CASE CompleteTransfer /\ UNCHANGED readVars
  BY <1>32, <1>t, <1>d DEF CompleteTransfer, CompleteStream, FirstCode, Detach, Cancelling
<1>33. CASE CompleteFire /\ UNCHANGED readVars
  BY <1>33, <1>t, <1>d DEF CompleteFire, Fire, Cancelling
<1>34. CASE WakeResult /\ UNCHANGED readVars
  BY <1>34, <1>t, <1>d DEF WakeResult, Cancelling
<1>35. CASE Drain /\ UNCHANGED readVars
  BY <1>35, <1>t, <1>d DEF Drain, DrainFails, Cancelling
<1>36. CASE \E c \in {"aborted", "error"} : Shutdown(c) /\ UNCHANGED readVars
  BY <1>36, <1>t, <1>d DEF Shutdown, AtLoop, Finish, Cancelling
<1>37. CASE \E p \in {User} \cup Closers : LocalComplete(p) /\ UNCHANGED readVars
  BY <1>37, <1>t, <1>d DEF LocalComplete, CompleteStream, FirstCode, Detach, Cancelling
<1>38. CASE \E p \in {User} \cup Closers : LocalFire(p) /\ UNCHANGED readVars
  BY <1>38, <1>t, <1>d DEF LocalFire, Fire, Cancelling
<1>39. CASE \E c \in Closers : StartClose(c) /\ UNCHANGED readVars
  BY <1>39, <1>t, <1>d DEF StartClose, Cancelling
<1>40. CASE \E c \in Closers : CloseStream(c) /\ UNCHANGED readVars
  <2>0. PICK c \in Closers : CloseStream(c)
    BY <1>40
  <2>1. chan' = chan /\ cancelled' = cancelled /\ pc[c] = "close" /\ ~Cancelling(c)
    BY <2>0 DEF CloseStream, Cancelling
  <2>2. CASE ~NeedsCancel
    <3>1. pc' = [pc EXCEPT ![c] = "fireOk"] /\ (cancel_sent' <=> cancel_sent)
      BY <2>0, <2>2 DEF CloseStream
    <3>2. \A e \in Closers : Cancelling(e)' => Cancelling(e)
      BY <1>t, <3>1 DEF Cancelling
    <3>q. QED
      BY <1>b, <1>c, <2>1, <3>1, <3>2 DEF CancelBound
  <2>3. CASE NeedsCancel
    <3>1. pc' = [pc EXCEPT ![c] = "fireCancel"] /\ cancel_sent' /\ ~cancel_sent
      BY <2>0, <2>3 DEF CloseStream, NeedsCancel
    <3>2. \A e \in Closers : ~Cancelling(e)
      BY <3>1 DEF CancelBound
    <3>3. \A e \in Closers : Cancelling(e)' => e = c
      BY <1>t, <3>1, <3>2 DEF Cancelling
    <3>q. QED
      BY <1>b, <1>c, <2>1, <3>1, <3>3 DEF CancelBound
  <2>q. QED
    BY <2>2, <2>3
<1>41. CASE \E c \in Closers : CloseFire(c) /\ UNCHANGED readVars
  BY <1>41, <1>t, <1>d DEF CloseFire, Fire, Cancelling
<1>42. CASE \E c \in Closers : EnqueueCancelOk(c) /\ UNCHANGED readVars
  BY <1>42, <1>t, <1>b, <1>c DEF EnqueueCancelOk, Cancelling, One, CancelBound
<1>43. CASE \E c \in Closers : EnqueueCancelFail(c) /\ UNCHANGED readVars
  BY <1>43, <1>t, <1>d DEF EnqueueCancelFail, Cancelling
<1>44. CASE \E c \in Closers : UndoCancel(c) /\ UNCHANGED readVars
  BY <1>44, <1>t, <1>b, <1>c DEF UndoCancel, CancelUndone, Cancelling, One, CancelBound
<1>45. CASE \E c \in Closers : AwaitDone(c) /\ UNCHANGED readVars
  BY <1>45, <1>t, <1>d DEF AwaitDone, Cancelling
<1>46. CASE \E c \in Closers : RetryClose(c) /\ UNCHANGED readVars
  BY <1>46, <1>t, <1>d DEF RetryClose, Cancelling
<1>47. CASE UNCHANGED vars
  BY <1>47, <1>t, <1>d DEF Cancelling
<1> HIDE DEF vars, sharedVars, streamVars, chanVars, curlVars, threadVars, readVars, Goto
<1>q. QED
  BY <1>1, <1>2, <1>3, <1>4, <1>5, <1>6, <1>7, <1>8, <1>9, <1>10, <1>11,
     <1>12, <1>13, <1>14, <1>15, <1>16, <1>17, <1>18, <1>19, <1>20, <1>21,
     <1>22, <1>23, <1>24, <1>25, <1>26, <1>27, <1>28, <1>29, <1>30, <1>31,
     <1>32, <1>33, <1>34, <1>35, <1>36, <1>37, <1>38, <1>39, <1>40, <1>41,
     <1>42, <1>43, <1>44, <1>45, <1>46, <1>47
  DEF Next, ReaderStep, CloseStep, CloserStep, ReactorStep, FinishStep,
      Deliver, Environment

(* One transfer takes a bounded part of the agent's queue: flush_resume     *)
(* does not repeat a RESUME that is on its way and hcurl_stream_close no    *)
(* CANCEL that was accepted, for any number of closers and retries.         *)
THEOREM ControlStaysBounded == Spec => []BoundedControl
<1>1. Init => ResumeBound /\ CancelBound
  <2> SUFFICES ASSUME Init PROVE ResumeBound /\ CancelBound
    OBVIOUS
  <2>1. /\ chan = <<"EXECUTE">> /\ ~paused /\ ~spurious /\ ~cancelled /\ ~cancel_sent
        /\ pc = [p \in Procs |-> IF p = Reactor THEN "loop" ELSE "idle"]
        /\ User \in Procs /\ Closers \subseteq Procs /\ Reactor # User /\ Reactor \notin Closers
    BY StreamAssumption DEF Init, StreamInit, Procs
  <2>2. Places(chan, "RESUME") = {} /\ Places(chan, "CANCEL") = {}
    BY <2>1 DEF Places
  <2>3. Count("RESUME") = 0 /\ Count("CANCEL") = 0
    BY <2>2, FS_EmptySet DEF Count, Places
  <2>q. QED
    BY <2>1, <2>3 DEF ResumeBound, CancelBound, Owed, Listening, Cancelling, One
<1>2. IInv /\ ResumeBound /\ CancelBound /\ [Next]_vars => (ResumeBound /\ CancelBound)'
  BY ResumeBoundStep, CancelBoundStep DEF IInv
<1>3. Spec => [](ResumeBound /\ CancelBound)
  BY <1>1, <1>2, StreamInvariant, PTL DEF Spec
<1>4. IInv /\ ResumeBound /\ CancelBound => BoundedControl
  <2> SUFFICES ASSUME IInv, ResumeBound, CancelBound PROVE BoundedControl
    OBVIOUS
  <2>1. TypeOK /\ Msgs = {"EXECUTE", "RESUME", "CANCEL"}
    BY DEF IInv, Msgs
  <2>2. /\ Count("EXECUTE") \in Nat /\ Count("RESUME") \in Nat /\ Count("CANCEL") \in Nat
    BY <2>1, CountFacts
  <2>3. Count("EXECUTE") <= 1
    <3>1. Places(chan, "EXECUTE") \subseteq {1}
      BY DEF IInv, ReactorInv, Places
    <3>2. IsFiniteSet({1}) /\ Cardinality({1}) = 1
      BY FS_Singleton
    <3>3. Cardinality(Places(chan, "EXECUTE")) <= 1
      BY <3>1, <3>2, FS_Subset
    <3>q. QED
      BY <3>3 DEF Count, Places
  <2>4. Count("RESUME") <= 1 + One(spurious) /\ Count("CANCEL") <= 1 + One(cancelled)
    <3>1. Owed <= 1 + One(spurious) /\ Count("CANCEL") <= 1 + One(cancelled)
      BY DEF ResumeBound, CancelBound
    <3>q. QED
      BY <2>2, <3>1 DEF Owed, One
  <2>q. QED
    BY <2>3, <2>4 DEF BoundedControl, One
<1>q. QED
  BY <1>3, <1>4, StreamInvariant, PTL
=============================================================================
