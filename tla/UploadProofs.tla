---------------------------- MODULE UploadProofs ----------------------------
(***************************************************************************)
(* Proofs about UploadStream, for every ring, number of chunks, chunk      *)
(* length, set of closers and set of tokens: what reaches the wire is what *)
(* feedBody accepted, and a writer is never left asleep beside free space. *)
(***************************************************************************)
EXTENDS UploadStream, SequenceTheorems, TLAPS

WriteType ==
  /\ op \in {"feed", "end"} /\ accepted \in 0..MaxChunks
  /\ retried \in BOOLEAN /\ outcome \in Outcomes /\ finished \in BOOLEAN
  /\ offset \in 0..(ChunkLen - 1) /\ eofSent \in BOOLEAN
  /\ wire \in Seq(1..(MaxChunks * ChunkLen))

(* A feedBody that has not stored its chunk yet is one of the program's. *)
FeedInv ==
  pc[User] \in {"try", "wait", "blocked"} /\ op = "feed" => accepted < MaxChunks

(* The wire and the ring are the accepted units, in order, split where      *)
(* libcurl has got to; a chunk is only begun while it is in the ring.       *)
WireInv ==
  /\ \A i \in 1..Len(wire) : wire[i] = i
  /\ ~closed => /\ Len(wire) = (accepted - Len(ring)) * ChunkLen + offset
                /\ Len(ring) <= accepted
                /\ \A i \in 1..Len(ring) : ring[i] = accepted - Len(ring) + i
                /\ ring = <<>> => offset = 0
  /\ eofSent => finished /\ Len(wire) = accepted * ChunkLen

IInv == TypeOK /\ FeedInv /\ WireInv

SharedType ==
  StreamType(1..MaxChunks) /\ ChanType /\ CurlType /\ ThreadType(ReactorPcs)

-----------------------------------------------------------------------------
(* What the queue and the ring give and take keeps their types. *)
LEMMA SequenceFacts ==
  ASSUME TypeOK
  PROVE  /\ chan # <<>> => Head(chan) \in Msgs /\ Tail(chan) \in Seq(Msgs)
         /\ \A m \in Msgs : Append(chan, m) \in Seq(Msgs)
         /\ ring # <<>> => /\ Head(ring) \in 1..MaxChunks
                           /\ Tail(ring) \in Seq(1..MaxChunks)
                           /\ Len(Tail(ring)) = Len(ring) - 1
         /\ \A e \in 1..MaxChunks : /\ Append(ring, e) \in Seq(1..MaxChunks)
                                    /\ Len(Append(ring, e)) = Len(ring) + 1
         /\ Len(ring) \in Nat /\ Len(wire) \in Nat /\ Capacity \in Nat
         /\ (Len(ring) = 0 <=> ring = <<>>)
<1>1. chan \in Seq(Msgs) /\ ring \in Seq(1..MaxChunks)
      /\ wire \in Seq(1..(MaxChunks * ChunkLen))
  BY DEF TypeOK, StreamType, ChanType
<1>2. /\ chan # <<>> => Head(chan) \in Msgs /\ Tail(chan) \in Seq(Msgs)
      /\ \A m \in Msgs : Append(chan, m) \in Seq(Msgs)
  BY <1>1, HeadTailProperties, AppendProperties
<1>3. ring # <<>> => /\ Head(ring) \in 1..MaxChunks
                     /\ Tail(ring) \in Seq(1..MaxChunks)
                     /\ Len(Tail(ring)) = Len(ring) - 1
  BY <1>1, HeadTailProperties
<1>4. \A e \in 1..MaxChunks : /\ Append(ring, e) \in Seq(1..MaxChunks)
                             /\ Len(Append(ring, e)) = Len(ring) + 1
  BY <1>1, AppendProperties
<1>5. /\ Len(ring) \in Nat /\ Len(wire) \in Nat /\ Capacity \in Nat
      /\ (Len(ring) = 0 <=> ring = <<>>)
  BY <1>1, EmptySeq, LenProperties, StreamAssumption
<1>q. QED
  BY <1>2, <1>3, <1>4, <1>5

(* Every step of every thread keeps the types and the ring within its       *)
(* capacity.                                                                *)
LEMMA SharedTypeStep == TypeOK /\ FeedInv /\ [Next]_vars => SharedType'
<1> SUFFICES ASSUME TypeOK, FeedInv, [Next]_vars PROVE SharedType'
  OBVIOUS
<1>s. /\ chan # <<>> => Head(chan) \in Msgs /\ Tail(chan) \in Seq(Msgs)
      /\ \A m \in Msgs : Append(chan, m) \in Seq(Msgs)
      /\ ring # <<>> => Tail(ring) \in Seq(1..MaxChunks) /\ Len(Tail(ring)) = Len(ring) - 1
      /\ \A e \in 1..MaxChunks : /\ Append(ring, e) \in Seq(1..MaxChunks)
                                 /\ Len(Append(ring, e)) = Len(ring) + 1
      /\ Len(ring) \in Nat /\ Capacity \in Nat
      /\ <<>> \in Seq(1..MaxChunks) /\ Len(<<>>) = 0
  BY SequenceFacts, EmptySeq
<1> USE StreamAssumption, UploadAssumption
    DEF TypeOK, SharedType, StreamType, ChanType, CurlType, ThreadType,
        Goto, Procs, Codes, Msgs, OptToken, UserPcs, CloserPcs, ReactorPcs,
        vars, sharedVars, streamVars, chanVars, curlVars, threadVars,
        writeVars
<1>1. CASE StartWrite
  BY <1>1, <1>s DEF StartWrite
<1>2. CASE WriteRefused
  BY <1>2, <1>s DEF WriteRefused, Return, OverOutcome
<1>3. CASE WriteWouldBlock
  BY <1>3, <1>s DEF WriteWouldBlock
<1>4. CASE AcceptWrite
  <2>1. StreamType(1..MaxChunks)'
    <3>1. accepted + 1 \in 1..MaxChunks
      BY <1>4 DEF AcceptWrite, FeedInv
    <3>2. ring' = Append(ring, accepted + 1) /\ Len(ring) < Capacity
          /\ UNCHANGED <<paused, closed, terminal_set, terminal_code, cancel_sent, waiter>>
      BY <1>4 DEF AcceptWrite, HasSpace
    <3>q. QED
      BY <3>1, <3>2, <1>s
  <2>2. ChanType'
    BY <1>4, <1>s DEF AcceptWrite, HasSpace, ResumeAfter
  <2>3. CurlType'
    BY <1>4, <1>s DEF AcceptWrite, HasSpace, ResumeAfter
  <2>4. ThreadType(ReactorPcs)'
    BY <1>4, <1>s DEF AcceptWrite, HasSpace, ResumeAfter
  <2>q. QED
    BY <2>1, <2>2, <2>3, <2>4
<1>5. CASE FinishUpload
  BY <1>5, <1>s DEF FinishUpload, ResumeAfter
<1>6. CASE WriteControlPending
  BY <1>6, <1>s DEF WriteControlPending, RestorePaused, OwedAgain
<1>7. CASE WriteResumed
  <2>1. StreamType(1..MaxChunks)'
    BY <1>7, <1>s DEF WriteResumed, Return
  <2>2. ChanType'
    BY <1>7, <1>s DEF WriteResumed, Return
  <2>3. CurlType'
    BY <1>7, <1>s DEF WriteResumed, Return
  <2>4. ThreadType(ReactorPcs)'
    <3>1. UNCHANGED <<wake, token, owner>>
          /\ \E l \in {"try", "idle"} : pc' = [pc EXCEPT ![User] = l]
      BY <1>7 DEF WriteResumed, Return
    <3>q. QED
      BY <3>1
  <2>q. QED
    BY <2>1, <2>2, <2>3, <2>4
<1>8. CASE WaitWrite
  <2>1. StreamType(1..MaxChunks)'
    BY <1>8, <1>s DEF WaitWrite, WriteReady, HasSpace, Register, Return
  <2>2. ChanType'
    BY <1>8, <1>s DEF WaitWrite, WriteReady, HasSpace, Register, Return
  <2>3. CurlType'
    BY <1>8, <1>s DEF WaitWrite, WriteReady, HasSpace, Register, Return
  <2>4. ThreadType(ReactorPcs)'
    <3>1. CASE WriteReady \/ waiter # NoToken
      <4>1. UNCHANGED <<wake, token, owner>>
            /\ \E l \in {"try", "idle"} : pc' = [pc EXCEPT ![User] = l]
        BY <1>8, <3>1 DEF WaitWrite, Return
      <4>q. QED
        BY <4>1
    <3>2. CASE ~(WriteReady \/ waiter # NoToken)
      <4>1. /\ \E t \in Tokens : token' = t /\ owner' = [owner EXCEPT ![t] = "c"]
            /\ pc' = [pc EXCEPT ![User] = "blocked"] /\ UNCHANGED wake
        BY <1>8, <3>2 DEF WaitWrite, Register
      <4>q. QED
        BY <4>1
    <3>q. QED
      BY <3>1, <3>2
  <2>q. QED
    BY <2>1, <2>2, <2>3, <2>4
<1>9. CASE InterruptDelay
  BY <1>9, <1>s DEF InterruptDelay, Return
<1>10. CASE FlushResume /\ UNCHANGED writeVars
  BY <1>10, <1>s DEF FlushResume, NeedsResume
<1>11. CASE EnqueueResumeOk /\ UNCHANGED writeVars
  BY <1>11, <1>s DEF EnqueueResumeOk
<1>12. CASE EnqueueResumeFail /\ UNCHANGED writeVars
  BY <1>12, <1>s DEF EnqueueResumeFail, ResumeFailed
<1>13. CASE FlushRetry /\ UNCHANGED writeVars
  BY <1>13, <1>s DEF FlushRetry
<1>14. CASE LocalComplete(User) /\ UNCHANGED writeVars
  <2>1. StreamType(1..MaxChunks)'
    BY <1>14, <1>s DEF LocalComplete, CompleteStream, FirstCode, Detach
  <2>2. ChanType'
    BY <1>14, <1>s DEF LocalComplete, CompleteStream, FirstCode, Detach
  <2>3. CurlType'
    BY <1>14, <1>s DEF LocalComplete, CompleteStream, FirstCode, Detach
  <2>4. ThreadType(ReactorPcs)'
    BY <1>14, <1>s DEF LocalComplete, CompleteStream, FirstCode, Detach
  <2>q. QED
    BY <2>1, <2>2, <2>3, <2>4
<1>15. CASE LocalFire(User) /\ UNCHANGED writeVars
  BY <1>15, <1>s DEF LocalFire, Fire
<1>16. CASE Woken /\ UNCHANGED writeVars
  <2>1. StreamType(1..MaxChunks)'
    BY <1>16, <1>s DEF Woken
  <2>2. ChanType'
    BY <1>16, <1>s DEF Woken
  <2>3. CurlType'
    BY <1>16, <1>s DEF Woken
  <2>4. ThreadType(ReactorPcs)'
    BY <1>16, <1>s DEF Woken
  <2>q. QED
    BY <2>1, <2>2, <2>3, <2>4
<1>17. CASE InterruptWait /\ UNCHANGED writeVars
  BY <1>17, <1>s DEF InterruptWait
<1>18. CASE Unregister /\ UNCHANGED writeVars
  <2>1. StreamType(1..MaxChunks)'
    BY <1>18, <1>s DEF Unregister, StillRegistered
  <2>2. ChanType'
    BY <1>18, <1>s DEF Unregister, StillRegistered
  <2>3. CurlType'
    BY <1>18, <1>s DEF Unregister, StillRegistered
  <2>4. ThreadType(ReactorPcs)'
    BY <1>18, <1>s DEF Unregister, StillRegistered
  <2>q. QED
    BY <2>1, <2>2, <2>3, <2>4
<1>19. ASSUME NEW c \in Closers, StartClose(c) /\ UNCHANGED writeVars PROVE SharedType'
  BY <1>19, <1>s DEF StartClose
<1>20. ASSUME NEW c \in Closers, CloseStream(c) /\ UNCHANGED writeVars PROVE SharedType'
  <2>1. StreamType(1..MaxChunks)'
    <3>1. /\ ring' = <<>> /\ waiter' = NoToken
          /\ closed' = TRUE /\ paused' = FALSE
          /\ UNCHANGED <<terminal_set, terminal_code>>
      BY <1>20 DEF CloseStream, Detach
    <3>2. cancel_sent' \in BOOLEAN
      BY <1>20 DEF CloseStream
    <3>3. ring' \in Seq(1..MaxChunks) /\ Len(ring') <= Capacity
      BY <3>1, <1>s
    <3>q. QED
      BY <3>1, <3>2, <3>3
  <2>2. ChanType'
    BY <1>20, <1>s DEF CloseStream, Detach, NeedsCancel
  <2>3. CurlType'
    BY <1>20, <1>s DEF CloseStream, Detach, NeedsCancel
  <2>4. ThreadType(ReactorPcs)'
    BY <1>20, <1>s DEF CloseStream, Detach, NeedsCancel
  <2>q. QED
    BY <2>1, <2>2, <2>3, <2>4
<1>21. ASSUME NEW c \in Closers, CloseFire(c) /\ UNCHANGED writeVars PROVE SharedType'
  BY <1>21, <1>s DEF CloseFire, Fire
<1>22. ASSUME NEW c \in Closers, EnqueueCancelOk(c) /\ UNCHANGED writeVars PROVE SharedType'
  BY <1>22, <1>s DEF EnqueueCancelOk
<1>23. ASSUME NEW c \in Closers, EnqueueCancelFail(c) /\ UNCHANGED writeVars PROVE SharedType'
  BY <1>23, <1>s DEF EnqueueCancelFail
<1>24. ASSUME NEW c \in Closers, UndoCancel(c) /\ UNCHANGED writeVars PROVE SharedType'
  BY <1>24, <1>s DEF UndoCancel, CancelUndone
<1>25. ASSUME NEW c \in Closers, AwaitDone(c) /\ UNCHANGED writeVars PROVE SharedType'
  BY <1>25, <1>s DEF AwaitDone
<1>26. ASSUME NEW c \in Closers, RetryClose(c) /\ UNCHANGED writeVars PROVE SharedType'
  BY <1>26, <1>s DEF RetryClose
<1>27. ASSUME NEW c \in Closers, LocalComplete(c) /\ UNCHANGED writeVars PROVE SharedType'
  <2>1. StreamType(1..MaxChunks)'
    BY <1>27, <1>s DEF LocalComplete, CompleteStream, FirstCode, Detach
  <2>2. ChanType'
    BY <1>27, <1>s DEF LocalComplete, CompleteStream, FirstCode, Detach
  <2>3. CurlType'
    BY <1>27, <1>s DEF LocalComplete, CompleteStream, FirstCode, Detach
  <2>4. ThreadType(ReactorPcs)'
    BY <1>27, <1>s DEF LocalComplete, CompleteStream, FirstCode, Detach
  <2>q. QED
    BY <2>1, <2>2, <2>3, <2>4
<1>28. ASSUME NEW c \in Closers, LocalFire(c) /\ UNCHANGED writeVars PROVE SharedType'
  BY <1>28, <1>s DEF LocalFire, Fire
<1>29. CASE RequestCancel /\ UNCHANGED writeVars
  BY <1>29, <1>s DEF RequestCancel
<1>30. CASE ResumeRequest /\ UNCHANGED writeVars
  BY <1>30, <1>s DEF ResumeRequest
<1>31. CASE ExecuteOk /\ UNCHANGED writeVars
  BY <1>31, <1>s DEF ExecuteOk, Receive, AtLoop
<1>32. CASE ExecuteFail /\ UNCHANGED writeVars
  <2>1. StreamType(1..MaxChunks)'
    BY <1>32, <1>s DEF ExecuteFail, Receive, AtLoop
  <2>2. ChanType'
    BY <1>32, <1>s DEF ExecuteFail, Receive, AtLoop
  <2>3. CurlType'
    BY <1>32, <1>s DEF ExecuteFail, Receive, AtLoop
  <2>4. ThreadType(ReactorPcs)'
    BY <1>32, <1>s, SMTT(30) DEF ExecuteFail, Receive, AtLoop
  <2>q. QED
    BY <2>1, <2>2, <2>3, <2>4
<1>33. CASE CancelTransfer /\ UNCHANGED writeVars
  BY <1>33, <1>s DEF CancelTransfer, Finish, Receive, AtLoop
<1>34. CASE ResumeTransfer /\ UNCHANGED writeVars
  <2>1. StreamType(1..MaxChunks)'
    BY <1>34, <1>s DEF ResumeTransfer, Finish, Receive, AtLoop
  <2>2. ChanType'
    BY <1>34, <1>s DEF ResumeTransfer, Finish, Receive, AtLoop
  <2>3. CurlType'
    BY <1>34, <1>s DEF ResumeTransfer, Finish, Receive, AtLoop
  <2>4. ThreadType(ReactorPcs)'
    BY <1>34, <1>s DEF ResumeTransfer, Finish, Receive, AtLoop
  <2>q. QED
    BY <2>1, <2>2, <2>3, <2>4
<1>35. CASE StaleControl /\ UNCHANGED writeVars
  <2>1. StreamType(1..MaxChunks)'
    BY <1>35, <1>s DEF StaleControl, Receive, AtLoop
  <2>2. ChanType'
    BY <1>35, <1>s DEF StaleControl, Receive, AtLoop
  <2>3. CurlType'
    BY <1>35, <1>s DEF StaleControl, Receive, AtLoop
  <2>4. ThreadType(ReactorPcs)'
    BY <1>35, <1>s DEF StaleControl, Receive, AtLoop
  <2>q. QED
    BY <2>1, <2>2, <2>3, <2>4
<1>36. ASSUME NEW r \in {"ok", "error"}, CurlDone(r) /\ UNCHANGED writeVars PROVE SharedType'
  BY <1>36, <1>s DEF CurlDone, Finish, AtLoop
<1>37. CASE Normalize /\ UNCHANGED writeVars
  BY <1>37, <1>s DEF Normalize, Normalized
<1>38. CASE SetResult /\ UNCHANGED writeVars
  BY <1>38, <1>s DEF SetResult
<1>39. CASE CompleteTransfer /\ UNCHANGED writeVars
  <2>1. StreamType(1..MaxChunks)'
    BY <1>39, <1>s DEF CompleteTransfer, CompleteStream, FirstCode, Detach
  <2>2. ChanType'
    BY <1>39, <1>s DEF CompleteTransfer, CompleteStream, FirstCode, Detach
  <2>3. CurlType'
    BY <1>39, <1>s DEF CompleteTransfer, CompleteStream, FirstCode, Detach
  <2>4. ThreadType(ReactorPcs)'
    BY <1>39, <1>s DEF CompleteTransfer, CompleteStream, FirstCode, Detach
  <2>q. QED
    BY <2>1, <2>2, <2>3, <2>4
<1>40. CASE CompleteFire /\ UNCHANGED writeVars
  BY <1>40, <1>s DEF CompleteFire, Fire
<1>41. CASE WakeResult /\ UNCHANGED writeVars
  BY <1>41, <1>s DEF WakeResult
<1>42. ASSUME NEW r \in {"aborted", "error"}, Shutdown(r) /\ UNCHANGED
             writeVars PROVE SharedType'
  <2>1. StreamType(1..MaxChunks)'
    BY <1>42, <1>s DEF Shutdown, Finish, AtLoop
  <2>2. ChanType'
    BY <1>42, <1>s DEF Shutdown, Finish, AtLoop
  <2>3. CurlType'
    BY <1>42, <1>s DEF Shutdown, Finish, AtLoop
  <2>4. ThreadType(ReactorPcs)'
    <3>1. UNCHANGED <<wake, token, owner>>
          /\ \E l \in {"normalize", "drain"} : pc' = [pc EXCEPT ![Reactor] = l]
      BY <1>42 DEF Shutdown, Finish, AtLoop
    <3>q. QED
      BY <3>1
  <2>q. QED
    BY <2>1, <2>2, <2>3, <2>4
<1>43. CASE Drain /\ UNCHANGED writeVars
  <2>1. StreamType(1..MaxChunks)'
    BY <1>43, <1>s DEF Drain, DrainFails
  <2>2. ChanType'
    BY <1>43, <1>s DEF Drain, DrainFails
  <2>3. CurlType'
    BY <1>43, <1>s DEF Drain, DrainFails
  <2>4. ThreadType(ReactorPcs)'
    <3>1. /\ UNCHANGED <<wake, token, owner>>
          /\ \/ UNCHANGED pc
             \/ \E l \in {"stopped", "setResult"} : pc' = [pc EXCEPT ![Reactor] = l]
      BY <1>43 DEF Drain
    <3>2. CASE UNCHANGED pc
      BY <3>1, <3>2
    <3>3. ASSUME NEW l \in {"stopped", "setResult"}, pc' = [pc EXCEPT ![Reactor] = l]
          PROVE  ThreadType(ReactorPcs)'
      BY <3>1, <3>3
    <3>q. QED
      BY <3>1, <3>2, <3>3
  <2>q. QED
    BY <2>1, <2>2, <2>3, <2>4
<1>44. CASE ReadAbort
  BY <1>44, <1>s DEF ReadAbort, Asks, AtLoop, Finish
<1>45. CASE ReadEof
  BY <1>45, <1>s DEF ReadEof, Asks, AtLoop, Aborts, AtEnd
<1>46. CASE ReadPause
  BY <1>46, <1>s DEF ReadPause, Asks, AtLoop, Aborts
<1>47. ASSUME NEW n \in 1..(ChunkLen - offset), ReadCopy(n) PROVE SharedType'
  <2>1. StreamType(1..MaxChunks)'
    <3>1. /\ ring # <<>> /\ ring' \in {ring, Tail(ring)} /\ waiter' \in {waiter, NoToken}
          /\ UNCHANGED <<paused, closed, terminal_set, terminal_code, cancel_sent>>
      BY <1>47 DEF ReadCopy, WakeWriter, Detach
    <3>2. ring' \in Seq(1..MaxChunks) /\ Len(ring') <= Capacity
      <4>1. CASE ring' = ring
        BY <4>1
      <4>2. CASE ring' = Tail(ring)
        <5>1. ring' \in Seq(1..MaxChunks) /\ Len(ring') = Len(ring) - 1
          BY <3>1, <4>2, <1>s
        <5>2. Len(ring) \in Nat /\ Capacity \in Nat /\ Len(ring) <= Capacity
          BY <1>s
        <5>q. QED
          BY ONLY <5>1, <5>2
      <4>q. QED
        BY <3>1, <4>1, <4>2
    <3>q. QED
      BY <3>1, <3>2
  <2>2. ChanType'
    BY <1>47, <1>s DEF ReadCopy, Asks, AtLoop, Aborts, Popped, WakeWriter, HasSpace, Detach
  <2>3. CurlType'
    BY <1>47, <1>s DEF ReadCopy, Asks, AtLoop, Aborts, Popped, WakeWriter, HasSpace, Detach
  <2>4. ThreadType(ReactorPcs)'
    BY <1>47, <1>s DEF ReadCopy, Asks, AtLoop, Aborts, Popped, WakeWriter, HasSpace, Detach
  <2>q. QED
    BY <2>1, <2>2, <2>3, <2>4
<1>48. CASE CallbackFire
  BY <1>48, <1>s DEF CallbackFire, Fire
<1>u. CASE UNCHANGED vars
  BY <1>u
<1> HIDE DEF SharedType, TypeOK
<1>q. QED
  BY <1>1, <1>2, <1>3, <1>4, <1>5, <1>6, <1>7, <1>8, <1>9, <1>10, <1>11,
     <1>12, <1>13, <1>14, <1>15, <1>16, <1>17, <1>18, <1>19, <1>20, <1>21,
     <1>22, <1>23, <1>24, <1>25, <1>26, <1>27, <1>28, <1>29, <1>30, <1>31,
     <1>32, <1>33, <1>34, <1>35, <1>36, <1>37, <1>38, <1>39, <1>40, <1>41,
     <1>42, <1>43, <1>44, <1>45, <1>46, <1>47, <1>48, <1>u
  DEF Next, WriterStep, CloseStep, CloserStep, ReactorStep, FinishStep,
      Upload, ServerAnswers, Environment

-----------------------------------------------------------------------------
(* The writer *)

(* feedBody is entered with a chunk to store, and its loop around           *)
(* wait_write keeps it.                                                     *)
LEMMA FeedStep == TypeOK /\ FeedInv /\ [Next]_vars => FeedInv'
<1> SUFFICES ASSUME TypeOK, FeedInv, [Next]_vars PROVE FeedInv'
  OBVIOUS
<1> USE StreamAssumption, UploadAssumption
    DEF Goto, Procs, TypeOK, ThreadType, FeedInv, vars, sharedVars,
        streamVars, chanVars, curlVars, threadVars, writeVars
<1>1. CASE StartWrite
  BY <1>1 DEF StartWrite
<1>2. CASE WriteRefused
  BY <1>2 DEF WriteRefused, Return, OverOutcome
<1>3. CASE WriteWouldBlock
  BY <1>3 DEF WriteWouldBlock
<1>4. CASE AcceptWrite
  BY <1>4 DEF AcceptWrite, HasSpace, ResumeAfter
<1>5. CASE FinishUpload
  BY <1>5 DEF FinishUpload, ResumeAfter
<1>6. CASE WriteControlPending
  BY <1>6 DEF WriteControlPending, RestorePaused, OwedAgain
<1>7. CASE WriteResumed
  BY <1>7 DEF WriteResumed, Return
<1>8. CASE WaitWrite
  BY <1>8 DEF WaitWrite, WriteReady, HasSpace, Register, Return
<1>9. CASE InterruptDelay
  BY <1>9 DEF InterruptDelay, Return
<1>10. CASE FlushResume /\ UNCHANGED writeVars
  BY <1>10 DEF FlushResume, NeedsResume
<1>11. CASE EnqueueResumeOk /\ UNCHANGED writeVars
  BY <1>11 DEF EnqueueResumeOk
<1>12. CASE EnqueueResumeFail /\ UNCHANGED writeVars
  BY <1>12 DEF EnqueueResumeFail, ResumeFailed
<1>13. CASE FlushRetry /\ UNCHANGED writeVars
  BY <1>13 DEF FlushRetry
<1>14. CASE LocalComplete(User) /\ UNCHANGED writeVars
  BY <1>14 DEF LocalComplete, CompleteStream, FirstCode, Detach
<1>15. CASE LocalFire(User) /\ UNCHANGED writeVars
  BY <1>15 DEF LocalFire, Fire
<1>16. CASE Woken /\ UNCHANGED writeVars
  BY <1>16 DEF Woken
<1>17. CASE InterruptWait /\ UNCHANGED writeVars
  BY <1>17 DEF InterruptWait
<1>18. CASE Unregister /\ UNCHANGED writeVars
  BY <1>18 DEF Unregister, StillRegistered
<1>19. ASSUME NEW c \in Closers, StartClose(c) /\ UNCHANGED writeVars PROVE FeedInv'
  BY <1>19 DEF StartClose
<1>20. ASSUME NEW c \in Closers, CloseStream(c) /\ UNCHANGED writeVars PROVE FeedInv'
  BY <1>20 DEF CloseStream, Detach, NeedsCancel
<1>21. ASSUME NEW c \in Closers, CloseFire(c) /\ UNCHANGED writeVars PROVE FeedInv'
  BY <1>21 DEF CloseFire, Fire
<1>22. ASSUME NEW c \in Closers, EnqueueCancelOk(c) /\ UNCHANGED writeVars PROVE FeedInv'
  BY <1>22 DEF EnqueueCancelOk
<1>23. ASSUME NEW c \in Closers, EnqueueCancelFail(c) /\ UNCHANGED writeVars PROVE FeedInv'
  BY <1>23 DEF EnqueueCancelFail
<1>24. ASSUME NEW c \in Closers, UndoCancel(c) /\ UNCHANGED writeVars PROVE FeedInv'
  BY <1>24 DEF UndoCancel, CancelUndone
<1>25. ASSUME NEW c \in Closers, AwaitDone(c) /\ UNCHANGED writeVars PROVE FeedInv'
  BY <1>25 DEF AwaitDone
<1>26. ASSUME NEW c \in Closers, RetryClose(c) /\ UNCHANGED writeVars PROVE FeedInv'
  BY <1>26 DEF RetryClose
<1>27. ASSUME NEW c \in Closers, LocalComplete(c) /\ UNCHANGED writeVars PROVE FeedInv'
  BY <1>27 DEF LocalComplete, CompleteStream, FirstCode, Detach
<1>28. ASSUME NEW c \in Closers, LocalFire(c) /\ UNCHANGED writeVars PROVE FeedInv'
  BY <1>28 DEF LocalFire, Fire
<1>29. CASE RequestCancel /\ UNCHANGED writeVars
  BY <1>29 DEF RequestCancel
<1>30. CASE ResumeRequest /\ UNCHANGED writeVars
  BY <1>30 DEF ResumeRequest
<1>31. CASE ExecuteOk /\ UNCHANGED writeVars
  BY <1>31 DEF ExecuteOk, Receive, AtLoop
<1>32. CASE ExecuteFail /\ UNCHANGED writeVars
  BY <1>32 DEF ExecuteFail, Receive, AtLoop
<1>33. CASE CancelTransfer /\ UNCHANGED writeVars
  BY <1>33 DEF CancelTransfer, Finish, Receive, AtLoop
<1>34. CASE ResumeTransfer /\ UNCHANGED writeVars
  BY <1>34 DEF ResumeTransfer, Finish, Receive, AtLoop
<1>35. CASE StaleControl /\ UNCHANGED writeVars
  BY <1>35 DEF StaleControl, Receive, AtLoop
<1>36. ASSUME NEW r \in {"ok", "error"}, CurlDone(r) /\ UNCHANGED writeVars PROVE FeedInv'
  BY <1>36 DEF CurlDone, Finish, AtLoop
<1>37. CASE Normalize /\ UNCHANGED writeVars
  BY <1>37 DEF Normalize, Normalized
<1>38. CASE SetResult /\ UNCHANGED writeVars
  BY <1>38 DEF SetResult
<1>39. CASE CompleteTransfer /\ UNCHANGED writeVars
  BY <1>39 DEF CompleteTransfer, CompleteStream, FirstCode, Detach
<1>40. CASE CompleteFire /\ UNCHANGED writeVars
  BY <1>40 DEF CompleteFire, Fire
<1>41. CASE WakeResult /\ UNCHANGED writeVars
  BY <1>41 DEF WakeResult
<1>42. ASSUME NEW r \in {"aborted", "error"}, Shutdown(r) /\ UNCHANGED
             writeVars PROVE FeedInv'
  BY <1>42 DEF Shutdown, Finish, AtLoop
<1>43. CASE Drain /\ UNCHANGED writeVars
  BY <1>43 DEF Drain, DrainFails
<1>44. CASE ReadAbort
  BY <1>44 DEF ReadAbort, Asks, AtLoop, Finish
<1>45. CASE ReadEof
  BY <1>45 DEF ReadEof, Asks, AtLoop, Aborts, AtEnd
<1>46. CASE ReadPause
  BY <1>46 DEF ReadPause, Asks, AtLoop, Aborts
<1>47. ASSUME NEW n \in 1..(ChunkLen - offset), ReadCopy(n) PROVE FeedInv'
  BY <1>47 DEF ReadCopy, Asks, AtLoop, Aborts, Popped, WakeWriter, HasSpace, Detach
<1>48. CASE CallbackFire
  BY <1>48 DEF CallbackFire, Fire
<1>u. CASE UNCHANGED vars
  BY <1>u
<1> HIDE DEF TypeOK, FeedInv
<1>q. QED
  BY <1>1, <1>2, <1>3, <1>4, <1>5, <1>6, <1>7, <1>8, <1>9, <1>10, <1>11,
     <1>12, <1>13, <1>14, <1>15, <1>16, <1>17, <1>18, <1>19, <1>20, <1>21,
     <1>22, <1>23, <1>24, <1>25, <1>26, <1>27, <1>28, <1>29, <1>30, <1>31,
     <1>32, <1>33, <1>34, <1>35, <1>36, <1>37, <1>38, <1>39, <1>40, <1>41,
     <1>42, <1>43, <1>44, <1>45, <1>46, <1>47, <1>48, <1>u
  DEF Next, WriterStep, CloseStep, CloserStep, ReactorStep, FinishStep,
      Upload, ServerAnswers, Environment

(* A ring that stops being full, a close and a completion all detach the    *)
(* waiter, and a writer registers only on a full ring of an open stream.    *)
LEMMA WakeupStep == TypeOK /\ NoLostWakeup /\ [Next]_vars => NoLostWakeup'
<1> SUFFICES ASSUME TypeOK, NoLostWakeup, [Next]_vars PROVE NoLostWakeup'
  OBVIOUS
<1>s. /\ Len(ring) \in Nat /\ Capacity \in Nat /\ Len(ring) <= Capacity
      /\ waiter \in OptToken /\ (Len(ring) = 0 <=> ring = <<>>)
  BY SequenceFacts DEF TypeOK, StreamType
<1> USE StreamAssumption
    DEF NoLostWakeup, vars, sharedVars, streamVars, chanVars, curlVars,
        threadVars, writeVars
<1>1. CASE StartWrite
  BY <1>1 DEF StartWrite
<1>2. CASE WriteRefused
  BY <1>2 DEF WriteRefused, Return, OverOutcome
<1>3. CASE WriteWouldBlock
  BY <1>3 DEF WriteWouldBlock
<1>4. CASE AcceptWrite
  BY <1>4, <1>s DEF AcceptWrite, HasSpace, ResumeAfter
<1>5. CASE FinishUpload
  BY <1>5 DEF FinishUpload, ResumeAfter
<1>6. CASE WriteControlPending
  BY <1>6 DEF WriteControlPending, RestorePaused, OwedAgain
<1>7. CASE WriteResumed
  BY <1>7 DEF WriteResumed, Return
<1>8. CASE WaitWrite
  BY <1>8, <1>s DEF WaitWrite, WriteReady, HasSpace, Register, Return
<1>9. CASE InterruptDelay
  BY <1>9 DEF InterruptDelay, Return
<1>10. CASE FlushResume /\ UNCHANGED writeVars
  BY <1>10 DEF FlushResume, NeedsResume
<1>11. CASE EnqueueResumeOk /\ UNCHANGED writeVars
  BY <1>11 DEF EnqueueResumeOk
<1>12. CASE EnqueueResumeFail /\ UNCHANGED writeVars
  BY <1>12 DEF EnqueueResumeFail, ResumeFailed
<1>13. CASE FlushRetry /\ UNCHANGED writeVars
  BY <1>13 DEF FlushRetry
<1>14. CASE LocalComplete(User) /\ UNCHANGED writeVars
  BY <1>14 DEF LocalComplete, CompleteStream, FirstCode, Detach
<1>15. CASE LocalFire(User) /\ UNCHANGED writeVars
  BY <1>15 DEF LocalFire, Fire
<1>16. CASE Woken /\ UNCHANGED writeVars
  BY <1>16 DEF Woken
<1>17. CASE InterruptWait /\ UNCHANGED writeVars
  BY <1>17 DEF InterruptWait
<1>18. CASE Unregister /\ UNCHANGED writeVars
  BY <1>18 DEF Unregister, StillRegistered
<1>19. ASSUME NEW c \in Closers, StartClose(c) /\ UNCHANGED writeVars PROVE NoLostWakeup'
  BY <1>19 DEF StartClose
<1>20. ASSUME NEW c \in Closers, CloseStream(c) /\ UNCHANGED writeVars PROVE NoLostWakeup'
  BY <1>20, <1>s DEF CloseStream, Detach, NeedsCancel
<1>21. ASSUME NEW c \in Closers, CloseFire(c) /\ UNCHANGED writeVars PROVE NoLostWakeup'
  BY <1>21 DEF CloseFire, Fire
<1>22. ASSUME NEW c \in Closers, EnqueueCancelOk(c) /\ UNCHANGED writeVars PROVE NoLostWakeup'
  BY <1>22 DEF EnqueueCancelOk
<1>23. ASSUME NEW c \in Closers, EnqueueCancelFail(c) /\ UNCHANGED writeVars PROVE NoLostWakeup'
  BY <1>23 DEF EnqueueCancelFail
<1>24. ASSUME NEW c \in Closers, UndoCancel(c) /\ UNCHANGED writeVars PROVE NoLostWakeup'
  BY <1>24 DEF UndoCancel, CancelUndone
<1>25. ASSUME NEW c \in Closers, AwaitDone(c) /\ UNCHANGED writeVars PROVE NoLostWakeup'
  BY <1>25 DEF AwaitDone
<1>26. ASSUME NEW c \in Closers, RetryClose(c) /\ UNCHANGED writeVars PROVE NoLostWakeup'
  BY <1>26 DEF RetryClose
<1>27. ASSUME NEW c \in Closers, LocalComplete(c) /\ UNCHANGED writeVars PROVE NoLostWakeup'
  BY <1>27 DEF LocalComplete, CompleteStream, FirstCode, Detach
<1>28. ASSUME NEW c \in Closers, LocalFire(c) /\ UNCHANGED writeVars PROVE NoLostWakeup'
  BY <1>28 DEF LocalFire, Fire
<1>29. CASE RequestCancel /\ UNCHANGED writeVars
  BY <1>29 DEF RequestCancel
<1>30. CASE ResumeRequest /\ UNCHANGED writeVars
  BY <1>30 DEF ResumeRequest
<1>31. CASE ExecuteOk /\ UNCHANGED writeVars
  BY <1>31 DEF ExecuteOk, Receive, AtLoop
<1>32. CASE ExecuteFail /\ UNCHANGED writeVars
  BY <1>32 DEF ExecuteFail, Receive, AtLoop
<1>33. CASE CancelTransfer /\ UNCHANGED writeVars
  BY <1>33 DEF CancelTransfer, Finish, Receive, AtLoop
<1>34. CASE ResumeTransfer /\ UNCHANGED writeVars
  BY <1>34 DEF ResumeTransfer, Finish, Receive, AtLoop
<1>35. CASE StaleControl /\ UNCHANGED writeVars
  BY <1>35 DEF StaleControl, Receive, AtLoop
<1>36. ASSUME NEW r \in {"ok", "error"}, CurlDone(r) /\ UNCHANGED writeVars PROVE NoLostWakeup'
  BY <1>36 DEF CurlDone, Finish, AtLoop
<1>37. CASE Normalize /\ UNCHANGED writeVars
  BY <1>37 DEF Normalize, Normalized
<1>38. CASE SetResult /\ UNCHANGED writeVars
  BY <1>38 DEF SetResult
<1>39. CASE CompleteTransfer /\ UNCHANGED writeVars
  BY <1>39 DEF CompleteTransfer, CompleteStream, FirstCode, Detach
<1>40. CASE CompleteFire /\ UNCHANGED writeVars
  BY <1>40 DEF CompleteFire, Fire
<1>41. CASE WakeResult /\ UNCHANGED writeVars
  BY <1>41 DEF WakeResult
<1>42. ASSUME NEW r \in {"aborted", "error"}, Shutdown(r) /\ UNCHANGED
             writeVars PROVE NoLostWakeup'
  BY <1>42 DEF Shutdown, Finish, AtLoop
<1>43. CASE Drain /\ UNCHANGED writeVars
  BY <1>43 DEF Drain, DrainFails
<1>44. CASE ReadAbort
  BY <1>44 DEF ReadAbort, Asks, AtLoop, Finish
<1>45. CASE ReadEof
  BY <1>45 DEF ReadEof, Asks, AtLoop, Aborts, AtEnd
<1>46. CASE ReadPause
  BY <1>46 DEF ReadPause, Asks, AtLoop, Aborts
<1>47. ASSUME NEW n \in 1..(ChunkLen - offset), ReadCopy(n) PROVE NoLostWakeup'
  BY <1>47, <1>s DEF ReadCopy, Asks, AtLoop, Aborts, Popped, WakeWriter, HasSpace, Detach
<1>48. CASE CallbackFire
  BY <1>48 DEF CallbackFire, Fire
<1>u. CASE UNCHANGED vars
  BY <1>u
<1> HIDE DEF NoLostWakeup
<1>q. QED
  BY <1>1, <1>2, <1>3, <1>4, <1>5, <1>6, <1>7, <1>8, <1>9, <1>10, <1>11,
     <1>12, <1>13, <1>14, <1>15, <1>16, <1>17, <1>18, <1>19, <1>20, <1>21,
     <1>22, <1>23, <1>24, <1>25, <1>26, <1>27, <1>28, <1>29, <1>30, <1>31,
     <1>32, <1>33, <1>34, <1>35, <1>36, <1>37, <1>38, <1>39, <1>40, <1>41,
     <1>42, <1>43, <1>44, <1>45, <1>46, <1>47, <1>48, <1>u
  DEF Next, WriterStep, CloseStep, CloserStep, ReactorStep, FinishStep,
      Upload, ServerAnswers, Environment

-----------------------------------------------------------------------------
(* The wire *)

(* Units of whole chunks: what the arithmetic of offset and length uses. *)
LEMMA ChunkArithmetic ==
  ASSUME NEW a \in Nat, NEW b \in Nat, a <= b, NEW c \in Nat
  PROVE  /\ a * c \in Nat /\ (a + 1) * c = a * c + c
         /\ (b - a) * c + a * c = b * c
         /\ a * c <= b * c
<1>1. (b - a) * c \in Nat /\ a * c \in Nat
  OBVIOUS
<1>2. (b - a) * c + a * c = b * c
  OBVIOUS
<1>3. (a + 1) * c = a * c + c
  OBVIOUS
<1>q. QED
  BY <1>1, <1>2, <1>3

(* One call of the read callback: the n units it copies are the next ones   *)
(* of the body, and they belong to chunks that were accepted.               *)
LEMMA CopyEffect ==
  ASSUME TypeOK, WireInv, NEW n \in 1..(ChunkLen - offset), ReadCopy(n)
  PROVE  /\ Len(wire') = Len(wire) + n
         /\ \A i \in 1..Len(wire') : wire'[i] = i
         /\ wire' \in Seq(1..(MaxChunks * ChunkLen))
<1> DEFINE part == [i \in 1..n |-> Unit(Head(ring), offset + i)]
           max == MaxChunks * ChunkLen
           k == accepted - Len(ring)
<1>t. /\ accepted \in 0..MaxChunks /\ offset \in 0..(ChunkLen - 1)
      /\ ChunkLen \in Nat /\ MaxChunks \in Nat /\ n \in Nat
      /\ wire \in Seq(1..max) /\ Len(wire) \in Nat /\ Len(ring) \in Nat
  BY UploadAssumption, SequenceFacts DEF TypeOK
<1>1. /\ ring # <<>> /\ ~closed /\ wire' = wire \o part
      /\ ring \in Seq(1..MaxChunks)
  BY DEF ReadCopy, Aborts, TypeOK, StreamType
<1>2. 1 \in 1..Len(ring) /\ Head(ring) = ring[1]
  BY <1>1, HeadTailProperties, LenProperties
<1>3. /\ k \in Nat /\ Head(ring) = k + 1 /\ k + 1 <= accepted
      /\ Len(wire) = k * ChunkLen + offset
  BY <1>1, <1>2, <1>t DEF WireInv
<1>4. \A i \in 1..n : part[i] = Len(wire) + i
  <2> SUFFICES ASSUME NEW i \in 1..n
               PROVE  (Head(ring) - 1) * ChunkLen + (offset + i) = Len(wire) + i
    BY DEF Unit
  <2>1. Head(ring) - 1 = k
    BY <1>3
  <2> HIDE DEF k
  <2>2. k * ChunkLen \in Nat
    BY <1>3, <1>t
  <2>q. QED
    BY <1>3, <1>t, <2>1, <2>2
<1>5. Len(wire) + n <= max
  <2> HIDE DEF k
  <2>1. /\ (k + 1) * ChunkLen = k * ChunkLen + ChunkLen /\ k * ChunkLen \in Nat
        /\ (k + 1) * ChunkLen <= accepted * ChunkLen
    BY <1>3, <1>t, ChunkArithmetic
  <2>2. accepted * ChunkLen <= max
    BY <1>t, ChunkArithmetic
  <2>3. max \in Nat /\ accepted * ChunkLen \in Nat
    BY <1>t
  <2> DEFINE x == k * ChunkLen
             y == (k + 1) * ChunkLen
             z == accepted * ChunkLen
  <2>4. /\ y = x + ChunkLen /\ y <= z /\ z <= max /\ x \in Nat /\ z \in Nat /\ max \in Nat
        /\ Len(wire) = x + offset
    BY <1>3, <2>1, <2>2, <2>3
  <2> HIDE DEF max, x, y, z
  <2>q. QED
    BY <1>t, <2>4
<1>m. max \in Nat
  BY <1>t
<1>d. DOMAIN part = 1..n
  OBVIOUS
<1> HIDE DEF part, max, k
<1>6. part \in Seq(1..max) /\ Len(part) = n
  <2>1. part \in [1..n -> 1..max]
    <3>1. \A i \in 1..n : part[i] \in 1..max
      BY <1>4, <1>5, <1>t, <1>m
    <3>q. QED
      BY <3>1, <1>d DEF part
  <2>2. part \in Seq(1..max)
    BY <2>1, <1>t, SeqDef
  <2>q. QED
    BY <2>2, <1>d, <1>t, LenProperties
<1>7. /\ wire' \in Seq(1..max) /\ Len(wire') = Len(wire) + n
      /\ \A i \in 1..(Len(wire) + n) :
           wire'[i] = IF i <= Len(wire) THEN wire[i] ELSE part[i - Len(wire)]
  BY <1>1, <1>6, <1>t, ConcatProperties
<1>8. \A i \in 1..(Len(wire) + n) : wire'[i] = i
  <2> SUFFICES ASSUME NEW i \in 1..(Len(wire) + n) PROVE wire'[i] = i
    OBVIOUS
  <2>1. CASE i <= Len(wire)
    BY <2>1, <1>7, <1>t DEF WireInv
  <2>2. CASE i > Len(wire)
    <3>1. i - Len(wire) \in 1..n
      BY <2>2, <1>t
    <3>q. QED
      BY <2>2, <3>1, <1>4, <1>7, <1>t
  <2>q. QED
    BY <2>1, <2>2, <1>t
<1>q. QED
  BY <1>7, <1>8 DEF max

(* Accepted units reach the wire once and in order: a chunk leaves the ring *)
(* when its last unit was copied, and the end of the body is reported only  *)
(* behind the last accepted unit.                                           *)
LEMMA WireStep == TypeOK /\ WireInv /\ [Next]_vars => WireInv'
<1> SUFFICES ASSUME TypeOK, WireInv, [Next]_vars PROVE WireInv'
  OBVIOUS
<1> USE DEF vars, sharedVars, streamVars, chanVars, curlVars, threadVars,
        writeVars
<1>t. /\ accepted \in Nat /\ offset \in Nat /\ ChunkLen \in Nat /\ offset < ChunkLen
      /\ Len(ring) \in Nat /\ Len(wire) \in Nat /\ (Len(ring) = 0 <=> ring = <<>>)
  BY UploadAssumption, SequenceFacts DEF TypeOK
<1>f. ASSUME UNCHANGED <<ring, closed, accepted, offset, wire, finished, eofSent>>
      PROVE  WireInv'
  BY <1>f DEF WireInv
<1>1. CASE StartWrite
  BY <1>1, <1>f DEF StartWrite
<1>2. CASE WriteRefused
  BY <1>2, <1>f DEF WriteRefused, Return, OverOutcome
<1>3. CASE WriteWouldBlock
  BY <1>3, <1>f DEF WriteWouldBlock
<1>4. CASE AcceptWrite
  <2>1. /\ ring' = Append(ring, accepted + 1) /\ accepted' = accepted + 1
        /\ ~closed /\ ~finished /\ UNCHANGED <<closed, finished, offset, wire, eofSent>>
    BY <1>4 DEF AcceptWrite, Open
  <2>2. Len(ring') = Len(ring) + 1 /\ ring'[Len(ring) + 1] = accepted + 1
        /\ \A i \in 1..Len(ring) : ring'[i] = ring[i]
    BY <2>1, AppendProperties, LenProperties DEF TypeOK, StreamType
  <2>3. accepted' - Len(ring') = accepted - Len(ring)
    BY <2>1, <2>2, <1>t
  <2>4. Len(wire') = (accepted' - Len(ring')) * ChunkLen + offset'
    BY <2>1, <2>3 DEF WireInv
  <2>5. \A i \in 1..Len(ring') : ring'[i] = accepted' - Len(ring') + i
    <3> SUFFICES ASSUME NEW i \in 1..Len(ring')
                 PROVE  ring'[i] = accepted' - Len(ring') + i
      OBVIOUS
    <3>1. CASE i \in 1..Len(ring)
      BY <3>1, <2>1, <2>2, <2>3, <1>t DEF WireInv
    <3>2. CASE i = Len(ring) + 1
      BY <3>2, <2>1, <2>2, <1>t
    <3>q. QED
      BY <3>1, <3>2, <2>2, <1>t
  <2>6. ring' # <<>> /\ Len(ring') <= accepted' /\ ~eofSent
    BY <2>1, <2>2, <1>t DEF WireInv
  <2>q. QED
    BY <2>1, <2>4, <2>5, <2>6 DEF WireInv
<1>5. CASE FinishUpload
  BY <1>5 DEF FinishUpload, WireInv
<1>6. CASE WriteControlPending
  BY <1>6, <1>f DEF WriteControlPending, RestorePaused, OwedAgain
<1>7. CASE WriteResumed
  BY <1>7, <1>f DEF WriteResumed, Return
<1>8. CASE WaitWrite
  BY <1>8, <1>f DEF WaitWrite, WriteReady, HasSpace, Register, Return
<1>9. CASE InterruptDelay
  BY <1>9, <1>f DEF InterruptDelay, Return
<1>10. CASE FlushResume /\ UNCHANGED writeVars
  BY <1>10, <1>f DEF FlushResume, NeedsResume
<1>11. CASE EnqueueResumeOk /\ UNCHANGED writeVars
  BY <1>11, <1>f DEF EnqueueResumeOk
<1>12. CASE EnqueueResumeFail /\ UNCHANGED writeVars
  BY <1>12, <1>f DEF EnqueueResumeFail, ResumeFailed
<1>13. CASE FlushRetry /\ UNCHANGED writeVars
  BY <1>13, <1>f DEF FlushRetry
<1>14. CASE LocalComplete(User) /\ UNCHANGED writeVars
  BY <1>14, <1>f DEF LocalComplete, CompleteStream, FirstCode, Detach
<1>15. CASE LocalFire(User) /\ UNCHANGED writeVars
  BY <1>15, <1>f DEF LocalFire, Fire
<1>16. CASE Woken /\ UNCHANGED writeVars
  BY <1>16, <1>f DEF Woken
<1>17. CASE InterruptWait /\ UNCHANGED writeVars
  BY <1>17, <1>f DEF InterruptWait
<1>18. CASE Unregister /\ UNCHANGED writeVars
  BY <1>18, <1>f DEF Unregister, StillRegistered
<1>19. ASSUME NEW c \in Closers, StartClose(c) /\ UNCHANGED writeVars PROVE WireInv'
  BY <1>19, <1>f DEF StartClose
<1>20. ASSUME NEW c \in Closers, CloseStream(c) /\ UNCHANGED writeVars PROVE WireInv'
  BY <1>20 DEF CloseStream, WireInv
<1>21. ASSUME NEW c \in Closers, CloseFire(c) /\ UNCHANGED writeVars PROVE WireInv'
  BY <1>21, <1>f DEF CloseFire, Fire
<1>22. ASSUME NEW c \in Closers, EnqueueCancelOk(c) /\ UNCHANGED writeVars PROVE WireInv'
  BY <1>22, <1>f DEF EnqueueCancelOk
<1>23. ASSUME NEW c \in Closers, EnqueueCancelFail(c) /\ UNCHANGED writeVars PROVE WireInv'
  BY <1>23, <1>f DEF EnqueueCancelFail
<1>24. ASSUME NEW c \in Closers, UndoCancel(c) /\ UNCHANGED writeVars PROVE WireInv'
  BY <1>24, <1>f DEF UndoCancel, CancelUndone
<1>25. ASSUME NEW c \in Closers, AwaitDone(c) /\ UNCHANGED writeVars PROVE WireInv'
  BY <1>25, <1>f DEF AwaitDone
<1>26. ASSUME NEW c \in Closers, RetryClose(c) /\ UNCHANGED writeVars PROVE WireInv'
  BY <1>26, <1>f DEF RetryClose
<1>27. ASSUME NEW c \in Closers, LocalComplete(c) /\ UNCHANGED writeVars PROVE WireInv'
  BY <1>27, <1>f DEF LocalComplete, CompleteStream, FirstCode, Detach
<1>28. ASSUME NEW c \in Closers, LocalFire(c) /\ UNCHANGED writeVars PROVE WireInv'
  BY <1>28, <1>f DEF LocalFire, Fire
<1>29. CASE RequestCancel /\ UNCHANGED writeVars
  BY <1>29, <1>f DEF RequestCancel
<1>30. CASE ResumeRequest /\ UNCHANGED writeVars
  BY <1>30, <1>f DEF ResumeRequest
<1>31. CASE ExecuteOk /\ UNCHANGED writeVars
  BY <1>31, <1>f DEF ExecuteOk, Receive, AtLoop
<1>32. CASE ExecuteFail /\ UNCHANGED writeVars
  BY <1>32, <1>f DEF ExecuteFail, Receive, AtLoop
<1>33. CASE CancelTransfer /\ UNCHANGED writeVars
  BY <1>33, <1>f DEF CancelTransfer, Finish, Receive, AtLoop
<1>34. CASE ResumeTransfer /\ UNCHANGED writeVars
  BY <1>34, <1>f DEF ResumeTransfer, Finish, Receive, AtLoop
<1>35. CASE StaleControl /\ UNCHANGED writeVars
  BY <1>35, <1>f DEF StaleControl, Receive, AtLoop
<1>36. ASSUME NEW r \in {"ok", "error"}, CurlDone(r) /\ UNCHANGED writeVars PROVE WireInv'
  BY <1>36, <1>f DEF CurlDone, Finish, AtLoop
<1>37. CASE Normalize /\ UNCHANGED writeVars
  BY <1>37, <1>f DEF Normalize, Normalized
<1>38. CASE SetResult /\ UNCHANGED writeVars
  BY <1>38, <1>f DEF SetResult
<1>39. CASE CompleteTransfer /\ UNCHANGED writeVars
  BY <1>39, <1>f DEF CompleteTransfer, CompleteStream, FirstCode, Detach
<1>40. CASE CompleteFire /\ UNCHANGED writeVars
  BY <1>40, <1>f DEF CompleteFire, Fire
<1>41. CASE WakeResult /\ UNCHANGED writeVars
  BY <1>41, <1>f DEF WakeResult
<1>42. ASSUME NEW r \in {"aborted", "error"}, Shutdown(r) /\ UNCHANGED
             writeVars PROVE WireInv'
  BY <1>42, <1>f DEF Shutdown, Finish, AtLoop
<1>43. CASE Drain /\ UNCHANGED writeVars
  BY <1>43, <1>f DEF Drain, DrainFails
<1>44. CASE ReadAbort
  BY <1>44, <1>f DEF ReadAbort, Asks, AtLoop, Finish
<1>45. CASE ReadEof
  <2>1. /\ ~closed /\ ring = <<>> /\ finished
        /\ UNCHANGED <<ring, closed, accepted, offset, wire, finished>>
    BY <1>45 DEF ReadEof, Aborts, AtEnd
  <2>2. Len(wire) = accepted * ChunkLen
    <3>1. accepted - Len(ring) = accepted /\ offset = 0
      BY <2>1, <1>t DEF WireInv
    <3>2. Len(wire) = (accepted - Len(ring)) * ChunkLen + offset
      BY <2>1 DEF WireInv
    <3>q. QED
      BY <3>1, <3>2, <1>t
  <2>q. QED
    BY <2>1, <2>2 DEF WireInv
<1>46. CASE ReadPause
  BY <1>46, <1>f DEF ReadPause, Asks, AtLoop, Aborts
<1>47. ASSUME NEW n \in 1..(ChunkLen - offset), ReadCopy(n) PROVE WireInv'
  <2>1. /\ ~closed /\ ring # <<>> /\ ~eofSent
        /\ UNCHANGED <<closed, accepted, finished, eofSent>>
        /\ ring' = (IF n = ChunkLen - offset THEN Tail(ring) ELSE ring)
        /\ offset' = (IF n = ChunkLen - offset THEN 0 ELSE offset + n)
    BY <1>47 DEF ReadCopy, Asks, Aborts, Popped
  <2>2. /\ Len(wire') = Len(wire) + n
        /\ \A i \in 1..Len(wire') : wire'[i] = i
    BY <1>47, CopyEffect
  <2> DEFINE k == accepted - Len(ring)
  <2>3. /\ k \in Nat /\ k * ChunkLen \in Nat /\ (k + 1) * ChunkLen = k * ChunkLen + ChunkLen
        /\ Len(wire) = k * ChunkLen + offset /\ n \in Nat
    BY <2>1, <1>t, ChunkArithmetic DEF WireInv
  <2>4. CASE n = ChunkLen - offset
    <3>1. ring' = Tail(ring) /\ offset' = 0
      BY <2>1, <2>4
    <3>2. Len(ring') = Len(ring) - 1 /\ \A i \in 1..Len(ring') : ring'[i] = ring[i + 1]
      BY <2>1, <3>1, HeadTailProperties DEF TypeOK, StreamType
    <3>3. accepted' - Len(ring') = k + 1
      <4>1. accepted' = accepted /\ Len(ring') = Len(ring) - 1
        BY <2>1, <3>2
      <4>q. QED
        BY <4>1, <1>t
    <3>4. Len(wire') = (accepted' - Len(ring')) * ChunkLen + offset'
      <4> HIDE DEF k
      <4>1. Len(wire') = (k + 1) * ChunkLen
        BY <2>2, <2>3, <2>4, <1>t
      <4>2. (k + 1) * ChunkLen \in Nat
        BY <2>3, <1>t
      <4>q. QED
        BY <4>1, <4>2, <3>1, <3>3
    <3>5. \A i \in 1..Len(ring') : ring'[i] = accepted' - Len(ring') + i
      <4> SUFFICES ASSUME NEW i \in 1..Len(ring')
                   PROVE  ring'[i] = accepted' - Len(ring') + i
        OBVIOUS
      <4>1. i + 1 \in 1..Len(ring) /\ ring'[i] = ring[i + 1]
        BY <3>2, <1>t
      <4>2. ring[i + 1] = accepted - Len(ring) + (i + 1)
        BY <4>1, <2>1 DEF WireInv
      <4>q. QED
        BY <4>1, <4>2, <3>2, <2>1, <1>t
    <3>6. Len(ring') <= accepted'
      BY <3>2, <2>1, <1>t DEF WireInv
    <3>q. QED
      BY <2>1, <2>2, <3>1, <3>4, <3>5, <3>6 DEF WireInv
  <2>5. CASE n # ChunkLen - offset
    <3>1. ring' = ring /\ offset' = offset + n
      BY <2>1, <2>5
    <3>2. Len(wire') = (accepted' - Len(ring')) * ChunkLen + offset'
      BY <2>1, <2>2, <2>3, <3>1, <1>t
    <3>q. QED
      BY <2>1, <2>2, <3>1, <3>2 DEF WireInv
  <2>q. QED
    BY <2>4, <2>5
<1>48. CASE CallbackFire
  BY <1>48, <1>f DEF CallbackFire, Fire
<1>u. CASE UNCHANGED vars
  BY <1>u, <1>f
<1>q. QED
  BY <1>1, <1>2, <1>3, <1>4, <1>5, <1>6, <1>7, <1>8, <1>9, <1>10, <1>11,
     <1>12, <1>13, <1>14, <1>15, <1>16, <1>17, <1>18, <1>19, <1>20, <1>21,
     <1>22, <1>23, <1>24, <1>25, <1>26, <1>27, <1>28, <1>29, <1>30, <1>31,
     <1>32, <1>33, <1>34, <1>35, <1>36, <1>37, <1>38, <1>39, <1>40, <1>41,
     <1>42, <1>43, <1>44, <1>45, <1>46, <1>47, <1>48, <1>u
  DEF Next, WriterStep, CloseStep, CloserStep, ReactorStep, FinishStep,
      Upload, ServerAnswers, Environment

(* The writer's own variables keep their types: no more chunks than the     *)
(* program feeds, an offset inside the chunk, and units of accepted chunks  *)
(* on the wire.                                                             *)
LEMMA WriteTypeStep == TypeOK /\ FeedInv /\ WireInv /\ [Next]_vars => WriteType'
<1> SUFFICES ASSUME TypeOK, FeedInv, WireInv, [Next]_vars PROVE WriteType'
  OBVIOUS
<1> USE DEF vars, sharedVars, streamVars, chanVars, curlVars, threadVars,
        writeVars
<1>t. WriteType /\ MaxChunks \in Nat /\ ChunkLen \in Nat \ {0}
  BY UploadAssumption DEF TypeOK, WriteType
<1>f. ASSUME UNCHANGED writeVars PROVE WriteType'
  BY <1>f, <1>t DEF WriteType
<1>1. CASE StartWrite
  BY <1>1, <1>t DEF StartWrite, WriteType, Outcomes
<1>2. CASE WriteRefused
  BY <1>2, <1>t DEF WriteRefused, Return, OverOutcome, WriteType, Outcomes
<1>3. CASE WriteWouldBlock
  BY <1>3, <1>f DEF WriteWouldBlock
<1>4. CASE AcceptWrite
  <2>1. accepted + 1 \in 0..MaxChunks
    BY <1>4, <1>t DEF AcceptWrite, FeedInv, WriteType
  <2>q. QED
    BY <1>4, <1>t, <2>1 DEF AcceptWrite, WriteType
<1>5. CASE FinishUpload
  BY <1>5, <1>t DEF FinishUpload, ResumeAfter, WriteType, Outcomes
<1>6. CASE WriteControlPending
  BY <1>6, <1>t DEF WriteControlPending, RestorePaused, OwedAgain, WriteType, Outcomes
<1>7. CASE WriteResumed
  BY <1>7, <1>t DEF WriteResumed, Return, WriteType, Outcomes
<1>8. CASE WaitWrite
  BY <1>8, <1>t DEF WaitWrite, WriteReady, HasSpace, Register, Return, WriteType, Outcomes
<1>9. CASE InterruptDelay
  BY <1>9, <1>t DEF InterruptDelay, Return, WriteType, Outcomes
<1>10. CASE FlushResume /\ UNCHANGED writeVars
  BY <1>10, <1>f DEF FlushResume, NeedsResume
<1>11. CASE EnqueueResumeOk /\ UNCHANGED writeVars
  BY <1>11, <1>f DEF EnqueueResumeOk
<1>12. CASE EnqueueResumeFail /\ UNCHANGED writeVars
  BY <1>12, <1>f DEF EnqueueResumeFail, ResumeFailed
<1>13. CASE FlushRetry /\ UNCHANGED writeVars
  BY <1>13, <1>f DEF FlushRetry
<1>14. CASE LocalComplete(User) /\ UNCHANGED writeVars
  BY <1>14, <1>f DEF LocalComplete, CompleteStream, FirstCode, Detach
<1>15. CASE LocalFire(User) /\ UNCHANGED writeVars
  BY <1>15, <1>f DEF LocalFire, Fire
<1>16. CASE Woken /\ UNCHANGED writeVars
  BY <1>16, <1>f DEF Woken
<1>17. CASE InterruptWait /\ UNCHANGED writeVars
  BY <1>17, <1>f DEF InterruptWait
<1>18. CASE Unregister /\ UNCHANGED writeVars
  BY <1>18, <1>f DEF Unregister, StillRegistered
<1>19. ASSUME NEW c \in Closers, StartClose(c) /\ UNCHANGED writeVars PROVE WriteType'
  BY <1>19, <1>f DEF StartClose
<1>20. ASSUME NEW c \in Closers, CloseStream(c) /\ UNCHANGED writeVars PROVE WriteType'
  BY <1>20, <1>f DEF CloseStream, Detach, NeedsCancel
<1>21. ASSUME NEW c \in Closers, CloseFire(c) /\ UNCHANGED writeVars PROVE WriteType'
  BY <1>21, <1>f DEF CloseFire, Fire
<1>22. ASSUME NEW c \in Closers, EnqueueCancelOk(c) /\ UNCHANGED writeVars PROVE WriteType'
  BY <1>22, <1>f DEF EnqueueCancelOk
<1>23. ASSUME NEW c \in Closers, EnqueueCancelFail(c) /\ UNCHANGED writeVars PROVE WriteType'
  BY <1>23, <1>f DEF EnqueueCancelFail
<1>24. ASSUME NEW c \in Closers, UndoCancel(c) /\ UNCHANGED writeVars PROVE WriteType'
  BY <1>24, <1>f DEF UndoCancel, CancelUndone
<1>25. ASSUME NEW c \in Closers, AwaitDone(c) /\ UNCHANGED writeVars PROVE WriteType'
  BY <1>25, <1>f DEF AwaitDone
<1>26. ASSUME NEW c \in Closers, RetryClose(c) /\ UNCHANGED writeVars PROVE WriteType'
  BY <1>26, <1>f DEF RetryClose
<1>27. ASSUME NEW c \in Closers, LocalComplete(c) /\ UNCHANGED writeVars PROVE WriteType'
  BY <1>27, <1>f DEF LocalComplete, CompleteStream, FirstCode, Detach
<1>28. ASSUME NEW c \in Closers, LocalFire(c) /\ UNCHANGED writeVars PROVE WriteType'
  BY <1>28, <1>f DEF LocalFire, Fire
<1>29. CASE RequestCancel /\ UNCHANGED writeVars
  BY <1>29, <1>f DEF RequestCancel
<1>30. CASE ResumeRequest /\ UNCHANGED writeVars
  BY <1>30, <1>f DEF ResumeRequest
<1>31. CASE ExecuteOk /\ UNCHANGED writeVars
  BY <1>31, <1>f DEF ExecuteOk, Receive, AtLoop
<1>32. CASE ExecuteFail /\ UNCHANGED writeVars
  BY <1>32, <1>f DEF ExecuteFail, Receive, AtLoop
<1>33. CASE CancelTransfer /\ UNCHANGED writeVars
  BY <1>33, <1>f DEF CancelTransfer, Finish, Receive, AtLoop
<1>34. CASE ResumeTransfer /\ UNCHANGED writeVars
  BY <1>34, <1>f DEF ResumeTransfer, Finish, Receive, AtLoop
<1>35. CASE StaleControl /\ UNCHANGED writeVars
  BY <1>35, <1>f DEF StaleControl, Receive, AtLoop
<1>36. ASSUME NEW r \in {"ok", "error"}, CurlDone(r) /\ UNCHANGED writeVars PROVE WriteType'
  BY <1>36, <1>f DEF CurlDone, Finish, AtLoop
<1>37. CASE Normalize /\ UNCHANGED writeVars
  BY <1>37, <1>f DEF Normalize, Normalized
<1>38. CASE SetResult /\ UNCHANGED writeVars
  BY <1>38, <1>f DEF SetResult
<1>39. CASE CompleteTransfer /\ UNCHANGED writeVars
  BY <1>39, <1>f DEF CompleteTransfer, CompleteStream, FirstCode, Detach
<1>40. CASE CompleteFire /\ UNCHANGED writeVars
  BY <1>40, <1>f DEF CompleteFire, Fire
<1>41. CASE WakeResult /\ UNCHANGED writeVars
  BY <1>41, <1>f DEF WakeResult
<1>42. ASSUME NEW r \in {"aborted", "error"}, Shutdown(r) /\ UNCHANGED
             writeVars PROVE WriteType'
  BY <1>42, <1>f DEF Shutdown, Finish, AtLoop
<1>43. CASE Drain /\ UNCHANGED writeVars
  BY <1>43, <1>f DEF Drain, DrainFails
<1>44. CASE ReadAbort
  BY <1>44, <1>f DEF ReadAbort, Asks, AtLoop, Finish
<1>45. CASE ReadEof
  BY <1>45, <1>t DEF ReadEof, Asks, AtLoop, Aborts, AtEnd, WriteType, Outcomes
<1>46. CASE ReadPause
  BY <1>46, <1>f DEF ReadPause, Asks, AtLoop, Aborts
<1>47. ASSUME NEW n \in 1..(ChunkLen - offset), ReadCopy(n) PROVE WriteType'
  <2>1. wire' \in Seq(1..(MaxChunks * ChunkLen))
    BY <1>47, CopyEffect
  <2>2. offset' \in 0..(ChunkLen - 1)
    BY <1>47, <1>t DEF ReadCopy, Popped, WriteType
  <2>q. QED
    BY <1>47, <1>t, <2>1, <2>2 DEF ReadCopy, WriteType
<1>48. CASE CallbackFire
  BY <1>48, <1>f DEF CallbackFire, Fire
<1>u. CASE UNCHANGED vars
  BY <1>u, <1>f
<1>q. QED
  BY <1>1, <1>2, <1>3, <1>4, <1>5, <1>6, <1>7, <1>8, <1>9, <1>10, <1>11,
     <1>12, <1>13, <1>14, <1>15, <1>16, <1>17, <1>18, <1>19, <1>20, <1>21,
     <1>22, <1>23, <1>24, <1>25, <1>26, <1>27, <1>28, <1>29, <1>30, <1>31,
     <1>32, <1>33, <1>34, <1>35, <1>36, <1>37, <1>38, <1>39, <1>40, <1>41,
     <1>42, <1>43, <1>44, <1>45, <1>46, <1>47, <1>48, <1>u
  DEF Next, WriterStep, CloseStep, CloserStep, ReactorStep, FinishStep,
      Upload, ServerAnswers, Environment

-----------------------------------------------------------------------------
(* The theorems *)

(* The request starts with an empty ring and EXECUTE in the queue. *)
LEMMA InitIInv == Init => IInv /\ NoLostWakeup
<1> SUFFICES ASSUME Init PROVE IInv /\ NoLostWakeup
  OBVIOUS
<1> USE StreamAssumption, UploadAssumption DEF Init, StreamInit
<1>1. /\ <<>> \in Seq(1..MaxChunks) /\ Len(<<>>) = 0 /\ <<"EXECUTE">> \in Seq(Msgs)
      /\ <<>> \in Seq(1..(MaxChunks * ChunkLen))
  BY DEF Msgs
<1>2. StreamType(1..MaxChunks)
  <2>1. ring \in Seq(1..MaxChunks) /\ Len(ring) <= Capacity
    BY <1>1
  <2>q. QED
    BY <2>1 DEF StreamType, Codes, OptToken
<1>a. ChanType
  BY <1>1 DEF ChanType
<1>b. CurlType
  BY DEF CurlType, Codes
<1>3. ThreadType(ReactorPcs)
  BY DEF ThreadType, ReactorPcs, UserPcs, CloserPcs, Procs, OptToken
<1>c. accepted \in 0..MaxChunks /\ offset \in 0..(ChunkLen - 1)
  OBVIOUS
<1>4. WriteType
  BY <1>1, <1>c DEF WriteType, Outcomes
<1>5. FeedInv
  BY DEF FeedInv, Procs
<1>6. WireInv
  BY <1>1 DEF WireInv
<1>7. NoLostWakeup
  BY DEF NoLostWakeup
<1>q. QED
  BY <1>2, <1>a, <1>b, <1>3, <1>4, <1>5, <1>6, <1>7 DEF IInv, TypeOK, WriteType

(* IInv is inductive, for every instance. *)
LEMMA Invariance == Spec => []IInv
<1>1. Init => IInv
  BY InitIInv
<1>2. IInv /\ [Next]_vars => IInv'
  <2> SUFFICES ASSUME IInv, [Next]_vars PROVE IInv'
    OBVIOUS
  <2>1. TypeOK /\ FeedInv /\ WireInv
    BY DEF IInv
  <2>2. SharedType' /\ WriteType'
    BY <2>1, SharedTypeStep, WriteTypeStep
  <2>3. TypeOK'
    BY <2>2 DEF TypeOK, SharedType, WriteType
  <2>q. QED
    BY <2>1, <2>3, FeedStep, WireStep DEF IInv
<1>q. QED
  BY <1>1, <1>2, PTL DEF Spec

(* feedBody is never left registered beside free space or on a stream that  *)
(* is over: the read callback, close and completion detach it first.        *)
THEOREM WriterWakes == Spec => []NoLostWakeup
<1>1. Init => NoLostWakeup
  BY InitIInv
<1>2. IInv /\ NoLostWakeup /\ [Next]_vars => NoLostWakeup'
  BY WakeupStep DEF IInv
<1>q. QED
  BY <1>1, <1>2, Invariance, PTL DEF Spec

(* libcurl sends what feedBody accepted, in order and without gaps, however *)
(* the read callback splits the chunks and whatever happens beside it, and  *)
(* reports the end of the body only after the last accepted unit.           *)
THEOREM WireSafety == Spec => []WireInOrder
<1>1. IInv => WireInOrder
  <2> SUFFICES ASSUME IInv PROVE WireInOrder
    OBVIOUS
  <2>1. TypeOK /\ WireInv
    BY DEF IInv
  <2>2. accepted \in Nat /\ offset \in Nat /\ ChunkLen \in Nat /\ Len(ring) \in Nat
        /\ Len(wire) \in Nat
    BY <2>1, UploadAssumption, SequenceFacts DEF TypeOK
  <2>3. ~closed => Len(wire) + Len(ring) * ChunkLen - offset = accepted * ChunkLen
    <3> SUFFICES ASSUME ~closed
                 PROVE  Len(wire) + Len(ring) * ChunkLen - offset = accepted * ChunkLen
      OBVIOUS
    <3>1. Len(wire) = (accepted - Len(ring)) * ChunkLen + offset /\ Len(ring) <= accepted
      BY <2>1 DEF WireInv
    <3>2. (accepted - Len(ring)) * ChunkLen + Len(ring) * ChunkLen = accepted * ChunkLen
      BY <3>1, <2>2, ChunkArithmetic
    <3>3. (accepted - Len(ring)) * ChunkLen \in Nat /\ Len(ring) * ChunkLen \in Nat
      BY <3>1, <2>2
    <3>q. QED
      BY <3>1, <3>2, <3>3, <2>2
  <2>q. QED
    BY <2>1, <2>3 DEF WireInOrder, WireInv
<1>q. QED
  BY <1>1, Invariance, PTL
=============================================================================
