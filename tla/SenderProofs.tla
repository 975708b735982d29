---------------------------- MODULE SenderProofs ----------------------------
(***************************************************************************)
(* Safety of the control channel, for any number of streams and callers,   *)
(* any capacity of the queue and any number of messages: the wait-free     *)
(* queue never overwrites a slot, nothing is used after it was freed, the  *)
(* answer of enqueue_outer_message is the truth, and gate and queue        *)
(* together implement the FIFO of ControlChannel.                          *)
(***************************************************************************)
EXTENDS MessageSender, SequenceTheorems, FiniteSetTheorems, TLAPS

InsideLabels == {"count", "backoff", "ticket", "store", "send", "leaveOk",
                 "leaveFull"}

(* The producers at one of the given steps. *)
At(labels) == {p \in Producers : pc[p] \in labels}

Holding == {s \in Streams : pc[s] \notin {"new", "gone"}}

One(b) == IF b THEN 1 ELSE 0

(* The producer count of sender->state; nobody is inside once the reactor   *)
(* has found it zero with the closed bit set.                               *)
GateInv ==
  /\ IsFiniteSet(At(InsideLabels)) /\ inside = Cardinality(At(InsideLabels))
  /\ rpc \in {"relock", "look", "sleep", "asleep", "sealed"} => closedBit
  /\ ~asyncSet => closedBit
  /\ ~asyncSet \/ rpc = "sealed" => At(InsideLabels) = {}

(* How far the shutdown of the reactor has come. *)
ShutdownInv ==
  /\ stopped \/ rpc \in {"drain", "drainCount", "drained", "uvClose", "release",
                         "finish", "done"} => ~asyncSet
  /\ rpc \in {"exit", "uvClose", "release", "finish", "done"} => stopped
  /\ handle <=> rpc \notin {"release", "finish", "done"}
  /\ ~queueAlive => rpc = "done"
  /\ stopped \/ rpc = "drained" => Len(taken) = Len(tickets)

(* One reference each for the message context, the AgentContext and every   *)
(* stream that is not finalized; a Haskell caller holds the AgentContext.   *)
RefInv ==
  /\ IsFiniteSet(Holding)
  /\ references = One(rpc \notin {"finish", "done"}) + One(queueAlive)
                  + Cardinality(Holding)
  /\ \A p \in Haskell : pc[p] # "idle" => queueAlive

(* q->count: the tickets that were not taken, the ones about to be drawn,   *)
(* the attempts about to be undone and the message the reactor has yet to   *)
(* subtract.                                                                *)
CountInv ==
  /\ IsFiniteSet(At({"ticket"})) /\ IsFiniteSet(At({"backoff"}))
  /\ Len(taken) <= Len(tickets)
  /\ count = (Len(tickets) - Len(taken)) + Cardinality(At({"ticket"}))
             + Cardinality(At({"backoff"})) + One(rpc \in {"dispatch", "drainCount"})
  /\ (Len(tickets) - Len(taken)) + Cardinality(At({"ticket"})) <= Max

Drawn(m) == \E i \in 1..Len(tickets) : tickets[i] = m
DrawnLabels == {"store", "send", "leaveOk", "signalOk"}

(* A message has a ticket from its fetch_add on, and one only; the reactor  *)
(* gets the messages in the order of the tickets.                           *)
TicketInv ==
  /\ \A p \in Producers : \A n \in 1..MaxSends :
       Drawn(<<p, n>>) <=>
         n <= sent[p] \/ (n = sent[p] + 1 /\ pc[p] \in DrawnLabels)
  /\ \A i, j \in 1..Len(tickets) : tickets[i] = tickets[j] => i = j
  /\ \A p \in Producers : pc[p] \notin {"new", "idle", "gone"} => sent[p] < MaxSends
  /\ \A i \in 1..Len(taken) : taken[i] = tickets[i]

(* The slots behind tail, one for each ticket that was not taken. *)
Wrapped(x) == IF x < Max THEN x ELSE x - Max
Pos(i) == Wrapped(tail + (i - Len(taken) - 1))
Waiting == (Len(taken) + 1)..Len(tickets)
Storing(m) == pc[m[1]] = "store" /\ m = Msg(m[1])

(* The ring: a slot holds the message of its ticket unless its producer has *)
(* yet to store it; every other slot is empty.                              *)
RingInv ==
  /\ head % Max = Wrapped(tail + (Len(tickets) - Len(taken)))
  /\ \A i \in Waiting :
       buffer[Pos(i)] = IF Storing(tickets[i]) THEN NoMsg ELSE tickets[i]
  /\ \A p \in Producers : pc[p] = "store" =>
       \E i \in Waiting : tickets[i] = Msg(p) /\ slot[p] = Pos(i)
  /\ \A j \in 0..(Max - 1) : (\A i \in Waiting : Pos(i) # j) => buffer[j] = NoMsg

IInv == TypeOK /\ GateInv /\ ShutdownInv /\ RefInv /\ CountInv /\ TicketInv /\ RingInv

-----------------------------------------------------------------------------
(* Lemmas about counting and about the ring *)

(* One more, or one less: how many there are then. *)
LEMMA Counted ==
  ASSUME NEW A, IsFiniteSet(A), NEW p, NEW B, B = A \cup {p} \/ B = A \ {p}
  PROVE /\ IsFiniteSet(B) /\ Cardinality(A) \in Nat /\ Cardinality(B) \in Nat
        /\ Cardinality(B) = Cardinality(A) + One(p \in B) - One(p \in A)
        /\ p \in A => Cardinality(A) >= 1
<1>1. Cardinality(A) \in Nat
  BY FS_CardinalityType
<1>2. ASSUME B = A \cup {p}
      PROVE IsFiniteSet(B) /\ Cardinality(B) = Cardinality(A) + One(p \in B) - One(p \in A)
  <2>1. IsFiniteSet(B) /\ Cardinality(B) = IF p \in A THEN Cardinality(A) ELSE Cardinality(A) + 1
    BY <1>2, FS_AddElement
  <2>2. p \in B
    BY <1>2
  <2>q. QED
    BY <1>1, <2>1, <2>2 DEF One
<1>3. ASSUME B = A \ {p}
      PROVE IsFiniteSet(B) /\ Cardinality(B) = Cardinality(A) + One(p \in B) - One(p \in A)
  <2>1. IsFiniteSet(B) /\ Cardinality(B) = IF p \in A THEN Cardinality(A) - 1 ELSE Cardinality(A)
    BY <1>3, FS_RemoveElement
  <2>2. p \notin B
    BY <1>3
  <2>q. QED
    BY <1>1, <2>1, <2>2 DEF One
<1>4. IsFiniteSet(B) /\ Cardinality(B) = Cardinality(A) + One(p \in B) - One(p \in A)
  BY <1>2, <1>3
<1>5. Cardinality(B) \in Nat
  BY <1>4, FS_CardinalityType
<1>6. p \in A => Cardinality(A) >= 1
  <2> SUFFICES ASSUME p \in A, Cardinality(A) = 0 PROVE FALSE
    BY <1>1
  <2>1. A = {}
    BY FS_EmptySet
  <2>q. QED
    BY <2>1
<1>q. QED
  BY <1>1, <1>4, <1>5, <1>6

(* The remainder of a counter that is incremented. *)
LEMMA ModSucc ==
  ASSUME NEW a \in Nat, NEW m \in Nat \ {0}
  PROVE /\ a % m \in 0..(m - 1)
        /\ (a + 1) % m = IF (a % m) + 1 = m THEN 0 ELSE (a % m) + 1
<1> DEFINE q == a \div m
           r == a % m
           q1 == (a + 1) \div m
           r1 == (a + 1) % m
           d == q1 - q
<1>1. q \in Int /\ r \in 0..(m - 1) /\ a = m * q + r
  OBVIOUS
<1>2. q1 \in Int /\ r1 \in 0..(m - 1) /\ a + 1 = m * q1 + r1
  OBVIOUS
<1> HIDE DEF q, r, q1, r1
<1>3. d \in Int /\ m * d = r + 1 - r1
  BY <1>1, <1>2
<1>5. d <= -1 => m * d <= -m
  BY <1>3
<1>6. d = 0 => m * d = 0
  BY <1>3
<1>7. d >= 2 => m * d >= 2 * m
  BY <1>3
<1>8. d = 1 => m * d = m
  BY <1>3
<1> DEFINE e == m * d
<1>9. e \in Int /\ e = r + 1 - r1
  BY <1>1, <1>2, <1>3
<1>10. d = 0 \/ d = 1
  <2> HIDE DEF e
  <2>1. (d >= 2 => e >= 2 * m) /\ (d <= -1 => e <= -m)
    BY <1>5, <1>7 DEF e
  <2>q. QED
    BY <1>1, <1>2, <1>3, <1>9, <2>1
<1>11. (d = 0 => e = 0) /\ (d = 1 => e = m)
  BY <1>6, <1>8
<1> HIDE DEF e, d
<1>12. r1 = IF r + 1 = m THEN 0 ELSE r + 1
  BY <1>1, <1>2, <1>9, <1>10, <1>11
<1>q. QED
  BY <1>1, <1>12 DEF r, r1

-----------------------------------------------------------------------------
(* Steps *)

(* The CAS of message_sender_enter keeps the count of the threads inside    *)
(* exact, and nobody enters a closed gate.                                  *)
LEMMA GateStep == TypeOK /\ GateInv /\ [Next]_vars => GateInv'
<1> SUFFICES ASSUME TypeOK, GateInv, [Next]_vars PROVE GateInv'
  OBVIOUS
<1> USE SenderAssumption
    DEF vars, senderVars, queueVars, agentVars, prodVars, reactVars, Goto,
        RGoto
<1>t. pc \in [Producers -> PPcs] /\ Streams \subseteq Producers
  BY DEF TypeOK, Producers
<1>z. At(InsideLabels) = {} <=> inside = 0
  BY FS_EmptySet DEF GateInv
<1>n. inside \in Nat
  BY FS_CardinalityType DEF GateInv
<1>m. ASSUME NEW p \in Producers, NEW l, pc' = [pc EXCEPT ![p] = l]
      PROVE /\ IsFiniteSet(At(InsideLabels)')
            /\ Cardinality(At(InsideLabels)')
                 = inside + One(l \in InsideLabels) - One(pc[p] \in InsideLabels)
            /\ At(InsideLabels)' = IF l \in InsideLabels THEN At(InsideLabels) \cup {p}
                                   ELSE At(InsideLabels) \ {p}
            /\ p \in At(InsideLabels) <=> pc[p] \in InsideLabels
  <2>1. At(InsideLabels)' = IF l \in InsideLabels THEN At(InsideLabels) \cup {p}
                            ELSE At(InsideLabels) \ {p}
    BY <1>m, <1>t DEF At
  <2>2. /\ p \in At(InsideLabels)' <=> l \in InsideLabels
        /\ p \in At(InsideLabels) <=> pc[p] \in InsideLabels
    BY <1>m, <1>t DEF At
  <2>3. IsFiniteSet(At(InsideLabels)) /\ inside = Cardinality(At(InsideLabels))
    BY DEF GateInv
  <2> HIDE DEF At
  <2>4. /\ IsFiniteSet(At(InsideLabels)')
        /\ Cardinality(At(InsideLabels)') = Cardinality(At(InsideLabels))
             + One(p \in At(InsideLabels)') - One(p \in At(InsideLabels))
    BY <2>1, <2>3, Counted
  <2>q. QED
    BY <2>1, <2>2, <2>3, <2>4 DEF One
<1>k. ASSUME NEW p \in Producers, NEW l, pc' = [pc EXCEPT ![p] = l],
             l \in InsideLabels <=> pc[p] \in InsideLabels
      PROVE At(InsideLabels)' = At(InsideLabels)
  <2>0. /\ At(InsideLabels)' = IF l \in InsideLabels THEN At(InsideLabels) \cup {p}
                               ELSE At(InsideLabels) \ {p}
        /\ p \in At(InsideLabels) <=> l \in InsideLabels
    <3>1. p \in At(InsideLabels) <=> pc[p] \in InsideLabels
      BY DEF At
    <3>2. At(InsideLabels)' = IF l \in InsideLabels THEN At(InsideLabels) \cup {p}
                               ELSE At(InsideLabels) \ {p}
      BY <1>m, <1>k
    <3>q. QED
      BY <1>k, <3>1, <3>2
  <2>1. CASE l \in InsideLabels
    BY <2>0, <2>1
  <2>2. CASE l \notin InsideLabels
    BY <2>0, <2>2
  <2>q. QED
    BY <2>1, <2>2
<1>f. ASSUME UNCHANGED <<inside, closedBit, asyncSet>>, At(InsideLabels)' = At(InsideLabels),
             \/ rpc' = rpc
             \/ rpc' \notin {"relock", "look", "sleep", "asleep", "sealed"}
             \/ rpc \in {"relock", "look", "sleep", "asleep", "sealed"} /\ rpc' # "sealed"
      PROVE GateInv'
  BY <1>f DEF GateInv
<1>p. ASSUME UNCHANGED pc PROVE At(InsideLabels)' = At(InsideLabels)
  BY <1>p DEF At
<1>1. ASSUME NEW s \in Streams, Retain(s) PROVE GateInv'
  <2>1. pc' = [pc EXCEPT ![s] = "idle"] /\ ("idle" \in InsideLabels <=> pc[s] \in InsideLabels)
    BY <1>1 DEF Retain, InsideLabels
  <2>2. At(InsideLabels)' = At(InsideLabels)
    BY <1>k, <1>t, <2>1
  <2>q. QED
    BY <1>1, <1>f, <2>2 DEF Retain
<1>2. ASSUME NEW s \in Streams, Release(s) PROVE GateInv'
  <2>1. pc' = [pc EXCEPT ![s] = "gone"] /\ ("gone" \in InsideLabels <=> pc[s] \in InsideLabels)
    BY <1>2 DEF Release, InsideLabels
  <2>2. At(InsideLabels)' = At(InsideLabels)
    BY <1>k, <1>t, <2>1
  <2>q. QED
    BY <1>2, <1>f, <2>2 DEF Release
<1>3. CASE CollectAgent
  BY <1>3, <1>f, <1>p DEF CollectAgent
<1>4. ASSUME NEW p \in Producers, Send(p) PROVE GateInv'
  <2>1. UNCHANGED pc \/ (pc' = [pc EXCEPT ![p] = "check"] /\ ("check" \in InsideLabels <=> pc[p] \in InsideLabels))
    BY <1>4 DEF Send, InsideLabels
  <2>2. At(InsideLabels)' = At(InsideLabels)
    BY <1>k, <1>p, <2>1
  <2>q. QED
    BY <1>4, <1>f, <2>2 DEF Send
<1>5. ASSUME NEW p \in Producers, CheckClosed(p) PROVE GateInv'
  <2>1. \E l \in {"idle", "enter"} : pc' = [pc EXCEPT ![p] = l] /\ (l \in InsideLabels <=> pc[p] \in InsideLabels)
    BY <1>5 DEF CheckClosed, Return, InsideLabels
  <2>2. At(InsideLabels)' = At(InsideLabels)
    BY <1>k, <2>1
  <2>q. QED
    BY <1>5, <1>f, <2>2 DEF CheckClosed
<1>6. ASSUME NEW p \in Producers, OutOfMemory(p) PROVE GateInv'
  <2>1. pc' = [pc EXCEPT ![p] = "idle"] /\ ("idle" \in InsideLabels <=> pc[p] \in InsideLabels)
    BY <1>6 DEF OutOfMemory, Return, InsideLabels
  <2>2. At(InsideLabels)' = At(InsideLabels)
    BY <1>k, <1>t, <2>1
  <2>q. QED
    BY <1>6, <1>f, <2>2 DEF OutOfMemory, Return
<1>7. ASSUME NEW p \in Producers, Enter(p) PROVE GateInv'
  <2>1. CASE closedBit
    <3>1. pc' = [pc EXCEPT ![p] = "idle"] /\ ("idle" \in InsideLabels <=> pc[p] \in InsideLabels)
      BY <1>7, <2>1 DEF Enter, MayEnter, Return, InsideLabels
    <3>2. At(InsideLabels)' = At(InsideLabels)
      BY <1>k, <3>1
    <3>q. QED
      BY <1>7, <1>f, <2>1, <3>2 DEF Enter, MayEnter
  <2>2. CASE ~closedBit
    <3>1. pc' = [pc EXCEPT ![p] = "count"] /\ pc[p] = "enter" /\ inside' = inside + 1
      BY <1>7, <2>2 DEF Enter, MayEnter
    <3>2. "count" \in InsideLabels /\ "enter" \notin InsideLabels
      BY DEF InsideLabels
    <3>3. /\ IsFiniteSet(At(InsideLabels)')
          /\ Cardinality(At(InsideLabels)') = inside + One("count" \in InsideLabels) - One(pc[p] \in InsideLabels)
      BY <1>m, <3>1
    <3>4. inside' = Cardinality(At(InsideLabels)')
      BY <1>n, <3>1, <3>2, <3>3 DEF One
    <3>q. QED
      BY <1>7, <2>2, <3>1, <3>3, <3>4 DEF Enter, GateInv
  <2>q. QED
    BY <2>1, <2>2
<1>8. ASSUME NEW p \in Producers, IncCount(p) PROVE GateInv'
  <2>1. \E l \in {"ticket", "backoff"} : pc' = [pc EXCEPT ![p] = l] /\ (l \in InsideLabels <=> pc[p] \in InsideLabels)
    BY <1>8 DEF IncCount, InsideLabels
  <2>2. At(InsideLabels)' = At(InsideLabels)
    BY <1>k, <2>1
  <2>q. QED
    BY <1>8, <1>f, <2>2 DEF IncCount
<1>9. ASSUME NEW p \in Producers, BackOff(p) PROVE GateInv'
  <2>1. pc' = [pc EXCEPT ![p] = "leaveFull"] /\ ("leaveFull" \in InsideLabels <=> pc[p] \in InsideLabels)
    BY <1>9 DEF BackOff, InsideLabels
  <2>2. At(InsideLabels)' = At(InsideLabels)
    BY <1>k, <1>t, <2>1
  <2>q. QED
    BY <1>9, <1>f, <2>2 DEF BackOff
<1>10. ASSUME NEW p \in Producers, TakeTicket(p) PROVE GateInv'
  <2>1. pc' = [pc EXCEPT ![p] = "store"] /\ ("store" \in InsideLabels <=> pc[p] \in InsideLabels)
    BY <1>10 DEF TakeTicket, InsideLabels
  <2>2. At(InsideLabels)' = At(InsideLabels)
    BY <1>k, <1>t, <2>1
  <2>q. QED
    BY <1>10, <1>f, <2>2 DEF TakeTicket
<1>11. ASSUME NEW p \in Producers, Store(p) PROVE GateInv'
  <2>1. pc' = [pc EXCEPT ![p] = "send"] /\ ("send" \in InsideLabels <=> pc[p] \in InsideLabels)
    BY <1>11 DEF Store, InsideLabels
  <2>2. At(InsideLabels)' = At(InsideLabels)
    BY <1>k, <1>t, <2>1
  <2>q. QED
    BY <1>11, <1>f, <2>2 DEF Store
<1>12. ASSUME NEW p \in Producers, AsyncSend(p) PROVE GateInv'
  <2>1. pc' = [pc EXCEPT ![p] = "leaveOk"] /\ ("leaveOk" \in InsideLabels <=> pc[p] \in InsideLabels)
    BY <1>12 DEF AsyncSend, Wakes, InsideLabels
  <2>2. At(InsideLabels)' = At(InsideLabels)
    BY <1>k, <1>t, <2>1
  <2>q. QED
    BY <1>12, <1>f, <2>2 DEF AsyncSend, Wakes
<1>13. ASSUME NEW p \in Producers, Leave(p) PROVE GateInv'
  <2>1. pc[p] \in InsideLabels
    BY <1>13 DEF Leave, InsideLabels
  <2>2. \E l \in {"idle", "signalOk", "signalFull"} : pc' = [pc EXCEPT ![p] = l] /\ l \notin InsideLabels
    BY <1>13 DEF Leave, Return, InsideLabels
  <2>a. PICK l \in {"idle", "signalOk", "signalFull"} : pc' = [pc EXCEPT ![p] = l] /\ l \notin InsideLabels
    BY <2>2
  <2>b. /\ IsFiniteSet(At(InsideLabels)')
        /\ Cardinality(At(InsideLabels)') = inside + One(l \in InsideLabels) - One(pc[p] \in InsideLabels)
    BY <1>m, <2>a
  <2>3. inside - 1 = Cardinality(At(InsideLabels)')
    BY <1>n, <2>1, <2>a, <2>b DEF One
  <2>4. p \in At(InsideLabels)
    BY <2>1 DEF At
  <2>q. QED
    BY <1>13, <2>3, <2>4, <2>b DEF Leave, GateInv
<1>14. ASSUME NEW p \in Producers, Signal(p) PROVE GateInv'
  <2>1. pc' = [pc EXCEPT ![p] = "idle"] /\ ("idle" \in InsideLabels <=> pc[p] \in InsideLabels)
    BY <1>14 DEF Signal, ResultOf, Return, InsideLabels
  <2>2. At(InsideLabels)' = At(InsideLabels)
    BY <1>k, <1>t, <2>1
  <2>q. QED
    BY <1>14, <1>f, <2>2 DEF Signal, ResultOf, Return
<1>15. CASE Callback
  BY <1>15, <1>f, <1>p DEF Callback
<1>16. CASE Dequeue
  BY <1>16, <1>f, <1>p DEF Dequeue, Exchange, NextTail
<1>17. CASE Dispatch
  BY <1>17, <1>f, <1>p DEF Dispatch
<1>18. CASE FatalError
  BY <1>18, <1>f, <1>p DEF FatalError
<1>19. CASE CloseGate
  BY <1>19, <1>p, <1>z DEF GateInv, CloseGate
<1>20. CASE LockClose
  BY <1>20, <1>f, <1>p DEF LockClose
<1>21. CASE LookInside
  BY <1>21, <1>p, <1>z DEF GateInv, LookInside, MustWait
<1>22. CASE SleepClose
  BY <1>22, <1>f, <1>p DEF SleepClose
<1>23. CASE SpuriousWake
  BY <1>23, <1>f, <1>p DEF SpuriousWake
<1>24. CASE SealGate
  BY <1>24, <1>p, <1>z DEF GateInv, SealGate
<1>25. CASE Drain
  BY <1>25, <1>f, <1>p DEF Drain, Exchange, NextTail
<1>26. CASE DrainCount
  BY <1>26, <1>f, <1>p DEF DrainCount
<1>27. CASE Drained
  BY <1>27, <1>f, <1>p DEF Drained
<1>28. CASE ExitRun
  BY <1>28, <1>f, <1>p DEF ExitRun
<1>29. CASE UvClose
  BY <1>29, <1>f, <1>p DEF UvClose
<1>30. CASE ReleaseContext
  BY <1>30, <1>f, <1>p DEF ReleaseContext
<1>31. CASE FinishRun
  BY <1>31, <1>f, <1>p DEF FinishRun
<1>u. CASE UNCHANGED vars
  BY <1>u, <1>f, <1>p
<1>q. QED
  BY <1>1, <1>2, <1>3, <1>4, <1>5, <1>6, <1>7, <1>8, <1>9, <1>10, <1>11,
     <1>12, <1>13, <1>14, <1>15, <1>16, <1>17, <1>18, <1>19, <1>20, <1>21,
     <1>22, <1>23, <1>24, <1>25, <1>26, <1>27, <1>28, <1>29, <1>30, <1>31,
     <1>u
  DEF Next, ProducerStep, ReactorStep

(* The reactor seals, drains and destroys in that order, and a drained      *)
(* queue stays empty.                                                       *)
LEMMA ShutdownStep == TypeOK /\ GateInv /\ CountInv /\ ShutdownInv /\ RingInv /\ [Next]_vars => ShutdownInv'
<1> SUFFICES ASSUME TypeOK, GateInv, CountInv, ShutdownInv, RingInv, [Next]_vars PROVE ShutdownInv'
  OBVIOUS
<1> USE SenderAssumption
    DEF vars, senderVars, queueVars, agentVars, prodVars, reactVars, Goto,
        RGoto, ShutdownInv
<1>l. /\ Len(taken) \in Nat /\ Len(tickets) \in Nat /\ Len(taken) <= Len(tickets)
      /\ tickets \in Seq(Messages) /\ tail \in 0..(Max - 1)
      /\ \A j \in 1..Len(tickets) : tickets[j] \in Messages
  BY LenProperties, ElementOfSeq DEF TypeOK, CountInv
<1>e. buffer[tail] # NoMsg => Len(taken) # Len(tickets)
  BY <1>l DEF RingInv, Waiting
<1>1. ASSUME NEW s \in Streams, Retain(s) PROVE ShutdownInv'
  BY <1>1 DEF Retain
<1>2. ASSUME NEW s \in Streams, Release(s) PROVE ShutdownInv'
  BY <1>2 DEF Release
<1>3. CASE CollectAgent
  BY <1>3 DEF CollectAgent
<1>4. ASSUME NEW p \in Producers, Send(p) PROVE ShutdownInv'
  BY <1>4 DEF Send, MaySend
<1>5. ASSUME NEW p \in Producers, CheckClosed(p) PROVE ShutdownInv'
  BY <1>5 DEF CheckClosed, Return
<1>6. ASSUME NEW p \in Producers, OutOfMemory(p) PROVE ShutdownInv'
  BY <1>6 DEF OutOfMemory, Return
<1>7. ASSUME NEW p \in Producers, Enter(p) PROVE ShutdownInv'
  BY <1>7 DEF Enter, MayEnter, Return
<1>8. ASSUME NEW p \in Producers, IncCount(p) PROVE ShutdownInv'
  BY <1>8 DEF IncCount, Fits
<1>9. ASSUME NEW p \in Producers, BackOff(p) PROVE ShutdownInv'
  BY <1>9 DEF BackOff
<1>10. ASSUME NEW p \in Producers, TakeTicket(p) PROVE ShutdownInv'
  <2>1. asyncSet
    BY <1>10 DEF TakeTicket, GateInv, At, InsideLabels
  <2>q. QED
    BY <1>10, <2>1 DEF TakeTicket
<1>11. ASSUME NEW p \in Producers, Store(p) PROVE ShutdownInv'
  BY <1>11 DEF Store
<1>12. ASSUME NEW p \in Producers, AsyncSend(p) PROVE ShutdownInv'
  BY <1>12 DEF AsyncSend, Wakes
<1>13. ASSUME NEW p \in Producers, Leave(p) PROVE ShutdownInv'
  BY <1>13 DEF Leave, LastOut, ResultOf, Return
<1>14. ASSUME NEW p \in Producers, Signal(p) PROVE ShutdownInv'
  BY <1>14 DEF Signal, ResultOf, Return
<1>15. CASE Callback
  BY <1>15 DEF Callback
<1>16. CASE Dequeue
  <2>1. \/ buffer[tail] = NoMsg /\ rpc' = (IF stopped THEN "exit" ELSE "poll") /\ UNCHANGED <<buffer, tail, taken, got>>
        \/ /\ buffer[tail] # NoMsg /\ taken' = Append(taken, buffer[tail]) /\ rpc' = "dispatch"
           /\ Len(taken) # Len(tickets)
    BY <1>16, <1>e DEF Dequeue, Exchange
  <2>2. UNCHANGED <<tickets, asyncSet, handle, queueAlive, stopped>>
    BY <1>16 DEF Dequeue, Exchange
  <2>q. QED
    BY <1>16, <2>1, <2>2 DEF Dequeue
<1>17. CASE Dispatch
  BY <1>17 DEF Dispatch
<1>18. CASE FatalError
  BY <1>18 DEF FatalError
<1>19. CASE CloseGate
  BY <1>19 DEF CloseGate
<1>20. CASE LockClose
  BY <1>20 DEF LockClose
<1>21. CASE LookInside
  BY <1>21 DEF LookInside, MustWait
<1>22. CASE SleepClose
  BY <1>22 DEF SleepClose
<1>23. CASE SpuriousWake
  BY <1>23 DEF SpuriousWake
<1>24. CASE SealGate
  BY <1>24 DEF SealGate
<1>25. CASE Drain
  <2>1. \/ buffer[tail] = NoMsg /\ rpc' = "drained" /\ UNCHANGED <<buffer, tail, taken, got>>
        \/ /\ buffer[tail] # NoMsg /\ taken' = Append(taken, buffer[tail]) /\ rpc' = "drainCount"
           /\ Len(taken) # Len(tickets)
    BY <1>25, <1>e DEF Drain, Exchange
  <2>2. UNCHANGED <<tickets, asyncSet, handle, queueAlive, stopped>>
    BY <1>25 DEF Drain, Exchange
  <2>3. ~asyncSet /\ At(InsideLabels) = {}
    BY <1>25 DEF Drain, GateInv
  <2>4. buffer[tail] = NoMsg => Len(taken) = Len(tickets)
    <3> SUFFICES ASSUME buffer[tail] = NoMsg, Len(taken) # Len(tickets) PROVE FALSE
      OBVIOUS
    <3> DEFINE i == Len(taken) + 1
    <3>1. i \in Waiting /\ Pos(i) = tail
      BY <1>l DEF Waiting, Pos, Wrapped
    <3>2. tickets[i] \in Messages /\ tickets[i][1] \in Producers
      BY <1>l, <3>1 DEF Waiting, Messages
    <3>3. ~Storing(tickets[i])
      BY <2>3, <3>2 DEF Storing, At, InsideLabels
    <3>4. buffer[tail] = tickets[i]
      BY <3>1, <3>3 DEF RingInv
    <3>q. QED
      BY <3>2, <3>4
  <2>q. QED
    BY <1>25, <2>1, <2>2, <2>4 DEF Drain
<1>26. CASE DrainCount
  BY <1>26 DEF DrainCount
<1>27. CASE Drained
  BY <1>27 DEF Drained
<1>28. CASE ExitRun
  BY <1>28 DEF ExitRun
<1>29. CASE UvClose
  BY <1>29 DEF UvClose
<1>30. CASE ReleaseContext
  BY <1>30 DEF ReleaseContext
<1>31. CASE FinishRun
  BY <1>31 DEF FinishRun
<1>u. CASE UNCHANGED vars
  BY <1>u
<1>q. QED
  BY <1>1, <1>2, <1>3, <1>4, <1>5, <1>6, <1>7, <1>8, <1>9, <1>10, <1>11,
     <1>12, <1>13, <1>14, <1>15, <1>16, <1>17, <1>18, <1>19, <1>20, <1>21,
     <1>22, <1>23, <1>24, <1>25, <1>26, <1>27, <1>28, <1>29, <1>30, <1>31,
     <1>u
  DEF Next, ProducerStep, ReactorStep

(* Every holder of the sender has a reference of its own, and a call is     *)
(* only made by a holder.                                                   *)
LEMMA RefStep == TypeOK /\ RefInv /\ [Next]_vars => RefInv'
<1> SUFFICES ASSUME TypeOK, RefInv, [Next]_vars PROVE RefInv'
  OBVIOUS
<1> USE SenderAssumption
    DEF vars, senderVars, queueVars, agentVars, prodVars, reactVars, Goto,
        RGoto
<1>t. /\ pc \in [Producers -> PPcs] /\ Streams \subseteq Producers /\ Haskell \subseteq Producers
      /\ Streams \cap Haskell = {}
  BY DEF TypeOK, Producers, Haskell
<1>n. references \in Nat /\ Cardinality(Holding) \in Nat /\ IsFiniteSet(Holding)
  BY FS_CardinalityType DEF RefInv, TypeOK
<1>h. ASSUME NEW p \in Producers, NEW l, pc' = [pc EXCEPT ![p] = l],
             l \notin {"new", "gone"}, pc[p] \notin {"new", "gone"}
      PROVE Holding' = Holding
  BY <1>h, <1>t DEF Holding
<1>p. ASSUME UNCHANGED pc PROVE Holding' = Holding
  BY <1>p DEF Holding
<1>f. ASSUME Holding' = Holding, UNCHANGED <<references, queueAlive>>,
             rpc' \in {"finish", "done"} <=> rpc \in {"finish", "done"},
             \A p \in Haskell : pc'[p] # "idle" => pc[p] # "idle" \/ queueAlive
      PROVE RefInv'
  BY <1>f DEF RefInv, One
<1>1. ASSUME NEW s \in Streams, Retain(s) PROVE RefInv'
  <2>1. /\ pc' = [pc EXCEPT ![s] = "idle"] /\ pc[s] = "new" /\ references' = references + 1
        /\ UNCHANGED <<rpc, queueAlive>>
    BY <1>1 DEF Retain
  <2>2. Holding' = Holding \cup {s} /\ s \notin Holding
    BY <1>t, <2>1 DEF Holding
  <2>3. IsFiniteSet(Holding') /\ Cardinality(Holding') = Cardinality(Holding) + 1
    BY <1>n, <2>2, FS_AddElement
  <2>4. \A p \in Haskell : pc'[p] = pc[p]
    BY <1>t, <2>1
  <2>q. QED
    BY <1>n, <2>1, <2>3, <2>4 DEF RefInv, One
<1>2. ASSUME NEW s \in Streams, Release(s) PROVE RefInv'
  <2>1. /\ pc' = [pc EXCEPT ![s] = "gone"] /\ pc[s] = "idle" /\ references' = references - 1
        /\ UNCHANGED <<rpc, queueAlive>>
    BY <1>2 DEF Release
  <2>2. Holding' = Holding \ {s} /\ s \in Holding
    BY <1>t, <2>1 DEF Holding
  <2>3. IsFiniteSet(Holding') /\ Cardinality(Holding') = Cardinality(Holding) - 1
    BY <1>n, <2>2, FS_RemoveElement
  <2>4. \A p \in Haskell : pc'[p] = pc[p]
    BY <1>t, <2>1
  <2>q. QED
    BY <1>n, <2>1, <2>3, <2>4 DEF RefInv, One
<1>3. CASE CollectAgent
  <2>1. rpc = "done" /\ queueAlive /\ references' = references - 1 /\ ~queueAlive' /\ UNCHANGED <<rpc, pc>>
    BY <1>3 DEF CollectAgent
  <2>2. \A p \in Haskell : pc[p] = "idle"
    BY <1>3 DEF CollectAgent
  <2>q. QED
    BY <1>n, <1>p, <2>1, <2>2 DEF RefInv, One
<1>4. ASSUME NEW p \in Producers, Send(p) PROVE RefInv'
  <2>1. UNCHANGED pc \/ (pc' = [pc EXCEPT ![p] = "check"] /\ pc[p] = "idle")
    BY <1>4 DEF Send
  <2>2. Holding' = Holding
    BY <1>h, <1>p, <2>1
  <2>3. \A q \in Haskell : pc'[q] # "idle" => pc[q] # "idle" \/ queueAlive
    BY <1>4, <1>t, <2>1 DEF Send
  <2>q. QED
    BY <1>4, <1>f, <2>2, <2>3 DEF Send
<1>5. ASSUME NEW p \in Producers, CheckClosed(p) PROVE RefInv'
  <2>1. PICK l \in {"idle", "enter"} : pc' = [pc EXCEPT ![p] = l] /\ pc[p] = "check"
    BY <1>5 DEF CheckClosed, Return
  <2>2. Holding' = Holding
    BY <1>h, <2>1
  <2>3. \A q \in Haskell : pc'[q] # "idle" => pc[q] # "idle" \/ queueAlive
    BY <1>t, <2>1
  <2>q. QED
    BY <1>5, <1>f, <2>2, <2>3 DEF CheckClosed, Return
<1>6. ASSUME NEW p \in Producers, OutOfMemory(p) PROVE RefInv'
  <2>1. PICK l \in {"idle"} : pc' = [pc EXCEPT ![p] = l] /\ pc[p] = "enter"
    BY <1>6 DEF OutOfMemory, Return
  <2>2. Holding' = Holding
    BY <1>h, <2>1
  <2>3. \A q \in Haskell : pc'[q] # "idle" => pc[q] # "idle" \/ queueAlive
    BY <1>t, <2>1
  <2>q. QED
    BY <1>6, <1>f, <2>2, <2>3 DEF OutOfMemory, Return
<1>7. ASSUME NEW p \in Producers, Enter(p) PROVE RefInv'
  <2>1. PICK l \in {"count", "idle"} : pc' = [pc EXCEPT ![p] = l] /\ pc[p] = "enter"
    BY <1>7 DEF Enter, MayEnter, Return
  <2>2. Holding' = Holding
    BY <1>h, <2>1
  <2>3. \A q \in Haskell : pc'[q] # "idle" => pc[q] # "idle" \/ queueAlive
    BY <1>t, <2>1
  <2>q. QED
    BY <1>7, <1>f, <2>2, <2>3 DEF Enter, MayEnter, Return
<1>8. ASSUME NEW p \in Producers, IncCount(p) PROVE RefInv'
  <2>1. PICK l \in {"ticket", "backoff"} : pc' = [pc EXCEPT ![p] = l] /\ pc[p] = "count"
    BY <1>8 DEF IncCount, Fits
  <2>2. Holding' = Holding
    BY <1>h, <2>1
  <2>3. \A q \in Haskell : pc'[q] # "idle" => pc[q] # "idle" \/ queueAlive
    BY <1>t, <2>1
  <2>q. QED
    BY <1>8, <1>f, <2>2, <2>3 DEF IncCount, Fits
<1>9. ASSUME NEW p \in Producers, BackOff(p) PROVE RefInv'
  <2>1. PICK l \in {"leaveFull"} : pc' = [pc EXCEPT ![p] = l] /\ pc[p] = "backoff"
    BY <1>9 DEF BackOff
  <2>2. Holding' = Holding
    BY <1>h, <2>1
  <2>3. \A q \in Haskell : pc'[q] # "idle" => pc[q] # "idle" \/ queueAlive
    BY <1>t, <2>1
  <2>q. QED
    BY <1>9, <1>f, <2>2, <2>3 DEF BackOff
<1>10. ASSUME NEW p \in Producers, TakeTicket(p) PROVE RefInv'
  <2>1. PICK l \in {"store"} : pc' = [pc EXCEPT ![p] = l] /\ pc[p] = "ticket"
    BY <1>10 DEF TakeTicket
  <2>2. Holding' = Holding
    BY <1>h, <2>1
  <2>3. \A q \in Haskell : pc'[q] # "idle" => pc[q] # "idle" \/ queueAlive
    BY <1>t, <2>1
  <2>q. QED
    BY <1>10, <1>f, <2>2, <2>3 DEF TakeTicket
<1>11. ASSUME NEW p \in Producers, Store(p) PROVE RefInv'
  <2>1. PICK l \in {"send"} : pc' = [pc EXCEPT ![p] = l] /\ pc[p] = "store"
    BY <1>11 DEF Store
  <2>2. Holding' = Holding
    BY <1>h, <2>1
  <2>3. \A q \in Haskell : pc'[q] # "idle" => pc[q] # "idle" \/ queueAlive
    BY <1>t, <2>1
  <2>q. QED
    BY <1>11, <1>f, <2>2, <2>3 DEF Store
<1>12. ASSUME NEW p \in Producers, AsyncSend(p) PROVE RefInv'
  <2>1. PICK l \in {"leaveOk"} : pc' = [pc EXCEPT ![p] = l] /\ pc[p] = "send"
    BY <1>12 DEF AsyncSend, Wakes
  <2>2. Holding' = Holding
    BY <1>h, <2>1
  <2>3. \A q \in Haskell : pc'[q] # "idle" => pc[q] # "idle" \/ queueAlive
    BY <1>t, <2>1
  <2>q. QED
    BY <1>12, <1>f, <2>2, <2>3 DEF AsyncSend, Wakes
<1>13. ASSUME NEW p \in Producers, Leave(p) PROVE RefInv'
  <2>1. PICK l \in {"idle", "signalOk", "signalFull"} : pc' = [pc EXCEPT ![p] = l] /\ pc[p] \in {"leaveOk", "leaveFull"}
    BY <1>13 DEF Leave, LastOut, ResultOf, Return
  <2>2. Holding' = Holding
    BY <1>h, <2>1
  <2>3. \A q \in Haskell : pc'[q] # "idle" => pc[q] # "idle" \/ queueAlive
    BY <1>t, <2>1
  <2>q. QED
    BY <1>13, <1>f, <2>2, <2>3 DEF Leave, LastOut, ResultOf, Return
<1>14. ASSUME NEW p \in Producers, Signal(p) PROVE RefInv'
  <2>1. PICK l \in {"idle"} : pc' = [pc EXCEPT ![p] = l] /\ pc[p] \in {"signalOk", "signalFull"}
    BY <1>14 DEF Signal, ResultOf, Return
  <2>2. Holding' = Holding
    BY <1>h, <2>1
  <2>3. \A q \in Haskell : pc'[q] # "idle" => pc[q] # "idle" \/ queueAlive
    BY <1>t, <2>1
  <2>q. QED
    BY <1>14, <1>f, <2>2, <2>3 DEF Signal, ResultOf, Return
<1>15. CASE Callback
  BY <1>15, <1>f, <1>p DEF Callback
<1>16. CASE Dequeue
  BY <1>16, <1>f, <1>p DEF Dequeue, Exchange, NextTail
<1>17. CASE Dispatch
  BY <1>17, <1>f, <1>p DEF Dispatch
<1>18. CASE FatalError
  BY <1>18, <1>f, <1>p DEF FatalError
<1>19. CASE CloseGate
  BY <1>19, <1>f, <1>p DEF CloseGate
<1>20. CASE LockClose
  BY <1>20, <1>f, <1>p DEF LockClose
<1>21. CASE LookInside
  BY <1>21, <1>f, <1>p DEF LookInside, MustWait
<1>22. CASE SleepClose
  BY <1>22, <1>f, <1>p DEF SleepClose
<1>23. CASE SpuriousWake
  BY <1>23, <1>f, <1>p DEF SpuriousWake
<1>24. CASE SealGate
  BY <1>24, <1>f, <1>p DEF SealGate
<1>25. CASE Drain
  BY <1>25, <1>f, <1>p DEF Drain, Exchange, NextTail
<1>26. CASE DrainCount
  BY <1>26, <1>f, <1>p DEF DrainCount
<1>27. CASE Drained
  BY <1>27, <1>f, <1>p DEF Drained
<1>28. CASE ExitRun
  BY <1>28, <1>f, <1>p DEF ExitRun
<1>29. CASE UvClose
  BY <1>29, <1>f, <1>p DEF UvClose
<1>30. CASE ReleaseContext
  BY <1>30, <1>p, <1>n DEF ReleaseContext, RefInv, One
<1>31. CASE FinishRun
  BY <1>31, <1>f, <1>p DEF FinishRun
<1>u. CASE UNCHANGED vars
  BY <1>u, <1>f, <1>p
<1>q. QED
  BY <1>1, <1>2, <1>3, <1>4, <1>5, <1>6, <1>7, <1>8, <1>9, <1>10, <1>11,
     <1>12, <1>13, <1>14, <1>15, <1>16, <1>17, <1>18, <1>19, <1>20, <1>21,
     <1>22, <1>23, <1>24, <1>25, <1>26, <1>27, <1>28, <1>29, <1>30, <1>31,
     <1>u
  DEF Next, ProducerStep, ReactorStep

(* q->count is exact, so that no ticket is drawn without a slot for it. *)
LEMMA CountStep == TypeOK /\ CountInv /\ RingInv /\ [Next]_vars => CountInv'
<1> SUFFICES ASSUME TypeOK, CountInv, RingInv, [Next]_vars PROVE CountInv'
  OBVIOUS
<1> USE SenderAssumption
    DEF vars, senderVars, queueVars, agentVars, prodVars, reactVars, Goto,
        RGoto
<1>t. pc \in [Producers -> PPcs] /\ Streams \subseteq Producers
  BY DEF TypeOK, Producers
<1>n. /\ IsFiniteSet(At({"ticket"})) /\ IsFiniteSet(At({"backoff"}))
      /\ Cardinality(At({"ticket"})) \in Nat /\ Cardinality(At({"backoff"})) \in Nat
      /\ Len(tickets) \in Nat /\ Len(taken) \in Nat /\ count \in Nat
  BY FS_CardinalityType, LenProperties DEF CountInv, TypeOK
<1>o. One(rpc \in {"dispatch", "drainCount"}) \in 0..1
  BY DEF One
<1>m1. ASSUME NEW p \in Producers, NEW l, pc' = [pc EXCEPT ![p] = l]
      PROVE /\ IsFiniteSet(At({"ticket"})') /\ Cardinality(At({"ticket"})') \in Nat
            /\ Cardinality(At({"ticket"})') = Cardinality(At({"ticket"})) + One(l = "ticket") - One(pc[p] = "ticket")
            /\ pc[p] = "ticket" => Cardinality(At({"ticket"})) >= 1
  <2> DEFINE A == At({"ticket"})
  <2>1. A' = A \cup {p} \/ A' = A \ {p}
    BY <1>m1, <1>t DEF At
  <2>2. (p \in A' <=> l = "ticket") /\ (p \in A <=> pc[p] = "ticket")
    BY <1>m1, <1>t DEF At
  <2> HIDE DEF A
  <2>3. /\ IsFiniteSet(A') /\ Cardinality(A') \in Nat
        /\ Cardinality(A') = Cardinality(A) + One(p \in A') - One(p \in A)
        /\ p \in A => Cardinality(A) >= 1
    BY <1>n, <2>1, Counted DEF A
  <2>q. QED
    BY <2>2, <2>3 DEF One, A
<1>m2. ASSUME NEW p \in Producers, NEW l, pc' = [pc EXCEPT ![p] = l]
      PROVE /\ IsFiniteSet(At({"backoff"})') /\ Cardinality(At({"backoff"})') \in Nat
            /\ Cardinality(At({"backoff"})') = Cardinality(At({"backoff"})) + One(l = "backoff") - One(pc[p] = "backoff")
            /\ pc[p] = "backoff" => Cardinality(At({"backoff"})) >= 1
  <2> DEFINE A == At({"backoff"})
  <2>1. A' = A \cup {p} \/ A' = A \ {p}
    BY <1>m2, <1>t DEF At
  <2>2. (p \in A' <=> l = "backoff") /\ (p \in A <=> pc[p] = "backoff")
    BY <1>m2, <1>t DEF At
  <2> HIDE DEF A
  <2>3. /\ IsFiniteSet(A') /\ Cardinality(A') \in Nat
        /\ Cardinality(A') = Cardinality(A) + One(p \in A') - One(p \in A)
        /\ p \in A => Cardinality(A) >= 1
    BY <1>n, <2>1, Counted DEF A
  <2>q. QED
    BY <2>2, <2>3 DEF One, A
<1>k. ASSUME NEW p \in Producers, NEW l, pc' = [pc EXCEPT ![p] = l],
             l \notin {"ticket", "backoff"}, pc[p] \notin {"ticket", "backoff"}
      PROVE At({"ticket"})' = At({"ticket"}) /\ At({"backoff"})' = At({"backoff"})
  BY <1>k, <1>t DEF At
<1>p. ASSUME UNCHANGED pc
      PROVE At({"ticket"})' = At({"ticket"}) /\ At({"backoff"})' = At({"backoff"})
  BY <1>p DEF At
<1>f. ASSUME At({"ticket"})' = At({"ticket"}), At({"backoff"})' = At({"backoff"}),
             UNCHANGED <<tickets, taken, count>>,
             rpc' \in {"dispatch", "drainCount"} <=> rpc \in {"dispatch", "drainCount"}
      PROVE CountInv'
  BY <1>f DEF CountInv, One
<1>e. buffer[tail] # NoMsg => Len(taken) # Len(tickets)
  BY <1>n DEF TypeOK, RingInv, Waiting
<1>b. buffer[tail] \in Messages \cup {NoMsg}
  BY DEF TypeOK
<1>1. ASSUME NEW s \in Streams, Retain(s) PROVE CountInv'
  <2>1. PICK l \in {"idle"} : pc' = [pc EXCEPT ![s] = l] /\ pc[s] = "new"
    BY <1>1 DEF Retain
  <2>2. At({"ticket"})' = At({"ticket"}) /\ At({"backoff"})' = At({"backoff"})
    BY <1>k, <1>t, <2>1
  <2>q. QED
    BY <1>1, <1>f, <2>2 DEF Retain
<1>2. ASSUME NEW s \in Streams, Release(s) PROVE CountInv'
  <2>1. PICK l \in {"gone"} : pc' = [pc EXCEPT ![s] = l] /\ pc[s] = "idle"
    BY <1>2 DEF Release
  <2>2. At({"ticket"})' = At({"ticket"}) /\ At({"backoff"})' = At({"backoff"})
    BY <1>k, <1>t, <2>1
  <2>q. QED
    BY <1>2, <1>f, <2>2 DEF Release
<1>3. CASE CollectAgent
  BY <1>3, <1>f, <1>p DEF CollectAgent
<1>4. ASSUME NEW p \in Producers, Send(p) PROVE CountInv'
  <2>1. UNCHANGED pc \/ (pc' = [pc EXCEPT ![p] = "check"] /\ pc[p] = "idle")
    BY <1>4 DEF Send
  <2>2. At({"ticket"})' = At({"ticket"}) /\ At({"backoff"})' = At({"backoff"})
    BY <1>k, <1>p, <2>1
  <2>q. QED
    BY <1>4, <1>f, <2>2 DEF Send
<1>5. ASSUME NEW p \in Producers, CheckClosed(p) PROVE CountInv'
  <2>1. PICK l \in {"idle", "enter"} : pc' = [pc EXCEPT ![p] = l] /\ pc[p] = "check"
    BY <1>5 DEF CheckClosed, Return
  <2>2. At({"ticket"})' = At({"ticket"}) /\ At({"backoff"})' = At({"backoff"})
    BY <1>k, <1>t, <2>1
  <2>q. QED
    BY <1>5, <1>f, <2>2 DEF CheckClosed, Return
<1>6. ASSUME NEW p \in Producers, OutOfMemory(p) PROVE CountInv'
  <2>1. PICK l \in {"idle"} : pc' = [pc EXCEPT ![p] = l] /\ pc[p] = "enter"
    BY <1>6 DEF OutOfMemory, Return
  <2>2. At({"ticket"})' = At({"ticket"}) /\ At({"backoff"})' = At({"backoff"})
    BY <1>k, <1>t, <2>1
  <2>q. QED
    BY <1>6, <1>f, <2>2 DEF OutOfMemory, Return
<1>7. ASSUME NEW p \in Producers, Enter(p) PROVE CountInv'
  <2>1. PICK l \in {"count", "idle"} : pc' = [pc EXCEPT ![p] = l] /\ pc[p] = "enter"
    BY <1>7 DEF Enter, MayEnter, Return
  <2>2. At({"ticket"})' = At({"ticket"}) /\ At({"backoff"})' = At({"backoff"})
    BY <1>k, <1>t, <2>1
  <2>q. QED
    BY <1>7, <1>f, <2>2 DEF Enter, MayEnter, Return
<1>8. ASSUME NEW p \in Producers, IncCount(p) PROVE CountInv'
  <2>1. PICK l \in {"ticket", "backoff"} : pc' = [pc EXCEPT ![p] = l] /\ pc[p] = "count"
    BY <1>8 DEF IncCount, Fits
  <2>2. /\ IsFiniteSet(At({"ticket"})') /\ Cardinality(At({"ticket"})') \in Nat
        /\ Cardinality(At({"ticket"})') = Cardinality(At({"ticket"})) + One(l = "ticket") - One(pc[p] = "ticket")
    BY <1>m1, <2>1
  <2>3. /\ IsFiniteSet(At({"backoff"})') /\ Cardinality(At({"backoff"})') \in Nat
        /\ Cardinality(At({"backoff"})') = Cardinality(At({"backoff"})) + One(l = "backoff") - One(pc[p] = "backoff")
    BY <1>m2, <2>1
  <2>4. /\ l = "ticket" => count < Max
        /\ count' = count + 1 /\ UNCHANGED <<tickets, taken, rpc>>
    BY <1>8, <1>t, <2>1 DEF IncCount, Fits
  <2>5. count >= (Len(tickets) - Len(taken)) + Cardinality(At({"ticket"}))
    BY <1>n DEF CountInv, One
  <2>6. CASE l = "ticket"
    <3>1. /\ Cardinality(At({"ticket"})') = Cardinality(At({"ticket"})) + 1
          /\ Cardinality(At({"backoff"})') = Cardinality(At({"backoff"}))
      BY <1>n, <2>1, <2>2, <2>3, <2>6 DEF One
    <3>q. QED
      <4>1. (Len(tickets') - Len(taken')) + Cardinality(At({"ticket"})') <= Max
        BY <1>n, <2>4, <2>5, <2>6, <3>1
      <4>2. count' = (Len(tickets') - Len(taken')) + Cardinality(At({"ticket"})')
                     + Cardinality(At({"backoff"})') + One(rpc' \in {"dispatch", "drainCount"})
        BY <1>n, <1>o, <2>4, <3>1 DEF CountInv
      <4>q. QED
        BY <2>2, <2>3, <2>4, <4>1, <4>2 DEF CountInv
  <2>7. CASE l = "backoff"
    <3>1. /\ Cardinality(At({"ticket"})') = Cardinality(At({"ticket"}))
          /\ Cardinality(At({"backoff"})') = Cardinality(At({"backoff"})) + 1
      BY <1>n, <2>1, <2>2, <2>3, <2>7 DEF One
    <3>q. QED
      BY <1>n, <2>2, <2>3, <2>4, <2>7, <3>1, <1>o DEF CountInv
  <2>q. QED
    BY <2>6, <2>7
<1>9. ASSUME NEW p \in Producers, BackOff(p) PROVE CountInv'
  <2>1. PICK l \in {"leaveFull"} : pc' = [pc EXCEPT ![p] = l] /\ pc[p] = "backoff"
    BY <1>9 DEF BackOff
  <2>2. /\ IsFiniteSet(At({"ticket"})') /\ Cardinality(At({"ticket"})') \in Nat
        /\ Cardinality(At({"ticket"})') = Cardinality(At({"ticket"})) + One(l = "ticket") - One(pc[p] = "ticket")
    BY <1>m1, <2>1
  <2>3. /\ IsFiniteSet(At({"backoff"})') /\ Cardinality(At({"backoff"})') \in Nat
        /\ Cardinality(At({"backoff"})') = Cardinality(At({"backoff"})) + One(l = "backoff") - One(pc[p] = "backoff")
    BY <1>m2, <2>1
  <2>4. count' = count - 1 /\ UNCHANGED <<tickets, taken, rpc>>
    BY <1>9 DEF BackOff
  <2>5. /\ Cardinality(At({"ticket"})') = Cardinality(At({"ticket"}))
        /\ Cardinality(At({"backoff"})') = Cardinality(At({"backoff"})) - 1
    BY <1>n, <2>1, <2>2, <2>3 DEF One
  <2>q. QED
    BY <1>n, <1>o, <2>2, <2>3, <2>4, <2>5 DEF CountInv
<1>10. ASSUME NEW p \in Producers, TakeTicket(p) PROVE CountInv'
  <2>1. PICK l \in {"store"} : pc' = [pc EXCEPT ![p] = l] /\ pc[p] = "ticket"
    BY <1>10 DEF TakeTicket
  <2>2. /\ IsFiniteSet(At({"ticket"})') /\ Cardinality(At({"ticket"})') \in Nat
        /\ Cardinality(At({"ticket"})') = Cardinality(At({"ticket"})) + One(l = "ticket") - One(pc[p] = "ticket")
    BY <1>m1, <2>1
  <2>3. /\ IsFiniteSet(At({"backoff"})') /\ Cardinality(At({"backoff"})') \in Nat
        /\ Cardinality(At({"backoff"})') = Cardinality(At({"backoff"})) + One(l = "backoff") - One(pc[p] = "backoff")
    BY <1>m2, <2>1
  <2>4. tickets' = Append(tickets, Msg(p)) /\ UNCHANGED <<count, taken, rpc>>
    BY <1>10 DEF TakeTicket
  <2>5. Len(tickets') = Len(tickets) + 1
    BY <2>4, AppendProperties DEF TypeOK
  <2>6. /\ Cardinality(At({"ticket"})') = Cardinality(At({"ticket"})) - 1
        /\ Cardinality(At({"backoff"})') = Cardinality(At({"backoff"}))
    BY <1>n, <2>1, <2>2, <2>3 DEF One
  <2>q. QED
    BY <1>n, <1>o, <2>2, <2>3, <2>4, <2>5, <2>6 DEF CountInv
<1>11. ASSUME NEW p \in Producers, Store(p) PROVE CountInv'
  <2>1. PICK l \in {"send"} : pc' = [pc EXCEPT ![p] = l] /\ pc[p] = "store"
    BY <1>11 DEF Store
  <2>2. At({"ticket"})' = At({"ticket"}) /\ At({"backoff"})' = At({"backoff"})
    BY <1>k, <1>t, <2>1
  <2>q. QED
    BY <1>11, <1>f, <2>2 DEF Store
<1>12. ASSUME NEW p \in Producers, AsyncSend(p) PROVE CountInv'
  <2>1. PICK l \in {"leaveOk"} : pc' = [pc EXCEPT ![p] = l] /\ pc[p] = "send"
    BY <1>12 DEF AsyncSend, Wakes
  <2>2. At({"ticket"})' = At({"ticket"}) /\ At({"backoff"})' = At({"backoff"})
    BY <1>k, <1>t, <2>1
  <2>q. QED
    BY <1>12, <1>f, <2>2 DEF AsyncSend, Wakes
<1>13. ASSUME NEW p \in Producers, Leave(p) PROVE CountInv'
  <2>1. PICK l \in {"idle", "signalOk", "signalFull"} : pc' = [pc EXCEPT ![p] = l] /\ pc[p] \in {"leaveOk", "leaveFull"}
    BY <1>13 DEF Leave, LastOut, ResultOf, Return
  <2>2. At({"ticket"})' = At({"ticket"}) /\ At({"backoff"})' = At({"backoff"})
    BY <1>k, <1>t, <2>1
  <2>q. QED
    BY <1>13, <1>f, <2>2 DEF Leave, LastOut, ResultOf, Return
<1>14. ASSUME NEW p \in Producers, Signal(p) PROVE CountInv'
  <2>1. PICK l \in {"idle"} : pc' = [pc EXCEPT ![p] = l] /\ pc[p] \in {"signalOk", "signalFull"}
    BY <1>14 DEF Signal, ResultOf, Return
  <2>2. At({"ticket"})' = At({"ticket"}) /\ At({"backoff"})' = At({"backoff"})
    BY <1>k, <1>t, <2>1
  <2>q. QED
    BY <1>14, <1>f, <2>2 DEF Signal, ResultOf, Return
<1>15. CASE Callback
  BY <1>15, <1>f, <1>p DEF Callback
<1>16. CASE Dequeue
  <2>1. UNCHANGED <<pc, tickets, count>> /\ rpc = "dequeue"
    BY <1>16 DEF Dequeue, Exchange
  <2>2. CASE buffer[tail] = NoMsg
    <3>1. taken' = taken /\ rpc' \notin {"dispatch", "drainCount"}
      BY <1>16, <2>2 DEF Dequeue, Exchange
    <3>q. QED
      BY <1>f, <1>p, <2>1, <3>1
  <2>3. CASE buffer[tail] # NoMsg
    <3>1. taken' = Append(taken, buffer[tail]) /\ rpc' = "dispatch"
      BY <1>16, <2>3 DEF Dequeue, Exchange
    <3>2. Len(taken') = Len(taken) + 1
      BY <3>1, <1>b, <2>3, AppendProperties DEF TypeOK
    <3>3. Len(taken) # Len(tickets)
      BY <1>e, <2>3
    <3>4. /\ count = (Len(tickets) - Len(taken)) + Cardinality(At({"ticket"}))
                     + Cardinality(At({"backoff"}))
          /\ Len(taken) <= Len(tickets)
          /\ (Len(tickets) - Len(taken)) + Cardinality(At({"ticket"})) <= Max
      BY <1>n, <2>1 DEF CountInv, One
    <3>5. At({"ticket"})' = At({"ticket"}) /\ At({"backoff"})' = At({"backoff"})
      BY <1>p, <2>1
    <3>6. Len(tickets') = Len(tickets) /\ count' = count
      BY <2>1
    <3>7. /\ Len(taken') <= Len(tickets')
          /\ count' = (Len(tickets') - Len(taken')) + Cardinality(At({"ticket"}))
                     + Cardinality(At({"backoff"})) + 1
          /\ (Len(tickets') - Len(taken')) + Cardinality(At({"ticket"})) <= Max
      <4> DEFINE t == Len(tickets)
                 k == Len(taken)
                 a == Cardinality(At({"ticket"}))
                 c == Cardinality(At({"backoff"}))
      <4>1. /\ t \in Nat /\ k \in Nat /\ a \in Nat /\ c \in Nat /\ count \in Nat
            /\ k # t /\ k <= t /\ count = (t - k) + a + c /\ (t - k) + a <= Max
            /\ Max \in Nat
        BY <1>n, <3>3, <3>4
      <4> HIDE DEF t, k, a, c
      <4>2. k + 1 <= t /\ count = (t - (k + 1)) + a + c + 1 /\ (t - (k + 1)) + a <= Max
        BY <4>1
      <4>q. QED
        BY <3>2, <3>6, <4>2 DEF t, k, a, c
    <3>8. One(rpc' \in {"dispatch", "drainCount"}) = 1
      BY <3>1 DEF One
    <3>q. QED
      BY <1>n, <3>5, <3>7, <3>8 DEF CountInv
  <2>q. QED
    BY <2>2, <2>3
<1>17. CASE Dispatch
  BY <1>17, <1>n, <1>p DEF Dispatch, CountInv, One
<1>18. CASE FatalError
  BY <1>18, <1>f, <1>p DEF FatalError
<1>19. CASE CloseGate
  BY <1>19, <1>f, <1>p DEF CloseGate
<1>20. CASE LockClose
  BY <1>20, <1>f, <1>p DEF LockClose
<1>21. CASE LookInside
  BY <1>21, <1>f, <1>p DEF LookInside, MustWait
<1>22. CASE SleepClose
  BY <1>22, <1>f, <1>p DEF SleepClose
<1>23. CASE SpuriousWake
  BY <1>23, <1>f, <1>p DEF SpuriousWake
<1>24. CASE SealGate
  BY <1>24, <1>f, <1>p DEF SealGate
<1>25. CASE Drain
  <2>1. UNCHANGED <<pc, tickets, count>> /\ rpc = "drain"
    BY <1>25 DEF Drain, Exchange
  <2>2. CASE buffer[tail] = NoMsg
    <3>1. taken' = taken /\ rpc' \notin {"dispatch", "drainCount"}
      BY <1>25, <2>2 DEF Drain, Exchange
    <3>q. QED
      BY <1>f, <1>p, <2>1, <3>1
  <2>3. CASE buffer[tail] # NoMsg
    <3>1. taken' = Append(taken, buffer[tail]) /\ rpc' = "drainCount"
      BY <1>25, <2>3 DEF Drain, Exchange
    <3>2. Len(taken') = Len(taken) + 1
      BY <3>1, <1>b, <2>3, AppendProperties DEF TypeOK
    <3>3. Len(taken) # Len(tickets)
      BY <1>e, <2>3
    <3>4. /\ count = (Len(tickets) - Len(taken)) + Cardinality(At({"ticket"}))
                     + Cardinality(At({"backoff"}))
          /\ Len(taken) <= Len(tickets)
          /\ (Len(tickets) - Len(taken)) + Cardinality(At({"ticket"})) <= Max
      BY <1>n, <2>1 DEF CountInv, One
    <3>5. At({"ticket"})' = At({"ticket"}) /\ At({"backoff"})' = At({"backoff"})
      BY <1>p, <2>1
    <3>6. Len(tickets') = Len(tickets) /\ count' = count
      BY <2>1
    <3>7. /\ Len(taken') <= Len(tickets')
          /\ count' = (Len(tickets') - Len(taken')) + Cardinality(At({"ticket"}))
                     + Cardinality(At({"backoff"})) + 1
          /\ (Len(tickets') - Len(taken')) + Cardinality(At({"ticket"})) <= Max
      <4> DEFINE t == Len(tickets)
                 k == Len(taken)
                 a == Cardinality(At({"ticket"}))
                 c == Cardinality(At({"backoff"}))
      <4>1. /\ t \in Nat /\ k \in Nat /\ a \in Nat /\ c \in Nat /\ count \in Nat
            /\ k # t /\ k <= t /\ count = (t - k) + a + c /\ (t - k) + a <= Max
            /\ Max \in Nat
        BY <1>n, <3>3, <3>4
      <4> HIDE DEF t, k, a, c
      <4>2. k + 1 <= t /\ count = (t - (k + 1)) + a + c + 1 /\ (t - (k + 1)) + a <= Max
        BY <4>1
      <4>q. QED
        BY <3>2, <3>6, <4>2 DEF t, k, a, c
    <3>8. One(rpc' \in {"dispatch", "drainCount"}) = 1
      BY <3>1 DEF One
    <3>q. QED
      BY <1>n, <3>5, <3>7, <3>8 DEF CountInv
  <2>q. QED
    BY <2>2, <2>3
<1>26. CASE DrainCount
  BY <1>26, <1>n, <1>p DEF DrainCount, CountInv, One
<1>27. CASE Drained
  BY <1>27, <1>f, <1>p DEF Drained
<1>28. CASE ExitRun
  BY <1>28, <1>f, <1>p DEF ExitRun
<1>29. CASE UvClose
  BY <1>29, <1>f, <1>p DEF UvClose
<1>30. CASE ReleaseContext
  BY <1>30, <1>f, <1>p DEF ReleaseContext
<1>31. CASE FinishRun
  BY <1>31, <1>f, <1>p DEF FinishRun
<1>u. CASE UNCHANGED vars
  BY <1>u, <1>f, <1>p
<1>q. QED
  BY <1>1, <1>2, <1>3, <1>4, <1>5, <1>6, <1>7, <1>8, <1>9, <1>10, <1>11,
     <1>12, <1>13, <1>14, <1>15, <1>16, <1>17, <1>18, <1>19, <1>20, <1>21,
     <1>22, <1>23, <1>24, <1>25, <1>26, <1>27, <1>28, <1>29, <1>30, <1>31,
     <1>u
  DEF Next, ProducerStep, ReactorStep

(* What the reactor finds at tail is the message of the oldest ticket. *)
LEMMA TailFacts ==
  ASSUME TypeOK, CountInv, RingInv
  PROVE /\ Len(tickets) \in Nat /\ Len(taken) \in Nat /\ Len(taken) <= Len(tickets)
        /\ \A i \in 1..Len(tickets) : tickets[i] \in Messages
        /\ buffer[tail] \in Messages \cup {NoMsg}
        /\ buffer[tail] # NoMsg => /\ Len(taken) + 1 <= Len(tickets)
                                   /\ buffer[tail] = tickets[Len(taken) + 1]
<1> USE SenderAssumption
<1>1. /\ Len(taken) \in Nat /\ Len(tickets) \in Nat /\ Len(taken) <= Len(tickets)
      /\ tickets \in Seq(Messages) /\ tail \in 0..(Max - 1)
  BY LenProperties DEF TypeOK, CountInv
<1>2. \A i \in 1..Len(tickets) : tickets[i] \in Messages
  BY <1>1, ElementOfSeq
<1>3. buffer[tail] \in Messages \cup {NoMsg}
  BY DEF TypeOK
<1>4. ASSUME buffer[tail] # NoMsg
      PROVE Len(taken) + 1 <= Len(tickets) /\ buffer[tail] = tickets[Len(taken) + 1]
  <2>1. Len(taken) # Len(tickets)
    BY <1>1, <1>4 DEF RingInv, Waiting
  <2> DEFINE i == Len(taken) + 1
  <2>2. i \in Waiting /\ Pos(i) = tail
    BY <1>1, <2>1 DEF Waiting, Pos, Wrapped
  <2>3. buffer[tail] = tickets[i]
    BY <1>4, <2>2 DEF RingInv
  <2>q. QED
    BY <1>1, <2>1, <2>3
<1>q. QED
  BY <1>1, <1>2, <1>3, <1>4

(* A message gets its ticket once, in its own call, and OK is the answer of *)
(* a call that drew one.                                                    *)
LEMMA TicketStep == TypeOK /\ CountInv /\ RingInv /\ TicketInv /\ [Next]_vars => TicketInv'
<1> SUFFICES ASSUME TypeOK, CountInv, RingInv, TicketInv, [Next]_vars PROVE TicketInv'
  OBVIOUS
<1> USE SenderAssumption
    DEF vars, senderVars, queueVars, agentVars, prodVars, reactVars, Goto,
        RGoto
<1>t. /\ pc \in [Producers -> PPcs] /\ Streams \subseteq Producers /\ sent \in [Producers -> 0..MaxSends]
      /\ tickets \in Seq(Messages) /\ taken \in Seq(Messages)
  BY DEF TypeOK, Producers
<1>e. /\ Len(tickets) \in Nat /\ Len(taken) \in Nat /\ Len(taken) <= Len(tickets)
      /\ buffer[tail] \in Messages \cup {NoMsg}
      /\ buffer[tail] # NoMsg => /\ Len(taken) + 1 <= Len(tickets)
                                 /\ buffer[tail] = tickets[Len(taken) + 1]
  BY TailFacts
<1>f. ASSUME UNCHANGED <<tickets, taken, sent>>,
             \A q \in Producers : pc'[q] \in DrawnLabels <=> pc[q] \in DrawnLabels,
             \A q \in Producers : pc'[q] \notin {"new", "idle", "gone"} =>
               pc[q] \notin {"new", "idle", "gone"} \/ sent[q] < MaxSends
      PROVE TicketInv'
  <2>1. \A m : Drawn(m)' <=> Drawn(m)
    BY <1>f DEF Drawn
  <2>2. \A p \in Producers : \A n \in 1..MaxSends :
          Drawn(<<p, n>>)' <=> n <= sent'[p] \/ (n = sent'[p] + 1 /\ pc'[p] \in DrawnLabels)
    BY <1>f, <2>1 DEF TicketInv
  <2>3. \A p \in Producers : pc'[p] \notin {"new", "idle", "gone"} => sent'[p] < MaxSends
    BY <1>f DEF TicketInv
  <2>q. QED
    BY <1>f, <2>2, <2>3 DEF TicketInv
<1>g. ASSUME NEW p \in Producers, NEW l, pc' = [pc EXCEPT ![p] = l],
             l \in DrawnLabels <=> pc[p] \in DrawnLabels,
             UNCHANGED <<tickets, taken, sent>>,
             l \notin {"new", "idle", "gone"} =>
               pc[p] \notin {"new", "idle", "gone"} \/ sent[p] < MaxSends
      PROVE TicketInv'
  <2>1. \A q \in Producers : pc'[q] = IF q = p THEN l ELSE pc[q]
    BY <1>g, <1>t
  <2>q. QED
    BY <1>f, <1>g, <2>1
<1>r. ASSUME NEW p \in Producers, pc[p] \in {"leaveOk", "signalOk"}, pc' = [pc EXCEPT ![p] = "idle"],
             sent' = [sent EXCEPT ![p] = @ + 1], UNCHANGED <<tickets, taken>>
      PROVE TicketInv'
  <2>1. \A q \in Producers : pc'[q] = IF q = p THEN "idle" ELSE pc[q]
    BY <1>r, <1>t
  <2>2. \A q \in Producers : sent'[q] = IF q = p THEN sent[q] + 1 ELSE sent[q]
    BY <1>r, <1>t
  <2>3. "idle" \notin DrawnLabels /\ pc[p] \in DrawnLabels
    BY <1>r DEF DrawnLabels
  <2>4. ASSUME NEW q \in Producers, NEW n \in 1..MaxSends
        PROVE Drawn(<<q, n>>)' <=>
            n <= sent'[q] \/ (n = sent'[q] + 1 /\ pc'[q] \in DrawnLabels)
    <3>1. Drawn(<<q, n>>)' <=> Drawn(<<q, n>>)
      BY <1>r DEF Drawn
    <3>2. Drawn(<<q, n>>) <=>
            n <= sent[q] \/ (n = sent[q] + 1 /\ pc[q] \in DrawnLabels)
      BY DEF TicketInv
    <3>3. CASE q = p
      BY <1>t, <2>1, <2>2, <2>3, <3>1, <3>2, <3>3
    <3>4. CASE q # p
      BY <2>1, <2>2, <3>1, <3>2, <3>4
    <3>q. QED
      BY <3>3, <3>4
  <2>5. \A q \in Producers : pc'[q] \notin {"new", "idle", "gone"} => sent'[q] < MaxSends
    BY <2>1, <2>2 DEF TicketInv
  <2>q. QED
    BY <1>r, <2>4, <2>5 DEF TicketInv
<1>x. ASSUME taken' = Append(taken, buffer[tail]), buffer[tail] # NoMsg, UNCHANGED <<tickets, sent, pc>>
      PROVE TicketInv'
  <2>1. /\ Len(taken') = Len(taken) + 1
        /\ \A i \in 1..Len(taken) : taken'[i] = taken[i]
        /\ taken'[Len(taken) + 1] = buffer[tail]
    BY <1>e, <1>t, <1>x, AppendProperties
  <2>2. \A i \in 1..Len(taken') : taken'[i] = tickets[i]
    BY <1>e, <1>x, <2>1 DEF TicketInv
  <2>3. \A m : Drawn(m)' <=> Drawn(m)
    BY <1>x DEF Drawn
  <2>4. \A p \in Producers : \A n \in 1..MaxSends :
          Drawn(<<p, n>>)' <=> n <= sent'[p] \/ (n = sent'[p] + 1 /\ pc'[p] \in DrawnLabels)
    BY <1>x, <2>3 DEF TicketInv
  <2>q. QED
    BY <1>x, <2>2, <2>4 DEF TicketInv
<1>1. ASSUME NEW s \in Streams, Retain(s) PROVE TicketInv'
  <2>1. PICK l \in {"idle"} : pc' = [pc EXCEPT ![s] = l] /\ pc[s] = "new"
    BY <1>1 DEF Retain
  <2>2. l \in DrawnLabels <=> pc[s] \in DrawnLabels
    BY <2>1 DEF DrawnLabels
  <2>3. UNCHANGED <<tickets, taken, sent>>
    BY <1>1, <1>t DEF Retain
  <2>q. QED
    BY <1>g, <1>t, <2>1, <2>2, <2>3
<1>2. ASSUME NEW s \in Streams, Release(s) PROVE TicketInv'
  <2>1. PICK l \in {"gone"} : pc' = [pc EXCEPT ![s] = l] /\ pc[s] = "idle"
    BY <1>2 DEF Release
  <2>2. l \in DrawnLabels <=> pc[s] \in DrawnLabels
    BY <2>1 DEF DrawnLabels
  <2>3. UNCHANGED <<tickets, taken, sent>>
    BY <1>2, <1>t DEF Release
  <2>q. QED
    BY <1>g, <1>t, <2>1, <2>2, <2>3
<1>3. CASE CollectAgent
  BY <1>3, <1>f DEF CollectAgent
<1>4. ASSUME NEW p \in Producers, Send(p) PROVE TicketInv'
  <2>1. UNCHANGED <<tickets, taken, sent>> /\ sent[p] < MaxSends
    BY <1>4, <1>t DEF Send, MaySend
  <2>2. CASE UNCHANGED pc
    BY <1>f, <2>1, <2>2
  <2>3. CASE pc' = [pc EXCEPT ![p] = "check"] /\ pc[p] = "idle"
    <3>1. "check" \in DrawnLabels <=> pc[p] \in DrawnLabels
      BY <2>3 DEF DrawnLabels
    <3>q. QED
      BY <1>g, <2>1, <2>3, <3>1
  <2>q. QED
    BY <1>4, <2>2, <2>3 DEF Send
<1>5. ASSUME NEW p \in Producers, CheckClosed(p) PROVE TicketInv'
  <2>1. PICK l \in {"idle", "enter"} : pc' = [pc EXCEPT ![p] = l] /\ pc[p] = "check"
    BY <1>5 DEF CheckClosed, Return
  <2>2. l \in DrawnLabels <=> pc[p] \in DrawnLabels
    BY <2>1 DEF DrawnLabels
  <2>3. UNCHANGED <<tickets, taken, sent>>
    BY <1>5, <1>t DEF CheckClosed, Return
  <2>q. QED
    BY <1>g, <1>t, <2>1, <2>2, <2>3
<1>6. ASSUME NEW p \in Producers, OutOfMemory(p) PROVE TicketInv'
  <2>1. PICK l \in {"idle"} : pc' = [pc EXCEPT ![p] = l] /\ pc[p] = "enter"
    BY <1>6 DEF OutOfMemory, Return
  <2>2. l \in DrawnLabels <=> pc[p] \in DrawnLabels
    BY <2>1 DEF DrawnLabels
  <2>3. UNCHANGED <<tickets, taken, sent>>
    BY <1>6, <1>t DEF OutOfMemory, Return
  <2>q. QED
    BY <1>g, <1>t, <2>1, <2>2, <2>3
<1>7. ASSUME NEW p \in Producers, Enter(p) PROVE TicketInv'
  <2>1. PICK l \in {"count", "idle"} : pc' = [pc EXCEPT ![p] = l] /\ pc[p] = "enter"
    BY <1>7 DEF Enter, MayEnter, Return
  <2>2. l \in DrawnLabels <=> pc[p] \in DrawnLabels
    BY <2>1 DEF DrawnLabels
  <2>3. UNCHANGED <<tickets, taken, sent>>
    BY <1>7, <1>t DEF Enter, MayEnter, Return
  <2>q. QED
    BY <1>g, <1>t, <2>1, <2>2, <2>3
<1>8. ASSUME NEW p \in Producers, IncCount(p) PROVE TicketInv'
  <2>1. PICK l \in {"ticket", "backoff"} : pc' = [pc EXCEPT ![p] = l] /\ pc[p] = "count"
    BY <1>8 DEF IncCount, Fits
  <2>2. l \in DrawnLabels <=> pc[p] \in DrawnLabels
    BY <2>1 DEF DrawnLabels
  <2>3. UNCHANGED <<tickets, taken, sent>>
    BY <1>8, <1>t DEF IncCount, Fits
  <2>q. QED
    BY <1>g, <1>t, <2>1, <2>2, <2>3
<1>9. ASSUME NEW p \in Producers, BackOff(p) PROVE TicketInv'
  <2>1. PICK l \in {"leaveFull"} : pc' = [pc EXCEPT ![p] = l] /\ pc[p] = "backoff"
    BY <1>9 DEF BackOff
  <2>2. l \in DrawnLabels <=> pc[p] \in DrawnLabels
    BY <2>1 DEF DrawnLabels
  <2>3. UNCHANGED <<tickets, taken, sent>>
    BY <1>9, <1>t DEF BackOff
  <2>q. QED
    BY <1>g, <1>t, <2>1, <2>2, <2>3
<1>10. ASSUME NEW p \in Producers, TakeTicket(p) PROVE TicketInv'
  <2>1. pc' = [pc EXCEPT ![p] = "store"] /\ pc[p] = "ticket" /\ UNCHANGED <<taken, sent>>
        /\ tickets' = Append(tickets, Msg(p))
    BY <1>10 DEF TakeTicket
  <2>2. sent[p] < MaxSends /\ "ticket" \notin DrawnLabels /\ "store" \in DrawnLabels
    BY <2>1 DEF TicketInv, DrawnLabels
  <2>3. Msg(p) \in Messages /\ Msg(p) = <<p, sent[p] + 1>>
    BY <1>t, <2>2 DEF Msg, Messages
  <2>4. ~Drawn(Msg(p))
    <3>1. sent[p] + 1 \in 1..MaxSends
      BY <1>t, <2>2
    <3>2. Drawn(<<p, sent[p] + 1>>) <=>
            sent[p] + 1 <= sent[p] \/ (sent[p] + 1 = sent[p] + 1 /\ pc[p] \in DrawnLabels)
      BY <3>1 DEF TicketInv
    <3>q. QED
      BY <1>t, <2>1, <2>2, <2>3, <3>2
  <2>5. /\ Len(tickets') = Len(tickets) + 1
        /\ \A i \in 1..Len(tickets) : tickets'[i] = tickets[i]
        /\ tickets'[Len(tickets) + 1] = Msg(p)
    BY <1>t, <2>1, <2>3, AppendProperties
  <2>6. \A m : Drawn(m)' <=> Drawn(m) \/ m = Msg(p)
    BY <1>e, <2>5 DEF Drawn
  <2>7. \A q \in Producers : pc'[q] = IF q = p THEN "store" ELSE pc[q]
    BY <1>t, <2>1
  <2>8. ASSUME NEW q \in Producers, NEW n \in 1..MaxSends
        PROVE Drawn(<<q, n>>)' <=>
            n <= sent'[q] \/ (n = sent'[q] + 1 /\ pc'[q] \in DrawnLabels)
    <3>1. Drawn(<<q, n>>)' <=> Drawn(<<q, n>>) \/ <<q, n>> = Msg(p)
      BY <2>6
    <3>2. Drawn(<<q, n>>) <=>
            n <= sent[q] \/ (n = sent[q] + 1 /\ pc[q] \in DrawnLabels)
      BY DEF TicketInv
    <3>3. <<q, n>> = Msg(p) <=> q = p /\ n = sent[p] + 1
      BY <2>3
    <3>4. CASE q = p
      BY <2>1, <2>2, <2>7, <3>1, <3>2, <3>3, <3>4
    <3>5. CASE q # p
      BY <2>1, <2>7, <3>1, <3>2, <3>3, <3>5
    <3>q. QED
      BY <3>4, <3>5
  <2>9. \A i, j \in 1..Len(tickets') : tickets'[i] = tickets'[j] => i = j
    <3> SUFFICES ASSUME NEW i \in 1..Len(tickets'), NEW j \in 1..Len(tickets'), tickets'[i] = tickets'[j]
                 PROVE i = j
      OBVIOUS
    <3>1. \A k \in 1..Len(tickets) : tickets[k] # Msg(p)
      BY <2>4 DEF Drawn
    <3>2. i \in 1..Len(tickets) \/ i = Len(tickets) + 1
      BY <1>e, <2>5
    <3>3. j \in 1..Len(tickets) \/ j = Len(tickets) + 1
      BY <1>e, <2>5
    <3>q. QED
      BY <2>5, <3>1, <3>2, <3>3 DEF TicketInv
  <2>10. \A q \in Producers : pc'[q] \notin {"new", "idle", "gone"} => sent'[q] < MaxSends
    BY <2>1, <2>2, <2>7 DEF TicketInv
  <2>11. \A i \in 1..Len(taken') : taken'[i] = tickets'[i]
    BY <1>e, <2>1, <2>5 DEF TicketInv
  <2>q. QED
    BY <2>8, <2>9, <2>10, <2>11 DEF TicketInv
<1>11. ASSUME NEW p \in Producers, Store(p) PROVE TicketInv'
  <2>1. PICK l \in {"send"} : pc' = [pc EXCEPT ![p] = l] /\ pc[p] = "store"
    BY <1>11 DEF Store
  <2>2. l \in DrawnLabels <=> pc[p] \in DrawnLabels
    BY <2>1 DEF DrawnLabels
  <2>3. UNCHANGED <<tickets, taken, sent>>
    BY <1>11, <1>t DEF Store
  <2>q. QED
    BY <1>g, <1>t, <2>1, <2>2, <2>3
<1>12. ASSUME NEW p \in Producers, AsyncSend(p) PROVE TicketInv'
  <2>1. PICK l \in {"leaveOk"} : pc' = [pc EXCEPT ![p] = l] /\ pc[p] = "send"
    BY <1>12 DEF AsyncSend, Wakes
  <2>2. l \in DrawnLabels <=> pc[p] \in DrawnLabels
    BY <2>1 DEF DrawnLabels
  <2>3. UNCHANGED <<tickets, taken, sent>>
    BY <1>12, <1>t DEF AsyncSend, Wakes
  <2>q. QED
    BY <1>g, <1>t, <2>1, <2>2, <2>3
<1>13. ASSUME NEW p \in Producers, Leave(p) PROVE TicketInv'
  <2>1. UNCHANGED <<tickets, taken>> /\ pc[p] \in {"leaveOk", "leaveFull"}
    BY <1>13 DEF Leave
  <2>2. CASE LastOut
    <3>1. PICK l \in {"signalOk", "signalFull"} :
            /\ pc' = [pc EXCEPT ![p] = l] /\ sent' = sent /\ (l = "signalOk" <=> pc[p] = "leaveOk")
      BY <1>13, <2>1, <2>2 DEF Leave
    <3>2. l \in DrawnLabels <=> pc[p] \in DrawnLabels
      BY <2>1, <3>1 DEF DrawnLabels
    <3>q. QED
      BY <1>g, <2>1, <3>1, <3>2
  <2>3. CASE ~LastOut /\ pc[p] = "leaveOk"
    <3>1. pc' = [pc EXCEPT ![p] = "idle"] /\ sent' = [sent EXCEPT ![p] = @ + 1]
      BY <1>13, <2>3 DEF Leave, Return, ResultOf
    <3>q. QED
      BY <1>r, <2>1, <2>3, <3>1
  <2>4. CASE ~LastOut /\ pc[p] = "leaveFull"
    <3>1. pc' = [pc EXCEPT ![p] = "idle"] /\ sent' = sent
      BY <1>13, <1>t, <2>4 DEF Leave, Return, ResultOf
    <3>2. "idle" \in DrawnLabels <=> pc[p] \in DrawnLabels
      BY <2>4 DEF DrawnLabels
    <3>q. QED
      BY <1>g, <2>1, <3>1, <3>2
  <2>q. QED
    BY <2>1, <2>2, <2>3, <2>4
<1>14. ASSUME NEW p \in Producers, Signal(p) PROVE TicketInv'
  <2>1. UNCHANGED <<tickets, taken>> /\ pc[p] \in {"signalOk", "signalFull"}
    BY <1>14 DEF Signal
  <2>2. CASE pc[p] = "signalOk"
    <3>1. pc' = [pc EXCEPT ![p] = "idle"] /\ sent' = [sent EXCEPT ![p] = @ + 1]
      BY <1>14, <2>2 DEF Signal, Return, ResultOf
    <3>q. QED
      BY <1>r, <2>1, <2>2, <3>1
  <2>3. CASE pc[p] = "signalFull"
    <3>1. pc' = [pc EXCEPT ![p] = "idle"] /\ sent' = sent
      BY <1>14, <1>t, <2>3 DEF Signal, Return, ResultOf
    <3>2. "idle" \in DrawnLabels <=> pc[p] \in DrawnLabels
      BY <2>3 DEF DrawnLabels
    <3>q. QED
      BY <1>g, <2>1, <3>1, <3>2
  <2>q. QED
    BY <2>1, <2>2, <2>3
<1>15. CASE Callback
  BY <1>15, <1>f DEF Callback
<1>16. CASE Dequeue
  <2>1. UNCHANGED <<tickets, sent, pc>>
    BY <1>16 DEF Dequeue, Exchange
  <2>2. CASE buffer[tail] = NoMsg
    BY <1>16, <1>f, <2>1, <2>2 DEF Dequeue, Exchange
  <2>3. CASE buffer[tail] # NoMsg
    BY <1>16, <1>x, <2>1, <2>3 DEF Dequeue, Exchange
  <2>q. QED
    BY <2>2, <2>3
<1>17. CASE Dispatch
  BY <1>17, <1>f DEF Dispatch
<1>18. CASE FatalError
  BY <1>18, <1>f DEF FatalError
<1>19. CASE CloseGate
  BY <1>19, <1>f DEF CloseGate
<1>20. CASE LockClose
  BY <1>20, <1>f DEF LockClose
<1>21. CASE LookInside
  BY <1>21, <1>f DEF LookInside, MustWait
<1>22. CASE SleepClose
  BY <1>22, <1>f DEF SleepClose
<1>23. CASE SpuriousWake
  BY <1>23, <1>f DEF SpuriousWake
<1>24. CASE SealGate
  BY <1>24, <1>f DEF SealGate
<1>25. CASE Drain
  <2>1. UNCHANGED <<tickets, sent, pc>>
    BY <1>25 DEF Drain, Exchange
  <2>2. CASE buffer[tail] = NoMsg
    BY <1>25, <1>f, <2>1, <2>2 DEF Drain, Exchange
  <2>3. CASE buffer[tail] # NoMsg
    BY <1>25, <1>x, <2>1, <2>3 DEF Drain, Exchange
  <2>q. QED
    BY <2>2, <2>3
<1>26. CASE DrainCount
  BY <1>26, <1>f DEF DrainCount
<1>27. CASE Drained
  BY <1>27, <1>f DEF Drained
<1>28. CASE ExitRun
  BY <1>28, <1>f DEF ExitRun
<1>29. CASE UvClose
  BY <1>29, <1>f DEF UvClose
<1>30. CASE ReleaseContext
  BY <1>30, <1>f DEF ReleaseContext
<1>31. CASE FinishRun
  BY <1>31, <1>f DEF FinishRun
<1>u. CASE UNCHANGED vars
  BY <1>u, <1>f
<1>q. QED
  BY <1>1, <1>2, <1>3, <1>4, <1>5, <1>6, <1>7, <1>8, <1>9, <1>10, <1>11,
     <1>12, <1>13, <1>14, <1>15, <1>16, <1>17, <1>18, <1>19, <1>20, <1>21,
     <1>22, <1>23, <1>24, <1>25, <1>26, <1>27, <1>28, <1>29, <1>30, <1>31,
     <1>u
  DEF Next, ProducerStep, ReactorStep

(* Positions in the ring: the next one. *)
LEMMA RingArithmetic ==
  ASSUME NEW t \in 0..(Max - 1), NEW a \in 0..Max
  PROVE /\ Wrapped(t + a) \in 0..(Max - 1)
        /\ a < Max => Wrapped(t + (a + 1)) = IF Wrapped(t + a) + 1 = Max THEN 0
                                             ELSE Wrapped(t + a) + 1
  BY SenderAssumption DEF Wrapped

(* At most Max positions in a row are different slots. *)
LEMMA RingInjective ==
  ASSUME NEW t \in 0..(Max - 1), NEW a \in 0..(Max - 1), NEW b \in 0..(Max - 1),
         Wrapped(t + a) = Wrapped(t + b)
  PROVE a = b
  BY SenderAssumption DEF Wrapped

(* Where the tickets that were not taken have their slots. *)
LEMMA PosFacts ==
  ASSUME TypeOK, CountInv
  PROVE /\ Len(tickets) \in Nat /\ Len(taken) \in Nat /\ Len(taken) <= Len(tickets)
        /\ Len(tickets) - Len(taken) \in 0..Max
        /\ Waiting \subseteq 1..Len(tickets)
        /\ \A i \in Waiting : tickets[i] \in Messages /\ Pos(i) \in 0..(Max - 1)
        /\ \A i, j \in Waiting : Pos(i) = Pos(j) => i = j
        /\ Len(tickets) - Len(taken) < Max =>
             \A i \in Waiting : Pos(i) # Wrapped(tail + (Len(tickets) - Len(taken)))
        /\ At({"ticket"}) # {} => Len(tickets) - Len(taken) < Max
<1> USE SenderAssumption
<1>1. /\ Len(taken) \in Nat /\ Len(tickets) \in Nat /\ Len(taken) <= Len(tickets)
      /\ tickets \in Seq(Messages) /\ tail \in 0..(Max - 1)
  BY LenProperties DEF TypeOK, CountInv
<1> DEFINE T == Len(tickets)
           K == Len(taken)
           c == Cardinality(At({"ticket"}))
<1>2. c \in Nat /\ (T - K) + c <= Max /\ (At({"ticket"}) # {} => c # 0)
  BY FS_CardinalityType, FS_EmptySet DEF CountInv
<1>3. T \in Nat /\ K \in Nat /\ K <= T /\ Waiting = (K + 1)..T
  BY <1>1 DEF Waiting
<1> HIDE DEF T, K, c
<1>4. T - K \in 0..Max /\ (At({"ticket"}) # {} => T - K < Max)
  BY <1>2, <1>3
<1>5. Waiting \subseteq 1..T
  BY <1>3
<1>6. \A i \in Waiting : tickets[i] \in Messages
  BY <1>1, <1>5, ElementOfSeq DEF T
<1>7. \A i \in Waiting : Pos(i) = Wrapped(tail + (i - K - 1))
  BY DEF Pos, K
<1>8. \A i \in Waiting : i - K - 1 \in 0..Max /\ i - K - 1 < T - K /\ i - K - 1 < Max
  BY <1>3, <1>4
<1>9. \A i \in Waiting : Pos(i) \in 0..(Max - 1)
  BY <1>1, <1>7, <1>8, RingArithmetic
<1>10. ASSUME NEW i \in Waiting, NEW j \in Waiting, Pos(i) = Pos(j)
       PROVE i = j
  <2> DEFINE a == i - K - 1
             b == j - K - 1
  <2>0. a \in 0..(Max - 1) /\ b \in 0..(Max - 1) /\ Wrapped(tail + a) = Wrapped(tail + b)
    BY <1>7, <1>8, <1>10
  <2> HIDE DEF a, b
  <2>1. a = b
    BY <1>1, <2>0, RingInjective
  <2>q. QED
    BY <1>3, <2>1 DEF a, b
<1>11. ASSUME T - K < Max, NEW i \in Waiting
       PROVE Pos(i) # Wrapped(tail + (T - K))
  <2> DEFINE a == i - K - 1
             b == T - K
  <2>0. a \in 0..(Max - 1) /\ b \in 0..(Max - 1)
    BY <1>4, <1>8, <1>11
  <2> HIDE DEF a, b
  <2>1. Wrapped(tail + a) = Wrapped(tail + b) => a = b
    BY <1>1, <2>0, RingInjective
  <2>q. QED
    BY <1>3, <1>7, <1>8, <2>1 DEF a, b
<1>q. QED
  BY <1>3, <1>4, <1>5, <1>6, <1>9, <1>10, <1>11 DEF T, K

(* A message is stored into the slot of its ticket, which is empty, and the *)
(* slot the reactor empties is the one of the oldest ticket, also when head *)
(* and tail wrap around.                                                    *)
LEMMA RingStep == TypeOK /\ CountInv /\ TicketInv /\ RingInv /\ [Next]_vars => RingInv'
<1> SUFFICES ASSUME TypeOK, CountInv, TicketInv, RingInv, [Next]_vars PROVE RingInv'
  OBVIOUS
<1> USE SenderAssumption
    DEF vars, senderVars, queueVars, agentVars, prodVars, reactVars, Goto,
        RGoto
<1>t. /\ pc \in [Producers -> PPcs] /\ Streams \subseteq Producers /\ sent \in [Producers -> 0..MaxSends]
      /\ slot \in [Producers -> 0..(Max - 1)]
      /\ tickets \in Seq(Messages) /\ taken \in Seq(Messages) /\ tail \in 0..(Max - 1)
      /\ buffer \in [0..(Max - 1) -> Messages \cup {NoMsg}]
  BY DEF TypeOK, Producers
<1>p. /\ Len(tickets) \in Nat /\ Len(taken) \in Nat /\ Len(taken) <= Len(tickets)
      /\ Len(tickets) - Len(taken) \in 0..Max
      /\ Waiting \subseteq 1..Len(tickets)
      /\ \A i \in Waiting : tickets[i] \in Messages /\ Pos(i) \in 0..(Max - 1)
      /\ \A i, j \in Waiting : Pos(i) = Pos(j) => i = j
  BY PosFacts
<1>m. \A m \in Messages : m[1] \in Producers
  BY DEF Messages
<1>r. /\ head % Max = Wrapped(tail + (Len(tickets) - Len(taken)))
      /\ \A i \in Waiting :
           buffer[Pos(i)] = IF Storing(tickets[i]) THEN NoMsg ELSE tickets[i]
      /\ \A q \in Producers : pc[q] = "store" =>
           \E i \in Waiting : tickets[i] = Msg(q) /\ slot[q] = Pos(i)
      /\ \A j \in 0..(Max - 1) : (\A i \in Waiting : Pos(i) # j) => buffer[j] = NoMsg
  BY DEF RingInv
<1>f. ASSUME UNCHANGED <<buffer, head, tail, tickets, taken>>,
             \A q \in Producers : pc'[q] = "store" <=> pc[q] = "store",
             \A q \in Producers : pc[q] = "store" => sent'[q] = sent[q] /\ slot'[q] = slot[q]
      PROVE RingInv'
  <2>1. Waiting' = Waiting /\ \A i : Pos(i)' = Pos(i)
    BY <1>f DEF Waiting, Pos
  <2>2. \A q \in Producers : pc[q] = "store" => Msg(q)' = Msg(q)
    BY <1>f DEF Msg
  <2>3. \A m \in Messages : Storing(m)' <=> Storing(m)
    BY <1>f, <1>m, <2>2 DEF Storing
  <2>4. head' % Max = Wrapped(tail' + (Len(tickets') - Len(taken')))
    BY <1>f, <1>r
  <2>5. \A i \in Waiting' :
          buffer'[Pos(i)'] = IF Storing(tickets[i])' THEN NoMsg ELSE tickets'[i]
    BY <1>f, <1>p, <1>r, <2>1, <2>3
  <2>6. \A q \in Producers : pc'[q] = "store" =>
          \E i \in Waiting' : tickets'[i] = Msg(q)' /\ slot'[q] = Pos(i)'
    BY <1>f, <1>r, <2>1, <2>2
  <2>7. \A j \in 0..(Max - 1) : (\A i \in Waiting' : Pos(i)' # j) => buffer'[j] = NoMsg
    BY <1>f, <1>r, <2>1
  <2>q. QED
    BY <2>4, <2>5, <2>6, <2>7 DEF RingInv
<1>g. ASSUME NEW p \in Producers, NEW l, pc' = [pc EXCEPT ![p] = l],
             l # "store", pc[p] # "store",
             UNCHANGED <<buffer, head, tail, tickets, taken, slot>>,
             \A q \in Producers : q # p => sent'[q] = sent[q]
      PROVE RingInv'
  <2>1. \A q \in Producers : pc'[q] = IF q = p THEN l ELSE pc[q]
    BY <1>g, <1>t
  <2>q. QED
    BY <1>f, <1>g, <2>1
<1>x. ASSUME buffer[tail] # NoMsg, taken' = Append(taken, buffer[tail]),
             buffer' = [buffer EXCEPT ![tail] = NoMsg], tail' = NextTail,
             UNCHANGED <<head, tickets, pc, sent, slot>>
      PROVE RingInv'
  <2>1. /\ Len(taken) + 1 <= Len(tickets) /\ buffer[tail] \in Messages
    BY <1>x, TailFacts
  <2>2. Len(taken') = Len(taken) + 1
    BY <1>t, <1>x, <2>1, AppendProperties
  <2> DEFINE T == Len(tickets)
             K == Len(taken)
  <2>3. T \in Nat /\ K \in Nat /\ K + 1 <= T /\ T - K \in 1..Max /\ Len(taken') = K + 1 /\ Len(tickets') = T
    BY <1>p, <1>x, <2>1, <2>2
  <2>4. Waiting = (K + 1)..T /\ Waiting' = (K + 2)..T
    BY <2>3 DEF Waiting
  <2>5. \A i : Pos(i) = Wrapped(tail + (i - K - 1))
    BY DEF Pos
  <2>6. \A i : Pos(i)' = Wrapped(tail' + (i - (K + 1) - 1))
    BY <2>3 DEF Pos, Wrapped
  <2> HIDE DEF T, K
  <2>7. tail' = IF tail + 1 >= Max THEN 0 ELSE tail + 1
    BY <1>x DEF NextTail
  <2>8. ASSUME NEW i \in Waiting'
        PROVE i \in Waiting /\ Pos(i)' = Pos(i) /\ i # K + 1
    <3>1. i \in Waiting /\ i # K + 1 /\ i - K - 1 \in 0..Max /\ i - K - 1 >= 1 /\ i - (K + 1) - 1 = (i - K - 1) - 1
      BY <2>3, <2>4
    <3> DEFINE a == i - K - 1
    <3>0. a \in 1..Max
      BY <3>1
    <3> HIDE DEF a
    <3>2. Wrapped(tail' + (a - 1)) = Wrapped(tail + a)
      BY <1>t, <2>7, <3>0 DEF Wrapped
    <3>q. QED
      BY <2>5, <2>6, <2>7, <3>1, <3>2 DEF a
  <2>9. K + 1 \in Waiting /\ Pos(K + 1) = tail
    BY <1>t, <2>3, <2>4, <2>5 DEF Wrapped
  <2>10. Storing(tickets[K + 1]) => FALSE
    BY <1>r, <1>x, <2>9
  <2>11. \A j \in 0..(Max - 1) : buffer'[j] = IF j = tail THEN NoMsg ELSE buffer[j]
    BY <1>t, <1>x
  <2>12. \A q \in Producers : Msg(q)' = Msg(q)
    BY <1>x DEF Msg
  <2>13. \A m \in Messages : Storing(m)' <=> Storing(m)
    BY <1>x, <1>m, <2>12 DEF Storing
  <2>14. head' % Max = Wrapped(tail' + (Len(tickets') - Len(taken')))
    <3> DEFINE a == T - K
    <3>0. a \in 1..Max
      BY <2>3
    <3>2. Len(tickets') - Len(taken') = a - 1
      BY <2>3
    <3>3. head' % Max = Wrapped(tail + a)
      BY <1>r, <1>x DEF T, K
    <3> HIDE DEF a
    <3>1. Wrapped(tail' + (a - 1)) = Wrapped(tail + a)
      BY <1>t, <2>7, <3>0 DEF Wrapped
    <3>q. QED
      BY <2>7, <3>1, <3>2, <3>3
  <2>15. ASSUME NEW i \in Waiting'
         PROVE buffer'[Pos(i)'] = IF Storing(tickets[i])' THEN NoMsg ELSE tickets'[i]
    <3>1. i \in Waiting /\ Pos(i)' = Pos(i) /\ Pos(i) # tail /\ tickets[i] \in Messages
          /\ Pos(i) \in 0..(Max - 1)
      BY <1>p, <2>8, <2>9
    <3>2. buffer[Pos(i)] = IF Storing(tickets[i]) THEN NoMsg ELSE tickets[i]
      BY <1>r, <3>1
    <3>3. Storing(tickets[i])' <=> Storing(tickets[i])
      BY <1>x, <2>13, <3>1
    <3>q. QED
      BY <1>x, <2>11, <3>1, <3>2, <3>3
  <2>16. ASSUME NEW q \in Producers, pc'[q] = "store"
         PROVE \E i \in Waiting' : tickets'[i] = Msg(q)' /\ slot'[q] = Pos(i)'
    <3>1. PICK i \in Waiting : tickets[i] = Msg(q) /\ slot[q] = Pos(i)
      BY <1>r, <1>x, <2>16
    <3>2. Storing(tickets[i])
      BY <1>x, <2>16, <3>1 DEF Storing, Msg
    <3>3. i # K + 1
      BY <2>10, <3>2
    <3>4. i \in Waiting'
      BY <2>3, <2>4, <3>3
    <3>q. QED
      BY <1>x, <2>8, <2>12, <3>1, <3>4
  <2>17. ASSUME NEW j \in 0..(Max - 1), \A i \in Waiting' : Pos(i)' # j
         PROVE buffer'[j] = NoMsg
    <3>1. CASE j = tail
      BY <2>11, <3>1
    <3>2. CASE j # tail
      <4>1. \A i \in Waiting : i = K + 1 \/ i \in Waiting'
        BY <2>3, <2>4
      <4>2. \A i \in Waiting : Pos(i) # j
        BY <2>8, <2>9, <2>17, <3>2, <4>1
      <4>q. QED
        BY <1>r, <2>11, <3>2, <4>2
    <3>q. QED
      BY <3>1, <3>2
  <2>q. QED
    BY <2>14, <2>15, <2>16, <2>17 DEF RingInv
<1>1. ASSUME NEW s \in Streams, Retain(s) PROVE RingInv'
  <2>1. PICK l \in {"idle"} : pc' = [pc EXCEPT ![s] = l] /\ pc[s] = "new"
    BY <1>1 DEF Retain
  <2>2. l # "store" /\ pc[s] # "store"
    BY <2>1
  <2>3. UNCHANGED <<buffer, head, tail, tickets, taken, slot>> /\ \A q \in Producers : q # s => sent'[q] = sent[q]
    BY <1>1, <1>t DEF Retain
  <2>q. QED
    BY <1>g, <1>t, <2>1, <2>2, <2>3
<1>2. ASSUME NEW s \in Streams, Release(s) PROVE RingInv'
  <2>1. PICK l \in {"gone"} : pc' = [pc EXCEPT ![s] = l] /\ pc[s] = "idle"
    BY <1>2 DEF Release
  <2>2. l # "store" /\ pc[s] # "store"
    BY <2>1
  <2>3. UNCHANGED <<buffer, head, tail, tickets, taken, slot>> /\ \A q \in Producers : q # s => sent'[q] = sent[q]
    BY <1>2, <1>t DEF Release
  <2>q. QED
    BY <1>g, <1>t, <2>1, <2>2, <2>3
<1>3. CASE CollectAgent
  BY <1>3, <1>f DEF CollectAgent
<1>4. ASSUME NEW p \in Producers, Send(p) PROVE RingInv'
  <2>1. UNCHANGED <<buffer, head, tail, tickets, taken, slot, sent>> /\ pc[p] = "idle"
    BY <1>4 DEF Send
  <2>2. CASE UNCHANGED pc
    BY <1>f, <2>1, <2>2
  <2>3. CASE pc' = [pc EXCEPT ![p] = "check"]
    BY <1>g, <2>1, <2>3
  <2>q. QED
    BY <1>4, <2>2, <2>3 DEF Send
<1>5. ASSUME NEW p \in Producers, CheckClosed(p) PROVE RingInv'
  <2>1. PICK l \in {"idle", "enter"} : pc' = [pc EXCEPT ![p] = l] /\ pc[p] = "check"
    BY <1>5 DEF CheckClosed, Return
  <2>2. l # "store" /\ pc[p] # "store"
    BY <2>1
  <2>3. UNCHANGED <<buffer, head, tail, tickets, taken, slot>> /\ \A q \in Producers : q # p => sent'[q] = sent[q]
    BY <1>5, <1>t DEF CheckClosed, Return
  <2>q. QED
    BY <1>g, <1>t, <2>1, <2>2, <2>3
<1>6. ASSUME NEW p \in Producers, OutOfMemory(p) PROVE RingInv'
  <2>1. PICK l \in {"idle"} : pc' = [pc EXCEPT ![p] = l] /\ pc[p] = "enter"
    BY <1>6 DEF OutOfMemory, Return
  <2>2. l # "store" /\ pc[p] # "store"
    BY <2>1
  <2>3. UNCHANGED <<buffer, head, tail, tickets, taken, slot>> /\ \A q \in Producers : q # p => sent'[q] = sent[q]
    BY <1>6, <1>t DEF OutOfMemory, Return
  <2>q. QED
    BY <1>g, <1>t, <2>1, <2>2, <2>3
<1>7. ASSUME NEW p \in Producers, Enter(p) PROVE RingInv'
  <2>1. PICK l \in {"count", "idle"} : pc' = [pc EXCEPT ![p] = l] /\ pc[p] = "enter"
    BY <1>7 DEF Enter, MayEnter, Return
  <2>2. l # "store" /\ pc[p] # "store"
    BY <2>1
  <2>3. UNCHANGED <<buffer, head, tail, tickets, taken, slot>> /\ \A q \in Producers : q # p => sent'[q] = sent[q]
    BY <1>7, <1>t DEF Enter, MayEnter, Return
  <2>q. QED
    BY <1>g, <1>t, <2>1, <2>2, <2>3
<1>8. ASSUME NEW p \in Producers, IncCount(p) PROVE RingInv'
  <2>1. PICK l \in {"ticket", "backoff"} : pc' = [pc EXCEPT ![p] = l] /\ pc[p] = "count"
    BY <1>8 DEF IncCount, Fits
  <2>2. l # "store" /\ pc[p] # "store"
    BY <2>1
  <2>3. UNCHANGED <<buffer, head, tail, tickets, taken, slot>> /\ \A q \in Producers : q # p => sent'[q] = sent[q]
    BY <1>8, <1>t DEF IncCount, Fits
  <2>q. QED
    BY <1>g, <1>t, <2>1, <2>2, <2>3
<1>9. ASSUME NEW p \in Producers, BackOff(p) PROVE RingInv'
  <2>1. PICK l \in {"leaveFull"} : pc' = [pc EXCEPT ![p] = l] /\ pc[p] = "backoff"
    BY <1>9 DEF BackOff
  <2>2. l # "store" /\ pc[p] # "store"
    BY <2>1
  <2>3. UNCHANGED <<buffer, head, tail, tickets, taken, slot>> /\ \A q \in Producers : q # p => sent'[q] = sent[q]
    BY <1>9, <1>t DEF BackOff
  <2>q. QED
    BY <1>g, <1>t, <2>1, <2>2, <2>3
<1>10. ASSUME NEW p \in Producers, TakeTicket(p) PROVE RingInv'
  <2>1. /\ pc' = [pc EXCEPT ![p] = "store"] /\ pc[p] = "ticket" /\ UNCHANGED <<buffer, tail, taken, sent>>
        /\ tickets' = Append(tickets, Msg(p)) /\ head' = (head + 1) % Word
        /\ slot' = [slot EXCEPT ![p] = head % Max]
    BY <1>10 DEF TakeTicket
  <2>0. sent[p] < MaxSends /\ sent[p] \in Nat /\ sent[p] + 1 \in 1..MaxSends
    <3>1. sent[p] < MaxSends
      BY <2>1 DEF TicketInv
    <3>q. QED
      BY <1>t, <3>1
  <2>2. Msg(p) \in Messages
    BY <2>0 DEF Msg, Messages
  <2>3. \A i \in 1..Len(tickets) : tickets[i] # Msg(p)
    <3>1. sent[p] + 1 \in 1..MaxSends /\ sent[p] \in Nat
      BY <2>0
    <3>2. "ticket" \notin DrawnLabels
      BY DEF DrawnLabels
    <3>3. Drawn(<<p, sent[p] + 1>>) <=>
            sent[p] + 1 <= sent[p] \/ (sent[p] + 1 = sent[p] + 1 /\ pc[p] \in DrawnLabels)
      BY <3>1 DEF TicketInv
    <3>q. QED
      BY <2>1, <3>1, <3>2, <3>3 DEF Drawn, Msg
  <2>4. /\ Len(tickets') = Len(tickets) + 1
        /\ \A i \in 1..Len(tickets) : tickets'[i] = tickets[i]
        /\ tickets'[Len(tickets) + 1] = Msg(p)
    BY <1>t, <2>1, <2>2, AppendProperties
  <2>5. Len(tickets) - Len(taken) < Max
    <3>1. p \in At({"ticket"})
      BY <2>1 DEF At
    <3>q. QED
      BY <3>1, PosFacts
  <2> DEFINE T == Len(tickets)
             K == Len(taken)
             new == Wrapped(tail + (T - K))
  <2>6. /\ T \in Nat /\ K \in Nat /\ K <= T /\ T - K \in 0..Max /\ T - K < Max /\ Len(tickets') = T + 1
        /\ Len(taken') = K /\ new \in 0..(Max - 1)
    BY <1>p, <1>t, <2>1, <2>4, <2>5, RingArithmetic
  <2>7. Waiting = (K + 1)..T /\ Waiting' = (K + 1)..(T + 1)
    BY <2>1, <2>4 DEF Waiting
  <2>8. \A i : Pos(i)' = Pos(i)
    BY <2>1 DEF Pos
  <2>9. Pos(T + 1) = new
    <3>1. (T + 1) - K - 1 = T - K
      BY <2>6
    <3>q. QED
      BY <3>1 DEF Pos
  <2>10. \A i \in Waiting : Pos(i) # new
    BY <2>5, PosFacts
  <2>11. head % Max = new /\ slot'[p] = new
    BY <1>r, <1>t, <2>1
  <2> HIDE DEF T, K, new
  <2>12. \A i \in Waiting' : (i \in Waiting /\ i # T + 1 /\ tickets'[i] = tickets[i] /\ tickets[i] # Msg(p))
                             \/ (i = T + 1 /\ tickets'[i] = Msg(p))
    <3>1. \A i \in Waiting' : (i \in Waiting /\ i # T + 1) \/ i = T + 1
      BY <2>6, <2>7
    <3>2. \A i \in Waiting : tickets'[i] = tickets[i] /\ tickets[i] # Msg(p)
      BY <1>p, <2>3, <2>4
    <3>3. tickets'[T + 1] = Msg(p)
      BY <2>4 DEF T
    <3>q. QED
      BY <3>1, <3>2, <3>3
  <2>13. T + 1 \in Waiting' /\ Waiting \subseteq Waiting'
    BY <2>6, <2>7
  <2>14. \A q \in Producers : pc'[q] = IF q = p THEN "store" ELSE pc[q]
    BY <1>t, <2>1
  <2>15. \A q \in Producers : Msg(q)' = Msg(q)
    BY <2>1 DEF Msg
  <2>16. Storing(Msg(p))' /\ \A m \in Messages : m # Msg(p) => (Storing(m)' <=> Storing(m))
    <3>1. Storing(Msg(p))'
      BY <2>14, <2>15, <2>1 DEF Storing, Msg
    <3>2. \A m \in Messages : Storing(m)' <=> pc'[m[1]] = "store" /\ m = Msg(m[1])
      BY <1>m, <2>15 DEF Storing
    <3>q. QED
      BY <1>m, <2>14, <3>1, <3>2 DEF Storing
  <2>17. buffer[new] = NoMsg
    BY <1>r, <2>6, <2>10
  <2>18. head' % Max = Wrapped(tail' + (Len(tickets') - Len(taken')))
    <3>1. Max \in Nat \ {0} /\ head \in 0..(Word - 1) /\ head \in Nat
      BY DEF TypeOK
    <3>2. head' % Max = (head + 1) % Max
      <4>1. CASE head + 1 < Word
        <5>1. (head + 1) % Word = head + 1
          <6>1. head % Word = head
            BY <3>1
          <6>2. (head + 1) % Word = IF (head % Word) + 1 = Word THEN 0 ELSE (head % Word) + 1
            BY <3>1, ModSucc
          <6>q. QED
            BY <3>1, <4>1, <6>1, <6>2
        <5>q. QED
          BY <2>1, <5>1
      <4>2. CASE head + 1 = Word
        <5>1. (head + 1) % Word = 0 /\ 0 % Max = 0
          BY <3>1, <4>2
        <5>q. QED
          BY <2>1, <4>2, <5>1
      <4>q. QED
        BY <3>1, <4>1, <4>2
    <3>3. (head + 1) % Max = IF (head % Max) + 1 = Max THEN 0 ELSE (head % Max) + 1
      BY <3>1, ModSucc
    <3> DEFINE a == T - K
    <3>0. a \in 0..Max /\ a < Max
      BY <2>6
    <3>5. Len(tickets') - Len(taken') = a + 1
      BY <2>6
    <3>6. Wrapped(tail + a) = new
      BY DEF new
    <3> HIDE DEF a
    <3>4. Wrapped(tail + (a + 1)) = IF Wrapped(tail + a) + 1 = Max THEN 0 ELSE Wrapped(tail + a) + 1
      BY <1>t, <3>0, RingArithmetic
    <3>q. QED
      BY <2>1, <2>11, <3>2, <3>3, <3>4, <3>5, <3>6
  <2>19. ASSUME NEW i \in Waiting'
         PROVE buffer'[Pos(i)'] = IF Storing(tickets[i])' THEN NoMsg ELSE tickets'[i]
    <3>1. CASE i = T + 1
      <4>1. tickets'[i] = Msg(p) /\ Msg(p)[1] = p
        BY <2>12, <3>1 DEF Msg
      <4>2. Storing(tickets[i])'
        BY <2>14, <2>15, <4>1 DEF Storing
      <4>q. QED
        BY <2>1, <2>8, <2>9, <2>17, <3>1, <4>2
    <3>2. CASE i # T + 1
      <4>1. i \in Waiting /\ tickets'[i] = tickets[i] /\ tickets[i] # Msg(p)
        BY <2>12, <3>2
      <4>2. Storing(tickets[i])' <=> Storing(tickets[i])
        BY <1>p, <2>16, <4>1
      <4>3. buffer[Pos(i)] = IF Storing(tickets[i]) THEN NoMsg ELSE tickets[i]
        BY <1>r, <4>1
      <4>q. QED
        BY <2>1, <2>8, <4>1, <4>2, <4>3
    <3>q. QED
      BY <3>1, <3>2
  <2>20. ASSUME NEW q \in Producers, pc'[q] = "store"
         PROVE \E i \in Waiting' : tickets'[i] = Msg(q)' /\ slot'[q] = Pos(i)'
    <3>1. CASE q = p
      BY <2>8, <2>9, <2>11, <2>12, <2>13, <2>15, <3>1
    <3>2. CASE q # p
      <4>1. pc[q] = "store" /\ slot'[q] = slot[q]
        BY <1>t, <2>1, <2>14, <2>20, <3>2
      <4>2. PICK i \in Waiting : tickets[i] = Msg(q) /\ slot[q] = Pos(i)
        BY <1>r, <4>1
      <4>3. tickets'[i] = tickets[i] /\ i \in Waiting'
        BY <1>p, <2>4, <2>13
      <4>q. QED
        BY <2>8, <2>15, <4>1, <4>2, <4>3
    <3>q. QED
      BY <3>1, <3>2
  <2>21. \A j \in 0..(Max - 1) : (\A i \in Waiting' : Pos(i)' # j) => buffer'[j] = NoMsg
    BY <1>r, <2>1, <2>8, <2>13
  <2>q. QED
    BY <2>18, <2>19, <2>20, <2>21 DEF RingInv
<1>11. ASSUME NEW p \in Producers, Store(p) PROVE RingInv'
  <2>1. /\ pc' = [pc EXCEPT ![p] = "send"] /\ pc[p] = "store" /\ UNCHANGED <<head, tail, tickets, taken, sent, slot>>
        /\ buffer' = [buffer EXCEPT ![slot[p]] = Msg(p)]
    BY <1>11 DEF Store
  <2>2. PICK k \in Waiting : tickets[k] = Msg(p) /\ slot[p] = Pos(k)
    BY <1>r, <2>1
  <2>3. Waiting' = Waiting /\ \A i : Pos(i)' = Pos(i)
    BY <2>1 DEF Waiting, Pos
  <2>4. \A q \in Producers : pc'[q] = IF q = p THEN "send" ELSE pc[q]
    BY <1>t, <2>1
  <2>5. \A q \in Producers : Msg(q)' = Msg(q)
    BY <2>1 DEF Msg
  <2>6. \A m \in Messages : Storing(m)' <=> Storing(m) /\ m # Msg(p)
    <3>1. \A m \in Messages : Storing(m)' <=> pc'[m[1]] = "store" /\ m = Msg(m[1])
      BY <1>m, <2>5 DEF Storing
    <3>2. Msg(p)[1] = p
      BY DEF Msg
    <3>q. QED
      BY <1>m, <2>4, <3>1, <3>2 DEF Storing
  <2>7. \A j \in 0..(Max - 1) : buffer'[j] = IF j = Pos(k) THEN tickets[k] ELSE buffer[j]
    BY <1>t, <2>1, <2>2
  <2>8. \A i \in Waiting : i # k => Pos(i) # Pos(k) /\ tickets[i] # tickets[k]
    BY <1>p DEF TicketInv
  <2>9. head' % Max = Wrapped(tail' + (Len(tickets') - Len(taken')))
    BY <1>r, <2>1
  <2>10. ASSUME NEW i \in Waiting'
         PROVE buffer'[Pos(i)'] = IF Storing(tickets[i])' THEN NoMsg ELSE tickets'[i]
    <3>1. i \in Waiting /\ tickets[i] \in Messages /\ Pos(i) \in 0..(Max - 1) /\ Pos(i)' = Pos(i)
      BY <1>p, <2>3
    <3>2. Storing(tickets[i])' <=> Storing(tickets[i]) /\ tickets[i] # Msg(p)
      BY <2>1, <2>6, <3>1
    <3>3. buffer[Pos(i)] = IF Storing(tickets[i]) THEN NoMsg ELSE tickets[i]
      BY <1>r, <3>1
    <3>4. buffer'[Pos(i)] = IF Pos(i) = Pos(k) THEN tickets[k] ELSE buffer[Pos(i)]
      BY <2>7, <3>1
    <3>5. CASE i = k
      BY <2>1, <2>2, <3>1, <3>2, <3>4, <3>5
    <3>6. CASE i # k
      BY <2>1, <2>2, <2>8, <3>1, <3>2, <3>3, <3>4, <3>6
    <3>q. QED
      BY <3>5, <3>6
  <2>11. \A q \in Producers : pc'[q] = "store" =>
           \E i \in Waiting' : tickets'[i] = Msg(q)' /\ slot'[q] = Pos(i)'
    BY <1>r, <2>1, <2>3, <2>4, <2>5
  <2>12. \A j \in 0..(Max - 1) : (\A i \in Waiting' : Pos(i)' # j) => buffer'[j] = NoMsg
    BY <1>r, <2>3, <2>7
  <2>q. QED
    BY <2>9, <2>10, <2>11, <2>12 DEF RingInv
<1>12. ASSUME NEW p \in Producers, AsyncSend(p) PROVE RingInv'
  <2>1. PICK l \in {"leaveOk"} : pc' = [pc EXCEPT ![p] = l] /\ pc[p] = "send"
    BY <1>12 DEF AsyncSend, Wakes
  <2>2. l # "store" /\ pc[p] # "store"
    BY <2>1
  <2>3. UNCHANGED <<buffer, head, tail, tickets, taken, slot>> /\ \A q \in Producers : q # p => sent'[q] = sent[q]
    BY <1>12, <1>t DEF AsyncSend, Wakes
  <2>q. QED
    BY <1>g, <1>t, <2>1, <2>2, <2>3
<1>13. ASSUME NEW p \in Producers, Leave(p) PROVE RingInv'
  <2>1. UNCHANGED <<buffer, head, tail, tickets, taken, slot>> /\ \A q \in Producers : q # p => sent'[q] = sent[q]
    BY <1>13, <1>t DEF Leave, LastOut, ResultOf, Return
  <2>2. PICK l \in {"idle", "signalOk", "signalFull"} : pc' = [pc EXCEPT ![p] = l]
    BY <1>13 DEF Leave, LastOut, ResultOf, Return
  <2>3. l # "store" /\ pc[p] # "store"
    BY <1>13, <2>2 DEF Leave, LastOut, ResultOf, Return
  <2>q. QED
    BY <1>g, <2>1, <2>2, <2>3
<1>14. ASSUME NEW p \in Producers, Signal(p) PROVE RingInv'
  <2>1. UNCHANGED <<buffer, head, tail, tickets, taken, slot>> /\ \A q \in Producers : q # p => sent'[q] = sent[q]
    BY <1>14, <1>t DEF Signal, ResultOf, Return
  <2>2. PICK l \in {"idle", "signalOk", "signalFull"} : pc' = [pc EXCEPT ![p] = l]
    BY <1>14 DEF Signal, ResultOf, Return
  <2>3. l # "store" /\ pc[p] # "store"
    BY <1>14, <2>2 DEF Signal, ResultOf, Return
  <2>q. QED
    BY <1>g, <2>1, <2>2, <2>3
<1>15. CASE Callback
  BY <1>15, <1>f DEF Callback
<1>16. CASE Dequeue
  <2>1. UNCHANGED <<head, tickets, pc, sent, slot>>
    BY <1>16 DEF Dequeue, Exchange
  <2>2. CASE buffer[tail] = NoMsg
    BY <1>16, <1>f, <2>1, <2>2 DEF Dequeue, Exchange
  <2>3. CASE buffer[tail] # NoMsg
    BY <1>16, <1>x, <2>1, <2>3 DEF Dequeue, Exchange
  <2>q. QED
    BY <2>2, <2>3
<1>17. CASE Dispatch
  BY <1>17, <1>f DEF Dispatch
<1>18. CASE FatalError
  BY <1>18, <1>f DEF FatalError
<1>19. CASE CloseGate
  BY <1>19, <1>f DEF CloseGate
<1>20. CASE LockClose
  BY <1>20, <1>f DEF LockClose
<1>21. CASE LookInside
  BY <1>21, <1>f DEF LookInside, MustWait
<1>22. CASE SleepClose
  BY <1>22, <1>f DEF SleepClose
<1>23. CASE SpuriousWake
  BY <1>23, <1>f DEF SpuriousWake
<1>24. CASE SealGate
  BY <1>24, <1>f DEF SealGate
<1>25. CASE Drain
  <2>1. UNCHANGED <<head, tickets, pc, sent, slot>>
    BY <1>25 DEF Drain, Exchange
  <2>2. CASE buffer[tail] = NoMsg
    BY <1>25, <1>f, <2>1, <2>2 DEF Drain, Exchange
  <2>3. CASE buffer[tail] # NoMsg
    BY <1>25, <1>x, <2>1, <2>3 DEF Drain, Exchange
  <2>q. QED
    BY <2>2, <2>3
<1>26. CASE DrainCount
  BY <1>26, <1>f DEF DrainCount
<1>27. CASE Drained
  BY <1>27, <1>f DEF Drained
<1>28. CASE ExitRun
  BY <1>28, <1>f DEF ExitRun
<1>29. CASE UvClose
  BY <1>29, <1>f DEF UvClose
<1>30. CASE ReleaseContext
  BY <1>30, <1>f DEF ReleaseContext
<1>31. CASE FinishRun
  BY <1>31, <1>f DEF FinishRun
<1>u. CASE UNCHANGED vars
  BY <1>u, <1>f
<1>q. QED
  BY <1>1, <1>2, <1>3, <1>4, <1>5, <1>6, <1>7, <1>8, <1>9, <1>10, <1>11,
     <1>12, <1>13, <1>14, <1>15, <1>16, <1>17, <1>18, <1>19, <1>20, <1>21,
     <1>22, <1>23, <1>24, <1>25, <1>26, <1>27, <1>28, <1>29, <1>30, <1>31,
     <1>u
  DEF Next, ProducerStep, ReactorStep

(* The types of the flags and program counters, of what the threads keep,   *)
(* and of the queue; the counters of TypeOK are in the other invariants.    *)
Flags ==
  /\ closedBit \in BOOLEAN /\ asyncSet \in BOOLEAN /\ mutex \in BOOLEAN
  /\ pending \in BOOLEAN /\ handle \in BOOLEAN /\ queueAlive \in BOOLEAN
  /\ status \in {"running", "stopping", "stopped"}
  /\ statusOwner \in Haskell \cup {Nobody}
  /\ rpc \in RPcs /\ stopped \in BOOLEAN

Threads ==
  /\ pc \in [Producers -> PPcs] /\ sent \in [Producers -> 0..MaxSends]
  /\ slot \in [Producers -> 0..(Max - 1)]
  /\ answer \in [Producers -> {"none", "ok", "full", "oom", "closed"}]

Queue ==
  /\ buffer \in [0..(Max - 1) -> Messages \cup {NoMsg}]
  /\ head \in 0..(Word - 1) /\ tail \in 0..(Max - 1)
  /\ got \in Messages \cup {NoMsg}
  /\ tickets \in Seq(Messages) /\ taken \in Seq(Messages)

(* The flags and the program counter of the reactor keep their types. *)
LEMMA FlagStep == TypeOK /\ [Next]_vars => Flags'
<1> SUFFICES ASSUME TypeOK, [Next]_vars PROVE Flags'
  OBVIOUS
<1> USE SenderAssumption
    DEF vars, senderVars, queueVars, agentVars, prodVars, reactVars, Goto,
        RGoto
<1>t. Flags /\ Streams \subseteq Producers
  BY DEF TypeOK, Flags, Producers
<1>f. ASSUME UNCHANGED <<closedBit, asyncSet, mutex, pending, handle, queueAlive, status,
                         statusOwner, stopped>>, rpc' \in RPcs
      PROVE Flags'
  BY <1>f, <1>t DEF Flags
<1>k. ASSUME UNCHANGED <<closedBit, asyncSet, mutex, pending, handle, queueAlive, stopped>>,
             rpc' \in RPcs, status' \in {"running", "stopping", "stopped"},
             statusOwner' \in Haskell \cup {Nobody}
      PROVE Flags'
  BY <1>f, <1>k, <1>t DEF Flags
<1>l. RPcs = {"poll", "dequeue", "dispatch", "close", "relock", "look", "sleep",
              "asleep", "sealed", "drain", "drainCount", "drained", "exit",
              "uvClose", "release", "finish", "done"}
  BY DEF RPcs
<1>s. rpc \in RPcs /\ status \in {"running", "stopping", "stopped"} /\ statusOwner \in Haskell \cup {Nobody}
  BY <1>t DEF Flags
<1>1. ASSUME NEW s \in Streams, Retain(s) PROVE Flags'
  <2>1. rpc' \in RPcs
    BY <1>1, <1>l, <1>s DEF Retain
  <2>q. QED
    BY <1>1, <1>f, <2>1 DEF Retain
<1>2. ASSUME NEW s \in Streams, Release(s) PROVE Flags'
  <2>1. rpc' \in RPcs
    BY <1>2, <1>l, <1>s DEF Release
  <2>q. QED
    BY <1>2, <1>f, <2>1 DEF Release
<1>3. CASE CollectAgent
  <2>1. UNCHANGED <<closedBit, asyncSet, mutex, pending, handle, stopped, status, statusOwner>> /\ queueAlive' = FALSE
    BY <1>3 DEF CollectAgent
  <2>2. rpc' \in RPcs
    BY <1>3, <1>l, <1>s DEF CollectAgent
  <2>q. QED
    BY <1>t, <2>1, <2>2 DEF Flags
<1>4. ASSUME NEW p \in Producers, Send(p) PROVE Flags'
  <2>1. UNCHANGED <<closedBit, asyncSet, mutex, pending, handle, queueAlive, stopped>>
    BY <1>4 DEF Send, MaySend
  <2>2. rpc' \in RPcs
    BY <1>4, <1>l, <1>s DEF Send, MaySend
  <2>3. status' \in {"running", "stopping", "stopped"} /\ statusOwner' \in Haskell \cup {Nobody}
    BY <1>4, <1>s DEF Send, MaySend
  <2>q. QED
    BY <1>k, <2>1, <2>2, <2>3
<1>5. ASSUME NEW p \in Producers, CheckClosed(p) PROVE Flags'
  <2>1. UNCHANGED <<closedBit, asyncSet, mutex, pending, handle, queueAlive, stopped>>
    BY <1>5 DEF CheckClosed, Return
  <2>2. rpc' \in RPcs
    BY <1>5, <1>l, <1>s DEF CheckClosed, Return
  <2>3. status' \in {"running", "stopping", "stopped"} /\ statusOwner' \in Haskell \cup {Nobody}
    BY <1>5, <1>s DEF CheckClosed, Return
  <2>q. QED
    BY <1>k, <2>1, <2>2, <2>3
<1>6. ASSUME NEW p \in Producers, OutOfMemory(p) PROVE Flags'
  <2>1. UNCHANGED <<closedBit, asyncSet, mutex, pending, handle, queueAlive, stopped>>
    BY <1>6 DEF OutOfMemory, Return
  <2>2. rpc' \in RPcs
    BY <1>6, <1>l, <1>s DEF OutOfMemory, Return
  <2>3. status' \in {"running", "stopping", "stopped"} /\ statusOwner' \in Haskell \cup {Nobody}
    BY <1>6, <1>s DEF OutOfMemory, Return
  <2>q. QED
    BY <1>k, <2>1, <2>2, <2>3
<1>7. ASSUME NEW p \in Producers, Enter(p) PROVE Flags'
  <2>1. UNCHANGED <<closedBit, asyncSet, mutex, pending, handle, queueAlive, stopped>>
    BY <1>7 DEF Enter, MayEnter, Return
  <2>2. rpc' \in RPcs
    BY <1>7, <1>l, <1>s DEF Enter, MayEnter, Return
  <2>3. status' \in {"running", "stopping", "stopped"} /\ statusOwner' \in Haskell \cup {Nobody}
    BY <1>7, <1>s DEF Enter, MayEnter, Return
  <2>q. QED
    BY <1>k, <2>1, <2>2, <2>3
<1>8. ASSUME NEW p \in Producers, IncCount(p) PROVE Flags'
  <2>1. rpc' \in RPcs
    BY <1>8, <1>l, <1>s DEF IncCount, Fits
  <2>q. QED
    BY <1>8, <1>f, <2>1 DEF IncCount, Fits
<1>9. ASSUME NEW p \in Producers, BackOff(p) PROVE Flags'
  <2>1. rpc' \in RPcs
    BY <1>9, <1>l, <1>s DEF BackOff
  <2>q. QED
    BY <1>9, <1>f, <2>1 DEF BackOff
<1>10. ASSUME NEW p \in Producers, TakeTicket(p) PROVE Flags'
  <2>1. rpc' \in RPcs
    BY <1>10, <1>l, <1>s DEF TakeTicket
  <2>q. QED
    BY <1>10, <1>f, <2>1 DEF TakeTicket
<1>11. ASSUME NEW p \in Producers, Store(p) PROVE Flags'
  <2>1. rpc' \in RPcs
    BY <1>11, <1>l, <1>s DEF Store
  <2>q. QED
    BY <1>11, <1>f, <2>1 DEF Store
<1>12. ASSUME NEW p \in Producers, AsyncSend(p) PROVE Flags'
  <2>1. UNCHANGED <<closedBit, asyncSet, mutex, handle, queueAlive, stopped, status, statusOwner>> /\ pending' = TRUE
    BY <1>12 DEF AsyncSend, Wakes
  <2>2. rpc' \in RPcs
    BY <1>12, <1>l, <1>s DEF AsyncSend, Wakes
  <2>q. QED
    BY <1>t, <2>1, <2>2 DEF Flags
<1>13. ASSUME NEW p \in Producers, Leave(p) PROVE Flags'
  <2>1. UNCHANGED <<closedBit, asyncSet, mutex, pending, handle, queueAlive, stopped>>
    BY <1>13 DEF Leave, LastOut, ResultOf, Return
  <2>2. rpc' \in RPcs
    BY <1>13, <1>l, <1>s DEF Leave, LastOut, ResultOf, Return
  <2>3. status' \in {"running", "stopping", "stopped"} /\ statusOwner' \in Haskell \cup {Nobody}
    BY <1>13, <1>s DEF Leave, LastOut, ResultOf, Return
  <2>q. QED
    BY <1>k, <2>1, <2>2, <2>3
<1>14. ASSUME NEW p \in Producers, Signal(p) PROVE Flags'
  <2>1. UNCHANGED <<closedBit, asyncSet, mutex, pending, handle, queueAlive, stopped>>
    BY <1>14 DEF Signal, ResultOf, Return
  <2>2. rpc' \in RPcs
    BY <1>14, <1>l, <1>s DEF Signal, ResultOf, Return
  <2>3. status' \in {"running", "stopping", "stopped"} /\ statusOwner' \in Haskell \cup {Nobody}
    BY <1>14, <1>s DEF Signal, ResultOf, Return
  <2>q. QED
    BY <1>k, <2>1, <2>2, <2>3
<1>15. CASE Callback
  <2>1. UNCHANGED <<closedBit, asyncSet, mutex, handle, queueAlive, stopped, status, statusOwner>> /\ pending' = FALSE
    BY <1>15 DEF Callback
  <2>2. rpc' \in RPcs
    BY <1>15, <1>l, <1>s DEF Callback
  <2>q. QED
    BY <1>t, <2>1, <2>2 DEF Flags
<1>16. CASE Dequeue
  <2>1. rpc' \in RPcs
    BY <1>16, <1>l, <1>s DEF Dequeue, Exchange, NextTail
  <2>q. QED
    BY <1>16, <1>f, <2>1 DEF Dequeue, Exchange, NextTail
<1>17. CASE Dispatch
  <2>1. rpc' \in RPcs
    BY <1>17, <1>l, <1>s DEF Dispatch
  <2>q. QED
    BY <1>17, <1>f, <2>1 DEF Dispatch
<1>18. CASE FatalError
  <2>1. rpc' \in RPcs
    BY <1>18, <1>l, <1>s DEF FatalError
  <2>q. QED
    BY <1>18, <1>f, <2>1 DEF FatalError
<1>19. CASE CloseGate
  <2>1. UNCHANGED <<asyncSet, mutex, pending, handle, queueAlive, stopped, status, statusOwner>> /\ closedBit' = TRUE
    BY <1>19 DEF CloseGate
  <2>2. rpc' \in RPcs
    BY <1>19, <1>l, <1>s DEF CloseGate
  <2>q. QED
    BY <1>t, <2>1, <2>2 DEF Flags
<1>20. CASE LockClose
  <2>1. UNCHANGED <<closedBit, asyncSet, pending, handle, queueAlive, stopped, status, statusOwner>> /\ mutex' = TRUE
    BY <1>20 DEF LockClose
  <2>2. rpc' \in RPcs
    BY <1>20, <1>l, <1>s DEF LockClose
  <2>q. QED
    BY <1>t, <2>1, <2>2 DEF Flags
<1>21. CASE LookInside
  <2>1. rpc' \in RPcs
    BY <1>21, <1>l, <1>s DEF LookInside, MustWait
  <2>q. QED
    BY <1>21, <1>f, <2>1 DEF LookInside, MustWait
<1>22. CASE SleepClose
  <2>1. UNCHANGED <<closedBit, asyncSet, pending, handle, queueAlive, stopped, status, statusOwner>> /\ mutex' = FALSE
    BY <1>22 DEF SleepClose
  <2>2. rpc' \in RPcs
    BY <1>22, <1>l, <1>s DEF SleepClose
  <2>q. QED
    BY <1>t, <2>1, <2>2 DEF Flags
<1>23. CASE SpuriousWake
  <2>1. rpc' \in RPcs
    BY <1>23, <1>l, <1>s DEF SpuriousWake
  <2>q. QED
    BY <1>23, <1>f, <2>1 DEF SpuriousWake
<1>24. CASE SealGate
  <2>1. UNCHANGED <<closedBit, pending, handle, queueAlive, stopped, status, statusOwner>> /\ asyncSet' = FALSE /\ mutex' = FALSE
    BY <1>24 DEF SealGate
  <2>2. rpc' \in RPcs
    BY <1>24, <1>l, <1>s DEF SealGate
  <2>q. QED
    BY <1>t, <2>1, <2>2 DEF Flags
<1>25. CASE Drain
  <2>1. rpc' \in RPcs
    BY <1>25, <1>l, <1>s DEF Drain, Exchange, NextTail
  <2>q. QED
    BY <1>25, <1>f, <2>1 DEF Drain, Exchange, NextTail
<1>26. CASE DrainCount
  <2>1. rpc' \in RPcs
    BY <1>26, <1>l, <1>s DEF DrainCount
  <2>q. QED
    BY <1>26, <1>f, <2>1 DEF DrainCount
<1>27. CASE Drained
  <2>1. UNCHANGED <<closedBit, asyncSet, mutex, pending, handle, queueAlive, status, statusOwner>> /\ stopped' = TRUE
    BY <1>27 DEF Drained
  <2>2. rpc' \in RPcs
    BY <1>27, <1>l, <1>s DEF Drained
  <2>q. QED
    BY <1>t, <2>1, <2>2 DEF Flags
<1>28. CASE ExitRun
  <2>1. UNCHANGED <<closedBit, asyncSet, mutex, pending, handle, queueAlive, stopped>>
    BY <1>28 DEF ExitRun
  <2>2. rpc' \in RPcs
    BY <1>28, <1>l, <1>s DEF ExitRun
  <2>3. status' \in {"running", "stopping", "stopped"} /\ statusOwner' \in Haskell \cup {Nobody}
    BY <1>28, <1>s DEF ExitRun
  <2>q. QED
    BY <1>k, <2>1, <2>2, <2>3
<1>29. CASE UvClose
  <2>1. UNCHANGED <<closedBit, asyncSet, mutex, pending, queueAlive, stopped, status, statusOwner>> /\ handle' = FALSE
    BY <1>29 DEF UvClose
  <2>2. rpc' \in RPcs
    BY <1>29, <1>l, <1>s DEF UvClose
  <2>q. QED
    BY <1>t, <2>1, <2>2 DEF Flags
<1>30. CASE ReleaseContext
  <2>1. rpc' \in RPcs
    BY <1>30, <1>l, <1>s DEF ReleaseContext
  <2>q. QED
    BY <1>30, <1>f, <2>1 DEF ReleaseContext
<1>31. CASE FinishRun
  <2>1. UNCHANGED <<closedBit, asyncSet, mutex, pending, handle, queueAlive, stopped>>
    BY <1>31 DEF FinishRun
  <2>2. rpc' \in RPcs
    BY <1>31, <1>l, <1>s DEF FinishRun
  <2>3. status' \in {"running", "stopping", "stopped"} /\ statusOwner' \in Haskell \cup {Nobody}
    BY <1>31, <1>s DEF FinishRun
  <2>q. QED
    BY <1>k, <2>1, <2>2, <2>3
<1>u. CASE UNCHANGED vars
  BY <1>u, <1>f, <1>s
<1>q. QED
  BY <1>1, <1>2, <1>3, <1>4, <1>5, <1>6, <1>7, <1>8, <1>9, <1>10, <1>11,
     <1>12, <1>13, <1>14, <1>15, <1>16, <1>17, <1>18, <1>19, <1>20, <1>21,
     <1>22, <1>23, <1>24, <1>25, <1>26, <1>27, <1>28, <1>29, <1>30, <1>31,
     <1>u
  DEF Next, ProducerStep, ReactorStep

(* What the threads keep has its type; no call goes beyond the bound on     *)
(* messages.                                                                *)
LEMMA ThreadStep == TypeOK /\ TicketInv /\ [Next]_vars => Threads'
<1> SUFFICES ASSUME TypeOK, TicketInv, [Next]_vars PROVE Threads'
  OBVIOUS
<1> USE SenderAssumption
    DEF vars, senderVars, queueVars, agentVars, prodVars, reactVars, Goto,
        RGoto
<1>t. Threads /\ Streams \subseteq Producers
  BY DEF TypeOK, Threads, Producers
<1>h. Threads => /\ pc \in [Producers -> PPcs] /\ sent \in [Producers -> 0..MaxSends]
                 /\ slot \in [Producers -> 0..(Max - 1)]
                 /\ answer \in [Producers -> {"none", "ok", "full", "oom", "closed"}]
  BY DEF Threads
<1>l. PPcs = {"new", "idle", "gone", "check", "enter", "count", "backoff",
              "ticket", "store", "send", "leaveOk", "leaveFull", "signalOk",
              "signalFull"}
  BY DEF PPcs
<1>f. ASSUME NEW p \in Producers, NEW l \in PPcs, pc' = [pc EXCEPT ![p] = l],
             UNCHANGED <<sent, slot, answer>>
      PROVE Threads'
  BY <1>f, <1>h, <1>t DEF Threads
<1>r. ASSUME NEW p \in Producers, NEW r \in {"none", "ok", "full", "oom", "closed"}, Return(p, r),
             slot' = slot, r = "ok" => sent[p] < MaxSends
      PROVE Threads'
  <2>1. pc' \in [Producers -> PPcs]
    BY <1>h, <1>l, <1>r, <1>t DEF Return
  <2>2. answer' \in [Producers -> {"none", "ok", "full", "oom", "closed"}]
    BY <1>h, <1>r, <1>t DEF Return
  <2>3. sent' \in [Producers -> 0..MaxSends]
    <3>1. (IF r = "ok" THEN sent[p] + 1 ELSE sent[p]) \in 0..MaxSends
      BY <1>h, <1>r, <1>t
    <3>q. QED
      BY <1>h, <1>r, <1>t, <3>1 DEF Return
  <2>q. QED
    BY <1>h, <1>r, <1>t, <2>1, <2>2, <2>3 DEF Threads
<1>b. \A p \in Producers : pc[p] \notin {"new", "idle", "gone"} => sent[p] < MaxSends
  BY DEF TicketInv
<1>i. ASSUME UNCHANGED prodVars PROVE Threads'
  BY <1>i, <1>t DEF Threads
<1>1. ASSUME NEW s \in Streams, Retain(s) PROVE Threads'
  <2>1. PICK l \in {"idle"} : pc' = [pc EXCEPT ![s] = l] /\ pc[s] = "new"
    BY <1>1 DEF Retain
  <2>2. UNCHANGED <<sent, slot, answer>> /\ l \in PPcs
    BY <1>1, <1>l, <2>1 DEF Retain
  <2>q. QED
    BY <1>f, <1>t, <2>1, <2>2
<1>2. ASSUME NEW s \in Streams, Release(s) PROVE Threads'
  <2>1. PICK l \in {"gone"} : pc' = [pc EXCEPT ![s] = l] /\ pc[s] = "idle"
    BY <1>2 DEF Release
  <2>2. UNCHANGED <<sent, slot, answer>> /\ l \in PPcs
    BY <1>2, <1>l, <2>1 DEF Release
  <2>q. QED
    BY <1>f, <1>t, <2>1, <2>2
<1>3. CASE CollectAgent
  BY <1>3, <1>i DEF CollectAgent
<1>4. ASSUME NEW p \in Producers, Send(p) PROVE Threads'
  <2>1. pc' \in [Producers -> PPcs]
    BY <1>4, <1>h, <1>l, <1>t DEF Send
  <2>2. answer' \in [Producers -> {"none", "ok", "full", "oom", "closed"}]
    BY <1>4, <1>h, <1>t DEF Send
  <2>q. QED
    BY <1>4, <1>h, <1>t, <2>1, <2>2 DEF Send, Threads
<1>5. ASSUME NEW p \in Producers, CheckClosed(p) PROVE Threads'
  <2>1. CASE closedBit
    <3>1. Return(p, "closed") /\ slot' = slot
      BY <1>5, <2>1 DEF CheckClosed
    <3>q. QED
      BY <1>r, <3>1
  <2>2. CASE ~(closedBit)
    <3>1. pc' = [pc EXCEPT ![p] = "enter"] /\ UNCHANGED <<sent, slot, answer>> /\ "enter" \in PPcs
      BY <1>5, <1>l, <2>2 DEF CheckClosed
    <3>q. QED
      BY <1>f, <3>1
  <2>q. QED
    BY <2>1, <2>2
<1>6. ASSUME NEW p \in Producers, OutOfMemory(p) PROVE Threads'
  BY <1>6, <1>r DEF OutOfMemory
<1>7. ASSUME NEW p \in Producers, Enter(p) PROVE Threads'
  <2>1. CASE ~MayEnter
    <3>1. Return(p, "closed") /\ slot' = slot
      BY <1>7, <2>1 DEF Enter
    <3>q. QED
      BY <1>r, <3>1
  <2>2. CASE ~(~MayEnter)
    <3>1. pc' = [pc EXCEPT ![p] = "count"] /\ UNCHANGED <<sent, slot, answer>> /\ "count" \in PPcs
      BY <1>7, <1>l, <2>2 DEF Enter
    <3>q. QED
      BY <1>f, <3>1
  <2>q. QED
    BY <2>1, <2>2
<1>8. ASSUME NEW p \in Producers, IncCount(p) PROVE Threads'
  <2>1. PICK l \in {"ticket", "backoff"} : pc' = [pc EXCEPT ![p] = l] /\ pc[p] = "count"
    BY <1>8 DEF IncCount, Fits
  <2>2. UNCHANGED <<sent, slot, answer>> /\ l \in PPcs
    BY <1>8, <1>l, <2>1 DEF IncCount, Fits
  <2>q. QED
    BY <1>f, <1>t, <2>1, <2>2
<1>9. ASSUME NEW p \in Producers, BackOff(p) PROVE Threads'
  <2>1. PICK l \in {"leaveFull"} : pc' = [pc EXCEPT ![p] = l] /\ pc[p] = "backoff"
    BY <1>9 DEF BackOff
  <2>2. UNCHANGED <<sent, slot, answer>> /\ l \in PPcs
    BY <1>9, <1>l, <2>1 DEF BackOff
  <2>q. QED
    BY <1>f, <1>t, <2>1, <2>2
<1>10. ASSUME NEW p \in Producers, TakeTicket(p) PROVE Threads'
  <2>1. slot' \in [Producers -> 0..(Max - 1)]
    <3>1. head \in Nat /\ Max \in Nat \ {0}
      BY DEF TypeOK
    <3>2. head % Max \in 0..(Max - 1)
      BY <3>1, ModSucc
    <3>q. QED
      BY <1>10, <1>h, <1>t, <3>2 DEF TakeTicket
  <2>2. pc' \in [Producers -> PPcs]
    BY <1>10, <1>h, <1>l, <1>t DEF TakeTicket
  <2>q. QED
    BY <1>10, <1>h, <1>t, <2>1, <2>2 DEF TakeTicket, Threads
<1>11. ASSUME NEW p \in Producers, Store(p) PROVE Threads'
  <2>1. PICK l \in {"send"} : pc' = [pc EXCEPT ![p] = l] /\ pc[p] = "store"
    BY <1>11 DEF Store
  <2>2. UNCHANGED <<sent, slot, answer>> /\ l \in PPcs
    BY <1>11, <1>l, <2>1 DEF Store
  <2>q. QED
    BY <1>f, <1>t, <2>1, <2>2
<1>12. ASSUME NEW p \in Producers, AsyncSend(p) PROVE Threads'
  <2>1. PICK l \in {"leaveOk"} : pc' = [pc EXCEPT ![p] = l] /\ pc[p] = "send"
    BY <1>12 DEF AsyncSend, Wakes
  <2>2. UNCHANGED <<sent, slot, answer>> /\ l \in PPcs
    BY <1>12, <1>l, <2>1 DEF AsyncSend, Wakes
  <2>q. QED
    BY <1>f, <1>t, <2>1, <2>2
<1>13. ASSUME NEW p \in Producers, Leave(p) PROVE Threads'
  <2>1. CASE LastOut
    <3>1. PICK l \in {"signalOk", "signalFull"} : pc' = [pc EXCEPT ![p] = l]
      BY <1>13, <2>1 DEF Leave
    <3>2. UNCHANGED <<sent, slot, answer>> /\ l \in PPcs
      BY <1>13, <1>l, <2>1 DEF Leave
    <3>q. QED
      BY <1>f, <3>1, <3>2
  <2>2. CASE ~LastOut
    <3>1. Return(p, ResultOf(p)) /\ slot' = slot
      BY <1>13, <2>2 DEF Leave
    <3>2. ResultOf(p) \in {"none", "ok", "full", "oom", "closed"} /\ sent[p] < MaxSends
      BY <1>13, <1>b DEF Leave, ResultOf
    <3>q. QED
      BY <1>r, <3>1, <3>2
  <2>q. QED
    BY <2>1, <2>2
<1>14. ASSUME NEW p \in Producers, Signal(p) PROVE Threads'
  <2>1. Return(p, ResultOf(p)) /\ slot' = slot
    BY <1>14 DEF Signal
  <2>2. ResultOf(p) \in {"none", "ok", "full", "oom", "closed"} /\ sent[p] < MaxSends
    BY <1>14, <1>b DEF Signal, ResultOf
  <2>q. QED
    BY <1>r, <2>1, <2>2
<1>15. CASE Callback
  BY <1>15, <1>i DEF Callback
<1>16. CASE Dequeue
  BY <1>16, <1>i DEF Dequeue, Exchange, NextTail
<1>17. CASE Dispatch
  BY <1>17, <1>i DEF Dispatch
<1>18. CASE FatalError
  BY <1>18, <1>i DEF FatalError
<1>19. CASE CloseGate
  BY <1>19, <1>i DEF CloseGate
<1>20. CASE LockClose
  BY <1>20, <1>i DEF LockClose
<1>21. CASE LookInside
  BY <1>21, <1>i DEF LookInside, MustWait
<1>22. CASE SleepClose
  BY <1>22, <1>i DEF SleepClose
<1>23. CASE SpuriousWake
  BY <1>23, <1>i DEF SpuriousWake
<1>24. CASE SealGate
  BY <1>24, <1>i DEF SealGate
<1>25. CASE Drain
  BY <1>25, <1>i DEF Drain, Exchange, NextTail
<1>26. CASE DrainCount
  BY <1>26, <1>i DEF DrainCount
<1>27. CASE Drained
  BY <1>27, <1>i DEF Drained
<1>28. CASE ExitRun
  BY <1>28, <1>i DEF ExitRun
<1>29. CASE UvClose
  BY <1>29, <1>i DEF UvClose
<1>30. CASE ReleaseContext
  BY <1>30, <1>i DEF ReleaseContext
<1>31. CASE FinishRun
  BY <1>31, <1>i DEF FinishRun
<1>u. CASE UNCHANGED vars
  BY <1>u, <1>i
<1>q. QED
  BY <1>1, <1>2, <1>3, <1>4, <1>5, <1>6, <1>7, <1>8, <1>9, <1>10, <1>11,
     <1>12, <1>13, <1>14, <1>15, <1>16, <1>17, <1>18, <1>19, <1>20, <1>21,
     <1>22, <1>23, <1>24, <1>25, <1>26, <1>27, <1>28, <1>29, <1>30, <1>31,
     <1>u
  DEF Next, ProducerStep, ReactorStep

(* The queue keeps its type: a ticket leads to a slot of the buffer and     *)
(* head wraps around at the width of its word.                              *)
LEMMA QueueStep == TypeOK /\ TicketInv /\ [Next]_vars => Queue'
<1> SUFFICES ASSUME TypeOK, TicketInv, [Next]_vars PROVE Queue'
  OBVIOUS
<1> USE SenderAssumption
    DEF vars, senderVars, queueVars, agentVars, prodVars, reactVars, Goto,
        RGoto
<1>t. Queue
  BY DEF TypeOK, Queue
<1>h. /\ buffer \in [0..(Max - 1) -> Messages \cup {NoMsg}]
      /\ head \in 0..(Word - 1) /\ tail \in 0..(Max - 1)
      /\ tickets \in Seq(Messages) /\ taken \in Seq(Messages)
      /\ sent \in [Producers -> 0..MaxSends] /\ slot \in [Producers -> 0..(Max - 1)]
  BY DEF TypeOK
<1>f. ASSUME UNCHANGED <<buffer, head, tail, tickets, taken>>, got' \in {got, NoMsg} PROVE Queue'
  BY <1>f, <1>t DEF Queue
<1>m. ASSUME NEW p \in Producers, pc[p] \notin {"new", "idle", "gone"} PROVE Msg(p) \in Messages
  <2>1. sent[p] < MaxSends
    BY <1>m DEF TicketInv
  <2>2. sent[p] + 1 \in 1..MaxSends
    BY <1>h, <2>1
  <2>q. QED
    BY <2>2 DEF Msg, Messages
<1>x. ASSUME NEW next, NEW empty, Exchange(next, empty) PROVE Queue'
  <2>1. CASE buffer[tail] = NoMsg
    BY <1>f, <1>x, <2>1 DEF Exchange
  <2>2. CASE buffer[tail] # NoMsg
    <3>1. /\ got' = buffer[tail] /\ taken' = Append(taken, buffer[tail]) /\ tail' = NextTail
          /\ buffer' = [buffer EXCEPT ![tail] = NoMsg] /\ UNCHANGED <<head, tickets>>
      BY <1>x, <2>2 DEF Exchange
    <3>2. buffer[tail] \in Messages
      BY <1>h, <2>2
    <3>3. taken' \in Seq(Messages)
      BY <1>h, <3>1, <3>2, AppendProperties
    <3>4. tail' \in 0..(Max - 1)
      BY <1>h, <3>1 DEF NextTail
    <3>5. buffer' \in [0..(Max - 1) -> Messages \cup {NoMsg}]
      BY <1>h, <3>1
    <3>q. QED
      BY <1>h, <3>1, <3>2, <3>3, <3>4, <3>5 DEF Queue
  <2>q. QED
    BY <2>1, <2>2
<1>1. ASSUME NEW s \in Streams, Retain(s) PROVE Queue'
  BY <1>1, <1>f DEF Retain
<1>2. ASSUME NEW s \in Streams, Release(s) PROVE Queue'
  BY <1>2, <1>f DEF Release
<1>3. CASE CollectAgent
  BY <1>3, <1>f DEF CollectAgent
<1>4. ASSUME NEW p \in Producers, Send(p) PROVE Queue'
  BY <1>4, <1>f DEF Send, MaySend
<1>5. ASSUME NEW p \in Producers, CheckClosed(p) PROVE Queue'
  BY <1>5, <1>f DEF CheckClosed, Return
<1>6. ASSUME NEW p \in Producers, OutOfMemory(p) PROVE Queue'
  BY <1>6, <1>f DEF OutOfMemory, Return
<1>7. ASSUME NEW p \in Producers, Enter(p) PROVE Queue'
  BY <1>7, <1>f DEF Enter, MayEnter, Return
<1>8. ASSUME NEW p \in Producers, IncCount(p) PROVE Queue'
  BY <1>8, <1>f DEF IncCount, Fits
<1>9. ASSUME NEW p \in Producers, BackOff(p) PROVE Queue'
  BY <1>9, <1>f DEF BackOff
<1>10. ASSUME NEW p \in Producers, TakeTicket(p) PROVE Queue'
  <2>1. /\ head' = (head + 1) % Word /\ tickets' = Append(tickets, Msg(p))
        /\ UNCHANGED <<buffer, tail, taken, got>> /\ pc[p] = "ticket"
    BY <1>10 DEF TakeTicket
  <2>2. Msg(p) \in Messages
    BY <1>m, <2>1
  <2>3. tickets' \in Seq(Messages)
    BY <1>h, <2>1, <2>2, AppendProperties
  <2>4. head' \in 0..(Word - 1)
    <3> DEFINE a == head + 1
    <3>1. a \in Nat
      BY <1>h
    <3> HIDE DEF a
    <3>2. a % Word \in 0..(Word - 1)
      BY <3>1, ModSucc
    <3>q. QED
      BY <2>1, <3>2 DEF a
  <2>q. QED
    BY <1>t, <2>1, <2>3, <2>4 DEF Queue
<1>11. ASSUME NEW p \in Producers, Store(p) PROVE Queue'
  <2>1. /\ buffer' = [buffer EXCEPT ![slot[p]] = Msg(p)] /\ pc[p] = "store"
        /\ UNCHANGED <<head, tail, tickets, taken, got>>
    BY <1>11 DEF Store
  <2>2. Msg(p) \in Messages
    BY <1>m, <2>1
  <2>3. buffer' \in [0..(Max - 1) -> Messages \cup {NoMsg}]
    BY <1>h, <2>1, <2>2
  <2>q. QED
    BY <1>t, <2>1, <2>3 DEF Queue
<1>12. ASSUME NEW p \in Producers, AsyncSend(p) PROVE Queue'
  BY <1>12, <1>f DEF AsyncSend, Wakes
<1>13. ASSUME NEW p \in Producers, Leave(p) PROVE Queue'
  BY <1>13, <1>f DEF Leave, LastOut, ResultOf, Return
<1>14. ASSUME NEW p \in Producers, Signal(p) PROVE Queue'
  BY <1>14, <1>f DEF Signal, ResultOf, Return
<1>15. CASE Callback
  BY <1>15, <1>f DEF Callback
<1>16. CASE Dequeue
  BY <1>16, <1>x DEF Dequeue
<1>17. CASE Dispatch
  BY <1>17, <1>f DEF Dispatch
<1>18. CASE FatalError
  BY <1>18, <1>f DEF FatalError
<1>19. CASE CloseGate
  BY <1>19, <1>f DEF CloseGate
<1>20. CASE LockClose
  BY <1>20, <1>f DEF LockClose
<1>21. CASE LookInside
  BY <1>21, <1>f DEF LookInside, MustWait
<1>22. CASE SleepClose
  BY <1>22, <1>f DEF SleepClose
<1>23. CASE SpuriousWake
  BY <1>23, <1>f DEF SpuriousWake
<1>24. CASE SealGate
  BY <1>24, <1>f DEF SealGate
<1>25. CASE Drain
  BY <1>25, <1>x DEF Drain
<1>26. CASE DrainCount
  BY <1>26, <1>f DEF DrainCount
<1>27. CASE Drained
  BY <1>27, <1>f DEF Drained
<1>28. CASE ExitRun
  BY <1>28, <1>f DEF ExitRun
<1>29. CASE UvClose
  BY <1>29, <1>f DEF UvClose
<1>30. CASE ReleaseContext
  BY <1>30, <1>f DEF ReleaseContext
<1>31. CASE FinishRun
  BY <1>31, <1>f DEF FinishRun
<1>u. CASE UNCHANGED vars
  BY <1>u, <1>f
<1>q. QED
  BY <1>1, <1>2, <1>3, <1>4, <1>5, <1>6, <1>7, <1>8, <1>9, <1>10, <1>11,
     <1>12, <1>13, <1>14, <1>15, <1>16, <1>17, <1>18, <1>19, <1>20, <1>21,
     <1>22, <1>23, <1>24, <1>25, <1>26, <1>27, <1>28, <1>29, <1>30, <1>31,
     <1>u
  DEF Next, ProducerStep, ReactorStep

(* TypeOK, from the types and the counters. *)
LEMMA TypeFromParts ==
  ASSUME Flags, Threads, Queue, GateInv, RefInv, CountInv
  PROVE TypeOK
<1>1. references \in Nat
  <2>1. Cardinality(Holding) \in Nat
    BY FS_CardinalityType DEF RefInv
  <2>2. /\ One(rpc \notin {"finish", "done"}) \in Nat /\ One(queueAlive) \in Nat
        /\ references = One(rpc \notin {"finish", "done"}) + One(queueAlive) + Cardinality(Holding)
    BY DEF RefInv, One
  <2> DEFINE a == One(rpc \notin {"finish", "done"})
             b == One(queueAlive)
             c == Cardinality(Holding)
  <2>3. a \in Nat /\ b \in Nat /\ c \in Nat /\ references = a + b + c
    BY <2>1, <2>2
  <2> HIDE DEF a, b, c
  <2>q. QED
    BY <2>3
<1>2. inside = Cardinality({p \in Producers : Inside(p)})
  <2>1. {p \in Producers : Inside(p)} = At(InsideLabels)
    BY DEF At, InsideLabels, Inside
  <2>q. QED
    BY <2>1 DEF GateInv
<1>3. count \in Nat /\ Len(tickets) - Len(taken) <= count
  <2> DEFINE t == Len(tickets)
             k == Len(taken)
             a == Cardinality(At({"ticket"}))
             b == Cardinality(At({"backoff"}))
             o == One(rpc \in {"dispatch", "drainCount"})
  <2>1. t \in Nat /\ k \in Nat
    BY LenProperties DEF Queue
  <2>2. a \in Nat /\ b \in Nat
    BY FS_CardinalityType DEF CountInv
  <2>3. o \in Nat
    BY DEF One
  <2>4. count = (t - k) + a + b + o /\ k <= t
    BY DEF CountInv
  <2> HIDE DEF t, k, a, b, o
  <2>5. count \in Nat /\ t - k <= count
    BY <2>1, <2>2, <2>3, <2>4
  <2>q. QED
    BY <2>5 DEF t, k
<1>q. QED
  BY <1>1, <1>2, <1>3 DEF TypeOK, Flags, Threads, Queue

-----------------------------------------------------------------------------
(* The inductive invariant *)

LEMMA InitIInv == Init => IInv
<1> SUFFICES ASSUME Init PROVE IInv
  OBVIOUS
<1> USE SenderAssumption
<1>1. \A p \in Producers : pc[p] \in {"new", "idle"} /\ (pc[p] = "new" <=> p \in Streams)
  BY DEF Init
<1>2. At(InsideLabels) = {} /\ At({"ticket"}) = {} /\ At({"backoff"}) = {}
  BY <1>1 DEF At, InsideLabels
<1>3. Holding = {}
  <2>1. Streams \subseteq Producers
    BY DEF Producers
  <2>q. QED
    BY <1>1, <2>1 DEF Holding
<1>4. IsFiniteSet({}) /\ Cardinality({}) = 0
  BY FS_EmptySet
<1>5. tickets = <<>> /\ taken = <<>> /\ Len(tickets) = 0 /\ Len(taken) = 0
      /\ rpc = "poll" /\ handle = TRUE /\ queueAlive = TRUE /\ closedBit = FALSE /\ asyncSet = TRUE
      /\ stopped = FALSE
  BY DEF Init
<1>6. GateInv
  <2>1. inside = 0
    BY DEF Init
  <2>q. QED
    BY <1>2, <1>4, <1>5, <2>1 DEF GateInv
<1>7. ShutdownInv
  BY <1>5 DEF ShutdownInv
<1>8. RefInv
  <2>1. references = 2 /\ One(rpc \notin {"finish", "done"}) = 1 /\ One(queueAlive) = 1
    BY <1>5 DEF Init, One
  <2>q. QED
    BY <1>3, <1>4, <1>5, <2>1 DEF RefInv
<1>9. CountInv
  <2>1. count = 0 /\ One(rpc \in {"dispatch", "drainCount"}) = 0
    BY <1>5 DEF Init, One
  <2>2. /\ IsFiniteSet(At({"ticket"})) /\ Cardinality(At({"ticket"})) = 0
        /\ IsFiniteSet(At({"backoff"})) /\ Cardinality(At({"backoff"})) = 0
    BY <1>2, <1>4
  <2>q. QED
    BY <1>5, <2>1, <2>2 DEF CountInv
<1>10. TicketInv
  <2>1. \A m : ~Drawn(m)
    BY <1>5 DEF Drawn
  <2>2. \A p \in Producers : sent[p] = 0 /\ pc[p] \notin DrawnLabels
    BY <1>1 DEF Init, DrawnLabels
  <2>3. \A p \in Producers : \A n \in 1..MaxSends :
          ~(n <= sent[p] \/ (n = sent[p] + 1 /\ pc[p] \in DrawnLabels))
    BY <2>2
  <2>q. QED
    BY <1>1, <1>5, <2>1, <2>3 DEF TicketInv
<1>11. RingInv
  <2>1. Waiting = {}
    BY <1>5 DEF Waiting
  <2>2. head % Max = Wrapped(tail + (Len(tickets) - Len(taken)))
    BY <1>5 DEF Init, Wrapped
  <2>3. \A j \in 0..(Max - 1) : buffer[j] = NoMsg
    BY DEF Init
  <2>q. QED
    BY <1>1, <2>1, <2>2, <2>3 DEF RingInv
<1>12. Flags
  BY DEF Init, Flags, RPcs
<1>13. Threads
  BY DEF Init, Threads, PPcs
<1>14. Queue
  BY EmptySeq DEF Init, Queue
<1>15. TypeOK
  BY <1>6, <1>8, <1>9, <1>12, <1>13, <1>14, TypeFromParts
<1>q. QED
  BY <1>6, <1>7, <1>8, <1>9, <1>10, <1>11, <1>15 DEF IInv

LEMMA NextIInv == IInv /\ [Next]_vars => IInv'
<1> SUFFICES ASSUME IInv, [Next]_vars PROVE IInv'
  OBVIOUS
<1>0. TypeOK /\ GateInv /\ ShutdownInv /\ RefInv /\ CountInv /\ TicketInv /\ RingInv
  BY DEF IInv
<1>1. GateInv'
  BY <1>0, GateStep
<1>2. ShutdownInv'
  BY <1>0, ShutdownStep
<1>3. RefInv'
  BY <1>0, RefStep
<1>4. CountInv'
  BY <1>0, CountStep
<1>5. TicketInv'
  BY <1>0, TicketStep
<1>6. RingInv'
  BY <1>0, RingStep
<1>7. Flags' /\ Threads' /\ Queue'
  BY <1>0, FlagStep, ThreadStep, QueueStep
<1>8. TypeOK'
  <2>2. (Flags' /\ Threads' /\ Queue' /\ GateInv' /\ RefInv' /\ CountInv') => TypeOK'
    BY TypeFromParts, PTL
  <2>q. QED
    BY <1>1, <1>3, <1>4, <1>7, <2>2
<1>q. QED
  BY <1>1, <1>2, <1>3, <1>4, <1>5, <1>6, <1>8 DEF IInv

LEMMA Invariance == Spec => []IInv
<1>1. Init => IInv
  BY InitIInv
<1>2. IInv /\ [Next]_vars => IInv'
  BY NextIInv
<1>q. QED
  BY <1>1, <1>2, PTL DEF Spec

-----------------------------------------------------------------------------
(* Theorems *)

(* The asserts of mpscq_enqueue hold whatever the producers and the reactor *)
(* interleave: the slot of a ticket is empty when its message is stored.    *)
THEOREM SlotSafety == Spec => []SlotIsFree
<1>1. IInv => SlotIsFree
  <2> SUFFICES ASSUME IInv PROVE SlotIsFree
    OBVIOUS
  <2>1. TypeOK /\ RingInv
    BY DEF IInv
  <2>2. ASSUME NEW p \in Producers, pc[p] = "store"
        PROVE buffer[slot[p]] = NoMsg
    <3>1. PICK i \in Waiting : tickets[i] = Msg(p) /\ slot[p] = Pos(i)
      BY <2>1, <2>2 DEF RingInv
    <3>2. Storing(tickets[i])
      BY <2>2, <3>1 DEF Storing, Msg
    <3>q. QED
      BY <2>1, <3>1, <3>2 DEF RingInv
  <2>q. QED
    BY <2>1, <2>2 DEF SlotIsFree
<1>q. QED
  BY <1>1, Invariance, PTL

(* No producer touches a sender that was freed, nor the queue or the        *)
(* uv_async_t after the reactor has closed or the finalizer has freed them. *)
THEOREM LifetimeSafety == Spec => []NoUseAfterFree
<1>1. IInv => NoUseAfterFree
  <2> SUFFICES ASSUME IInv PROVE NoUseAfterFree
    OBVIOUS
  <2>1. TypeOK /\ GateInv /\ ShutdownInv /\ RefInv
    BY DEF IInv
  <2>2. ASSUME NEW p \in Producers, pc[p] \notin {"new", "gone"}, p \in Haskell => pc[p] # "idle"
        PROVE Alive
    <3> DEFINE a == One(rpc \notin {"finish", "done"})
               b == One(queueAlive)
               c == Cardinality(Holding)
    <3>1. c \in Nat /\ IsFiniteSet(Holding) /\ references = a + b + c
      BY <2>1, FS_CardinalityType DEF RefInv
    <3>2. a \in Nat /\ b \in Nat
      BY DEF One
    <3>3. b = 1 \/ c # 0
      <4>1. CASE p \in Haskell
        <5>1. queueAlive
          BY <2>1, <2>2, <4>1 DEF RefInv
        <5>q. QED
          BY <5>1 DEF One
      <4>2. CASE p \in Streams
        <5>1. p \in Holding
          BY <2>2, <4>2 DEF Holding
        <5>2. Holding # {}
          BY <5>1
        <5>q. QED
          BY <3>1, <5>2, FS_EmptySet
      <4>q. QED
        BY <4>1, <4>2 DEF Producers, Haskell
    <3> HIDE DEF a, b, c
    <3>4. references # 0
      BY <3>1, <3>2, <3>3
    <3>q. QED
      BY <3>4 DEF Alive
  <2>3. ASSUME NEW p \in Producers, Inside(p)
        PROVE queueAlive /\ handle /\ asyncSet
    <3>1. p \in At(InsideLabels)
      BY <2>3 DEF At, InsideLabels, Inside
    <3>2. asyncSet
      BY <2>1, <3>1 DEF GateInv
    <3>3. rpc \notin {"release", "finish", "done"}
      BY <2>1, <3>2 DEF ShutdownInv
    <3>q. QED
      BY <2>1, <3>2, <3>3 DEF ShutdownInv
  <2>q. QED
    BY <2>2, <2>3 DEF NoUseAfterFree
<1>q. QED
  BY <1>1, Invariance, PTL

(* OK is the answer exactly of the calls whose message is in the order the  *)
(* reactor follows; the message of a FULL or a CLOSED never gets there.     *)
THEOREM AnswerSafety == Spec => []AnswerIsTrue
<1>1. IInv => AnswerIsTrue
  <2> SUFFICES ASSUME IInv, NEW p \in Producers, NEW n \in 1..MaxSends
               PROVE /\ n <= sent[p] => Drawn(<<p, n>>)
                     /\ (n = sent[p] + 1 /\ pc[p] \in {"idle", "gone"}) => ~Drawn(<<p, n>>)
    BY DEF AnswerIsTrue, Drawn
  <2>1. Drawn(<<p, n>>) <=> n <= sent[p] \/ (n = sent[p] + 1 /\ pc[p] \in DrawnLabels)
    BY DEF IInv, TicketInv
  <2>2. sent[p] \in Nat
    BY DEF IInv, TypeOK
  <2>q. QED
    BY <2>1, <2>2 DEF DrawnLabels
<1>q. QED
  BY <1>1, Invariance, PTL

-----------------------------------------------------------------------------
(* The refinement *)

LEMMA SubSeqAppend ==
  ASSUME NEW S, NEW s \in Seq(S), NEW e \in S, NEW k \in 0..Len(s)
  PROVE SubSeq(Append(s, e), k + 1, Len(Append(s, e))) = Append(SubSeq(s, k + 1, Len(s)), e)
<1> DEFINE n == Len(s)
           l == SubSeq(Append(s, e), k + 1, n + 1)
           q == SubSeq(s, k + 1, n)
           r == Append(q, e)
<1>1. /\ n \in Nat /\ Len(Append(s, e)) = n + 1 /\ Append(s, e) \in Seq(S)
      /\ \A i \in 1..n : Append(s, e)[i] = s[i]
      /\ Append(s, e)[n + 1] = e
      /\ \A i \in 1..n : s[i] \in S
  BY LenProperties, AppendProperties, ElementOfSeq
<1>2. \A i \in (k + 1)..(n + 1) : Append(s, e)[i] \in S
  BY <1>1
<1>3. /\ l \in Seq(S) /\ Len(l) = n - k + 1
      /\ \A i \in 1..(n - k + 1) : l[i] = Append(s, e)[k + i]
  <2>1. /\ l \in Seq(S) /\ Len(l) = IF k + 1 <= n + 1 THEN (n + 1) - (k + 1) + 1 ELSE 0
        /\ \A i \in 1..((n + 1) - (k + 1) + 1) : l[i] = Append(s, e)[(k + 1) + i - 1]
    BY <1>1, <1>2, SubSeqProperties
  <2>2. n \in Nat /\ k \in Nat /\ k <= n
    BY <1>1
  <2> HIDE DEF l, n
  <2>3. k + 1 <= n + 1 /\ (n + 1) - (k + 1) + 1 = n - k + 1
    BY <2>2
  <2>4. ASSUME NEW i \in 1..(n - k + 1)
        PROVE l[i] = Append(s, e)[k + i]
    <3>1. (k + 1) + i - 1 = k + i
      BY <2>2
    <3>2. l[i] = Append(s, e)[(k + 1) + i - 1]
      BY <2>1, <2>3
    <3>q. QED
      BY <3>1, <3>2
  <2>5. Len(l) = n - k + 1
    BY <2>1, <2>3
  <2>q. QED
    BY <2>1, <2>4, <2>5
<1>4. /\ q \in Seq(S) /\ Len(q) = n - k
      /\ \A i \in 1..(n - k) : q[i] = s[k + i]
  <2>0. \A i \in (k + 1)..n : s[i] \in S
    BY <1>1
  <2>1. /\ q \in Seq(S) /\ Len(q) = IF k + 1 <= n THEN n - (k + 1) + 1 ELSE 0
        /\ \A i \in 1..(n - (k + 1) + 1) : q[i] = s[(k + 1) + i - 1]
    BY <1>1, <2>0, SubSeqProperties
  <2>2. n \in Nat /\ k \in Nat /\ k <= n
    BY <1>1
  <2> HIDE DEF q, n
  <2>3. n - (k + 1) + 1 = n - k
    BY <2>2
  <2>4. ASSUME NEW i \in 1..(n - k)
        PROVE q[i] = s[k + i]
    <3>1. (k + 1) + i - 1 = k + i
      BY <2>2
    <3>2. q[i] = s[(k + 1) + i - 1]
      BY <2>1, <2>3
    <3>q. QED
      BY <3>1, <3>2
  <2>5. Len(q) = n - k
    BY <2>1, <2>2, <2>3
  <2>q. QED
    BY <2>1, <2>4, <2>5
<1> HIDE DEF l, q
<1>5. /\ r \in Seq(S) /\ Len(r) = n - k + 1
      /\ \A i \in 1..(n - k) : r[i] = q[i]
      /\ r[n - k + 1] = e
  BY <1>4, AppendProperties
<1> HIDE DEF r
<1>6. ASSUME NEW i \in 1..(n - k + 1)
      PROVE l[i] = r[i]
  <2>1. CASE i = n - k + 1
    BY <1>1, <1>3, <1>5, <2>1
  <2>2. CASE i \in 1..(n - k)
    BY <1>1, <1>3, <1>4, <1>5, <2>2
  <2>q. QED
    BY <1>1, <2>1, <2>2
<1>7. l = r
  BY <1>3, <1>5, <1>6, SeqEqual
<1>q. QED
  BY <1>1, <1>7 DEF l, r, q

(* Every step of the gate, the queue and the reactor is a step of the       *)
(* channel or leaves it alone: a ticket is Accept, a successful exchange is *)
(* Take, and the shutdown closes, seals and destroys it once each.          *)
LEMMA ChannelStep == IInv /\ [Next]_vars => [Channel!Next]_(Channel!chanVars)
<1> SUFFICES ASSUME IInv, [Next]_vars PROVE [Channel!Next]_(Channel!chanVars)
  OBVIOUS
<1> DEFINE queue == SubSeq(tickets, Len(taken) + 1, Len(tickets))
           phase == IF ~handle THEN "destroyed"
                    ELSE IF ~closedBit THEN "open"
                    ELSE IF asyncSet THEN "closing" ELSE "sealed"
           Chan == [Channel!Next]_(Channel!chanVars)
<1>t. TypeOK /\ GateInv /\ ShutdownInv /\ CountInv /\ TicketInv /\ RingInv
  BY DEF IInv
<1>s. tickets \in Seq(Messages) /\ taken \in Seq(Messages) /\ handle \in BOOLEAN
      /\ sent \in [Producers -> 0..MaxSends]
  BY <1>t DEF TypeOK
<1>e. /\ Len(tickets) \in Nat /\ Len(taken) \in Nat /\ Len(taken) <= Len(tickets)
      /\ \A i \in 1..Len(tickets) : tickets[i] \in Messages
      /\ buffer[tail] \in Messages \cup {NoMsg}
      /\ buffer[tail] # NoMsg => /\ Len(taken) + 1 <= Len(tickets)
                                 /\ buffer[tail] = tickets[Len(taken) + 1]
  BY <1>t, TailFacts
<1>h. handle <=> rpc \notin {"release", "finish", "done"}
  BY <1>t DEF ShutdownInv
<1>f. ASSUME UNCHANGED <<tickets, taken, handle, closedBit, asyncSet>> PROVE Chan
  <2>1. queue' = queue /\ phase' = phase
    BY <1>f
  <2>q. QED
    BY <1>f, <2>1 DEF Channel!chanVars
<1>p. ASSUME UNCHANGED <<tickets, taken>>,
             (phase = "open" /\ phase' = "closing") \/ (phase = "closing" /\ phase' = "sealed")
             \/ (phase = "sealed" /\ queue = <<>> /\ phase' = "destroyed")
      PROVE Chan
  <2>1. queue' = queue
    BY <1>p
  <2>2. CASE phase = "open" /\ phase' = "closing"
    BY <1>p, <2>1, <2>2 DEF Channel!Next, Channel!Close
  <2>3. CASE phase = "closing" /\ phase' = "sealed"
    BY <1>p, <2>1, <2>3 DEF Channel!Next, Channel!Seal
  <2>4. CASE phase = "sealed" /\ queue = <<>> /\ phase' = "destroyed"
    BY <1>p, <2>1, <2>4 DEF Channel!Next, Channel!Destroy
  <2>q. QED
    BY <1>p, <2>2, <2>3, <2>4
<1>x. ASSUME buffer[tail] # NoMsg, taken' = Append(taken, buffer[tail]), handle,
             UNCHANGED <<tickets, handle, closedBit, asyncSet>>
      PROVE Chan
  <2>1. phase' = phase /\ phase # "destroyed"
    BY <1>x
  <2> DEFINE m == Len(taken) + 1
             n == Len(tickets)
  <2>2. m \in 1..n /\ n \in m..n /\ buffer[tail] = tickets[m] /\ tickets[m] \in Messages
    BY <1>e, <1>x
  <2>3. Head(queue) = tickets[m] /\ Tail(queue) = SubSeq(tickets, m + 1, n)
    BY <1>s, <2>2, HeadTailOfSubSeq
  <2>4. Len(taken') = m
    BY <1>s, <1>x, <2>2, AppendProperties
  <2>5. queue' = Tail(queue)
    BY <1>x, <2>3, <2>4
  <2>6. queue # <<>>
    <3>1. Len(queue) = n - m + 1
      BY <1>e, <2>2, SubSeqProperties
    <3>2. n - m + 1 # 0
      BY <1>e, <2>2
    <3> HIDE DEF queue, m, n
    <3>3. Len(<<>>) = 0
      BY EmptySeq
    <3>q. QED
      BY <3>1, <3>2, <3>3
  <2>7. taken' = Append(taken, Head(queue))
    BY <1>x, <2>2, <2>3
  <2> HIDE DEF queue, phase
  <2>8. Channel!Take
    BY <2>1, <2>5, <2>6, <2>7 DEF Channel!Take, queue, phase
  <2>q. QED
    BY <2>8 DEF Channel!Next
<1> HIDE DEF Chan
<1> USE DEF vars, senderVars, queueVars, agentVars, prodVars, reactVars, Goto, RGoto
<1>1. ASSUME NEW s \in Streams, Retain(s) PROVE Chan
  BY <1>1, <1>f DEF Retain
<1>2. ASSUME NEW s \in Streams, Release(s) PROVE Chan
  BY <1>2, <1>f DEF Release
<1>3. ASSUME CollectAgent PROVE Chan
  BY <1>3, <1>f DEF CollectAgent
<1>4. ASSUME NEW p \in Producers, Send(p) PROVE Chan
  BY <1>4, <1>f DEF Send, MaySend
<1>5. ASSUME NEW p \in Producers, CheckClosed(p) PROVE Chan
  BY <1>5, <1>f DEF CheckClosed, Return
<1>6. ASSUME NEW p \in Producers, OutOfMemory(p) PROVE Chan
  BY <1>6, <1>f DEF OutOfMemory, Return
<1>7. ASSUME NEW p \in Producers, Enter(p) PROVE Chan
  BY <1>7, <1>f DEF Enter, MayEnter, Return
<1>8. ASSUME NEW p \in Producers, IncCount(p) PROVE Chan
  BY <1>8, <1>f DEF IncCount, Fits
<1>9. ASSUME NEW p \in Producers, BackOff(p) PROVE Chan
  BY <1>9, <1>f DEF BackOff
<1>10. ASSUME NEW p \in Producers, TakeTicket(p) PROVE Chan
  <2>1. /\ pc[p] = "ticket" /\ tickets' = Append(tickets, Msg(p))
        /\ UNCHANGED <<taken, handle, closedBit, asyncSet>>
    BY <1>10 DEF TakeTicket
  <2>2. p \in At(InsideLabels)
    BY <2>1 DEF At, InsideLabels
  <2>3. asyncSet
    BY <1>t, <2>2 DEF GateInv
  <2>4. handle
    BY <1>h, <1>t, <2>3 DEF ShutdownInv
  <2>5. phase' = phase /\ phase \in {"open", "closing"}
    BY <2>1, <2>3, <2>4
  <2>6. sent[p] + 1 \in 1..MaxSends /\ sent[p] \in Nat
    <3>1. sent[p] < MaxSends
      BY <1>t, <2>1 DEF TicketInv
    <3>q. QED
      BY <1>s, <3>1, SenderAssumption
  <2>7. Msg(p) \in Messages
    BY <2>6 DEF Msg, Messages
  <2>8. \A i \in 1..Len(tickets) : tickets[i] # Msg(p)
    <3>1. "ticket" \notin DrawnLabels
      BY DEF DrawnLabels
    <3>2. Drawn(<<p, sent[p] + 1>>) <=>
            sent[p] + 1 <= sent[p] \/ (sent[p] + 1 = sent[p] + 1 /\ pc[p] \in DrawnLabels)
      BY <1>t, <2>6 DEF TicketInv
    <3>q. QED
      BY <2>1, <2>6, <3>1, <3>2 DEF Drawn, Msg
  <2>9. ~Channel!In(Msg(p), taken)
    BY <1>e, <1>t, <2>8 DEF Channel!In, TicketInv
  <2>10. ~Channel!In(Msg(p), queue)
    <3> DEFINE m == Len(taken) + 1
               n == Len(tickets)
    <3>1. m \in Nat /\ n \in Nat /\ m >= 1 /\ \A i \in m..n : tickets[i] \in Messages
      BY <1>e
    <3>2. /\ Len(queue) = IF m <= n THEN n - m + 1 ELSE 0
          /\ \A i \in 1..(n - m + 1) : queue[i] = tickets[m + i - 1]
      BY <3>1, SubSeqProperties
    <3> HIDE DEF m, queue
    <3>3. \A i \in 1..Len(queue) : m + i - 1 \in 1..n /\ i \in 1..(n - m + 1)
      BY <3>1, <3>2
    <3>q. QED
      BY <2>8, <3>2, <3>3 DEF Channel!In
  <2>11. queue' = Append(queue, Msg(p))
    <3> DEFINE k == Len(taken)
    <3>1. k \in 0..Len(tickets)
      BY <1>e
    <3>2. SubSeq(Append(tickets, Msg(p)), k + 1, Len(Append(tickets, Msg(p)))) = Append(queue, Msg(p))
      BY <1>s, <2>7, <3>1, SubSeqAppend
    <3>q. QED
      BY <2>1, <3>2
  <2>12. taken' = taken
    BY <2>1
  <2> HIDE DEF queue, phase
  <2>13. Channel!Accept(Msg(p))
    BY <2>5, <2>9, <2>10, <2>11, <2>12 DEF Channel!Accept, queue, phase
  <2>q. QED
    BY <2>7, <2>13 DEF Channel!Next, Chan
<1>11. ASSUME NEW p \in Producers, Store(p) PROVE Chan
  BY <1>11, <1>f DEF Store
<1>12. ASSUME NEW p \in Producers, AsyncSend(p) PROVE Chan
  BY <1>12, <1>f DEF AsyncSend, Wakes
<1>13. ASSUME NEW p \in Producers, Leave(p) PROVE Chan
  BY <1>13, <1>f DEF Leave, LastOut, ResultOf, Return
<1>14. ASSUME NEW p \in Producers, Signal(p) PROVE Chan
  BY <1>14, <1>f DEF Signal, ResultOf, Return
<1>15. ASSUME Callback PROVE Chan
  BY <1>15, <1>f DEF Callback
<1>16. ASSUME Dequeue PROVE Chan
  <2>1. UNCHANGED <<tickets, handle, closedBit, asyncSet>> /\ handle
    BY <1>16, <1>h DEF Dequeue, Exchange
  <2>2. CASE buffer[tail] = NoMsg
    BY <1>16, <1>f, <2>1, <2>2 DEF Dequeue, Exchange
  <2>3. CASE buffer[tail] # NoMsg
    BY <1>16, <1>x, <2>1, <2>3 DEF Dequeue, Exchange
  <2>q. QED
    BY <2>2, <2>3
<1>17. ASSUME Dispatch PROVE Chan
  BY <1>17, <1>f DEF Dispatch
<1>18. ASSUME FatalError PROVE Chan
  BY <1>18, <1>f DEF FatalError
<1>19. ASSUME CloseGate PROVE Chan
  <2>1. closedBit' = TRUE /\ UNCHANGED <<tickets, taken, handle, asyncSet>> /\ handle
    BY <1>19, <1>h DEF CloseGate
  <2>2. CASE closedBit
    <3>1. queue' = queue /\ phase' = phase
      BY <2>1, <2>2
    <3>q. QED
      BY <2>1, <3>1 DEF Channel!chanVars, Chan
  <2>3. CASE ~closedBit
    <3>1. asyncSet
      BY <1>t, <2>3 DEF GateInv
    <3>2. phase = "open" /\ phase' = "closing"
      BY <2>1, <2>3, <3>1
    <3>q. QED
      BY <1>p, <2>1, <3>2
  <2>q. QED
    BY <2>2, <2>3
<1>20. ASSUME LockClose PROVE Chan
  BY <1>20, <1>f DEF LockClose
<1>21. ASSUME LookInside PROVE Chan
  BY <1>21, <1>f DEF LookInside, MustWait
<1>22. ASSUME SleepClose PROVE Chan
  BY <1>22, <1>f DEF SleepClose
<1>23. ASSUME SpuriousWake PROVE Chan
  BY <1>23, <1>f DEF SpuriousWake
<1>24. ASSUME SealGate PROVE Chan
  <2>1. asyncSet' = FALSE /\ UNCHANGED <<tickets, taken, handle, closedBit>> /\ handle /\ closedBit
    BY <1>24, <1>h, <1>t DEF SealGate, GateInv
  <2>2. phase' = "sealed" /\ phase \in {"closing", "sealed"}
    BY <2>1
  <2>3. CASE phase = "sealed"
    <3>1. queue' = queue
      BY <2>1
    <3>q. QED
      BY <2>1, <2>2, <2>3, <3>1 DEF Channel!chanVars, Chan
  <2>4. CASE phase = "closing"
    BY <1>p, <2>1, <2>2, <2>4
  <2>q. QED
    BY <2>2, <2>3, <2>4
<1>25. ASSUME Drain PROVE Chan
  <2>1. UNCHANGED <<tickets, handle, closedBit, asyncSet>> /\ handle
    BY <1>25, <1>h DEF Drain, Exchange
  <2>2. CASE buffer[tail] = NoMsg
    BY <1>25, <1>f, <2>1, <2>2 DEF Drain, Exchange
  <2>3. CASE buffer[tail] # NoMsg
    BY <1>25, <1>x, <2>1, <2>3 DEF Drain, Exchange
  <2>q. QED
    BY <2>2, <2>3
<1>26. ASSUME DrainCount PROVE Chan
  BY <1>26, <1>f DEF DrainCount
<1>27. ASSUME Drained PROVE Chan
  BY <1>27, <1>f DEF Drained
<1>28. ASSUME ExitRun PROVE Chan
  BY <1>28, <1>f DEF ExitRun
<1>29. ASSUME UvClose PROVE Chan
  <2>1. handle' = FALSE /\ UNCHANGED <<tickets, taken>> /\ handle /\ rpc = "uvClose"
    BY <1>29, <1>h DEF UvClose
  <2>2. ~asyncSet /\ closedBit /\ Len(taken) = Len(tickets)
    BY <1>t, <2>1 DEF ShutdownInv, GateInv
  <2>3. queue = <<>>
    BY <1>e, <2>2, SubSeqEmpty
  <2>4. phase = "sealed" /\ phase' = "destroyed"
    BY <2>1, <2>2
  <2>q. QED
    BY <1>p, <2>1, <2>3, <2>4
<1>30. ASSUME ReleaseContext PROVE Chan
  BY <1>30, <1>f DEF ReleaseContext
<1>31. ASSUME FinishRun PROVE Chan
  BY <1>31, <1>f DEF FinishRun
<1>u. ASSUME UNCHANGED vars PROVE Chan
  BY <1>u, <1>f
<1>q. QED
  BY <1>1, <1>2, <1>3, <1>4, <1>5, <1>6, <1>7, <1>8, <1>9, <1>10, <1>11,
     <1>12, <1>13, <1>14, <1>15, <1>16, <1>17, <1>18, <1>19, <1>20, <1>21,
     <1>22, <1>23, <1>24, <1>25, <1>26, <1>27, <1>28, <1>29, <1>30, <1>31,
     <1>u
  DEF Next, ProducerStep, ReactorStep, Chan

(* Gate, queue and shutdown implement the channel: a FIFO that accepts a    *)
(* message once, loses and repeats nothing, takes nothing once it is        *)
(* sealed, and is destroyed only when empty.                                *)
THEOREM ChannelRefinement == Spec => ImplementsChannel
<1>1. Init => Channel!Init
  <2> SUFFICES ASSUME Init PROVE Channel!Init
    OBVIOUS
  <2>1. tickets = <<>> /\ taken = <<>> /\ Len(tickets) = 0 /\ Len(taken) = 0
        /\ handle = TRUE /\ closedBit = FALSE
    BY DEF Init
  <2>2. SubSeq(tickets, Len(taken) + 1, Len(tickets)) = <<>>
    BY <2>1, SubSeqEmpty
  <2>q. QED
    BY <2>1, <2>2 DEF Channel!Init
<1>q. QED
  BY <1>1, ChannelStep, Invariance, PTL DEF Spec, ImplementsChannel, Channel!Spec

=============================================================================
