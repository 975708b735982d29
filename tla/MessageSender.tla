---------------------------- MODULE MessageSender ----------------------------
(***************************************************************************)
(* The control channel of one agent, step by atomic step: the sender gate  *)
(* of cbits/message_chan.c, the wait-free queue mpsc.c under it, and the   *)
(* agent's life around it (sendMessage, stopAgent and run in Agent.hs,     *)
(* agent_shutdown in curl_uv.c).                                           *)
(*                                                                         *)
(* Callers send through sendMessage, one at a time: it holds the MVar      *)
(* contextStatus.  Streams enqueue from stream.c with no lock held, so     *)
(* they race with each other, with a caller and with the closing reactor.  *)
(* Every access to an atomic is one step; the atomics are taken to be      *)
(* sequentially consistent.  What the handlers do with a message is the    *)
(* business of Stream.                                                     *)
(***************************************************************************)
EXTENDS Integers, Sequences, FiniteSets

CONSTANTS
  Callers,   \* threads in sendMessage (Execute)
  Streams,   \* streams whose user threads resume and cancel
  Stopper,   \* the thread in stopAgent
  NoMsg,     \* a NULL slot of the queue
  Max,       \* q->max
  Word,      \* the modulus of size_t, at which head wraps around
  MaxSends   \* bound: messages each caller and stream gets accepted

Producers == Callers \cup Streams \cup {Stopper}
Haskell   == Callers \cup {Stopper}
Messages  == Producers \X (1..MaxSends)
Nobody    == NoMsg

(* mpscq_create refuses a capacity that is not a power of two. *)
ASSUME SenderAssumption ==
  /\ Max \in Nat \ {0, 1}
  /\ Word \in Nat \ {0} /\ Word % Max = 0
  /\ MaxSends \in Nat \ {0}
  /\ NoMsg \notin Messages /\ NoMsg \notin Producers
  /\ Callers \cap Streams = {} /\ Stopper \notin Callers \cup Streams

VARIABLES
  (* message_sender_s *)
  references, closedBit, inside,   \* state = closed bit and producer count
  asyncSet,                        \* sender->async_handle # NULL
  mutex,                           \* close_mutex: held by the reactor?
  (* struct mpscq *)
  buffer, head, tail, count,
  (* libuv and the agent *)
  pending,     \* the uv_async_t has a wake-up to deliver
  handle,      \* the uv_async_t is open
  queueAlive,  \* the MPSCQ ForeignPtr has not been finalized
  status, statusOwner,  \* contextStatus and the thread holding the MVar
  (* threads *)
  pc, sent, slot, answer,
  rpc,         \* the reactor's program counter
  got,         \* the message the reactor is working on
  stopped,     \* uv_stop was called and the registry destroyed
  (* history *)
  tickets,     \* messages in the order of their fetch_add on head
  taken        \* messages in the order the reactor got them

senderVars == <<references, closedBit, inside, asyncSet, mutex>>
queueVars  == <<buffer, head, tail, count, tickets, taken>>
agentVars  == <<pending, handle, queueAlive, status, statusOwner>>
prodVars   == <<pc, sent, slot, answer>>
reactVars  == <<rpc, got, stopped>>
vars == <<senderVars, queueVars, agentVars, prodVars, reactVars>>

Init ==
  /\ references = 2   \* the message context's and the AgentContext's
  /\ closedBit = FALSE /\ inside = 0 /\ asyncSet = TRUE /\ mutex = FALSE
  /\ buffer = [i \in 0..(Max - 1) |-> NoMsg]
  /\ head = 0 /\ tail = 0 /\ count = 0
  /\ pending = FALSE /\ handle = TRUE /\ queueAlive = TRUE
  /\ status = "running" /\ statusOwner = Nobody
  /\ pc = [p \in Producers |-> IF p \in Streams THEN "new" ELSE "idle"]
  /\ sent = [p \in Producers |-> 0]
  /\ slot = [p \in Producers |-> 0]
  /\ answer = [p \in Producers |-> "none"]
  /\ rpc = "poll" /\ got = NoMsg /\ stopped = FALSE
  /\ tickets = <<>> /\ taken = <<>>

Goto(p, l) == pc' = [pc EXCEPT ![p] = l]
Msg(p) == <<p, sent[p] + 1>>
IsStop(m) == m[1] = Stopper
Alive == references # 0

(* The call returns r; a Haskell caller gives contextStatus back.  Sending  *)
(* STOP moves it to Stopping.                                               *)
Return(p, r) ==
  /\ Goto(p, "idle")
  /\ answer' = [answer EXCEPT ![p] = r]
  /\ sent' = [sent EXCEPT ![p] = IF r = "ok" THEN @ + 1 ELSE @]
  /\ IF p \in Haskell
     THEN /\ statusOwner' = Nobody
          /\ status' = IF p = Stopper /\ r = "ok" THEN "stopping" ELSE status
     ELSE UNCHANGED <<status, statusOwner>>

-----------------------------------------------------------------------------
(* The life of a reference *)

(* message_sender_retain, by hcurl_stream_create while the agent is held. *)
Retain(s) ==
  /\ s \in Streams /\ pc[s] = "new" /\ queueAlive
  /\ references' = references + 1
  /\ Goto(s, "idle")
  /\ UNCHANGED <<closedBit, inside, asyncSet, mutex, queueVars, agentVars,
                 sent, slot, answer, reactVars>>

(* message_sender_release, by the finalizer of the stream. *)
Release(s) ==
  /\ s \in Streams /\ pc[s] = "idle"
  /\ references' = references - 1
  /\ Goto(s, "gone")
  /\ UNCHANGED <<closedBit, inside, asyncSet, mutex, queueVars, agentVars,
                 sent, slot, answer, reactVars>>

(* The AgentContext is collected: run and every caller have let go of it,   *)
(* and the finalizers of its sender and of its queue run.  Streams outlive  *)
(* it.                                                                      *)
CollectAgent ==
  /\ queueAlive /\ rpc = "done" /\ \A p \in Haskell : pc[p] = "idle"
  /\ references' = references - 1
  /\ queueAlive' = FALSE
  /\ UNCHANGED <<closedBit, inside, asyncSet, mutex, queueVars, pending,
                 handle, status, statusOwner, prodVars, reactVars>>

-----------------------------------------------------------------------------
(* Sending: sendMessage and enqueue_outer_message *)

MaySend(p) == IF p = Stopper THEN sent[p] = 0 ELSE sent[p] < MaxSends

(* A caller takes contextStatus and looks at it; a stream goes right in. *)
Send(p) ==
  /\ pc[p] = "idle" /\ MaySend(p)
  /\ p \in Haskell => queueAlive /\ statusOwner = Nobody
  /\ answer' = [answer EXCEPT ![p] = IF p \in Haskell /\ status # "running"
                                     THEN "closed" ELSE "none"]
  /\ IF p \in Haskell /\ status # "running"
     THEN UNCHANGED <<pc, statusOwner>>
     ELSE /\ Goto(p, "check")
          /\ statusOwner' = IF p \in Haskell THEN p ELSE statusOwner
  /\ UNCHANGED <<senderVars, queueVars, pending, handle, queueAlive, status,
                 sent, slot, reactVars>>

(* The early look at SENDER_CLOSED_BIT. *)
CheckClosed(p) ==
  /\ pc[p] = "check"
  /\ IF closedBit THEN Return(p, "closed")
     ELSE Goto(p, "enter") /\ UNCHANGED <<sent, answer, status, statusOwner>>
  /\ UNCHANGED <<senderVars, queueVars, pending, handle, queueAlive, slot,
                 reactVars>>

(* calloc fails. *)
OutOfMemory(p) ==
  /\ pc[p] = "enter"
  /\ Return(p, "oom")
  /\ UNCHANGED <<senderVars, queueVars, pending, handle, queueAlive, slot,
                 reactVars>>

(* May a producer still get in?  The mutant trusts the early look. *)
MayEnterStale == TRUE
MayEnter == ~closedBit

(* message_sender_enter: the CAS that succeeds, or the load that sees the   *)
(* bit.                                                                     *)
Enter(p) ==
  /\ pc[p] = "enter"
  /\ IF MayEnter
     THEN /\ inside' = inside + 1
          /\ Goto(p, "count")
          /\ UNCHANGED <<sent, answer, status, statusOwner>>
     ELSE UNCHANGED inside /\ Return(p, "closed")
  /\ UNCHANGED <<references, closedBit, asyncSet, mutex, queueVars, pending,
                 handle, queueAlive, slot, reactVars>>

(* The full test of mpscq_enqueue, and one that is off by one. *)
FitsOffByOne == count <= Max
Fits == count < Max

IncCount(p) ==
  /\ pc[p] = "count"
  /\ count' = count + 1
  /\ Goto(p, IF Fits THEN "ticket" ELSE "backoff")
  /\ UNCHANGED <<senderVars, buffer, head, tail, tickets, taken, agentVars,
                 sent, slot, answer, reactVars>>

BackOff(p) ==
  /\ pc[p] = "backoff"
  /\ count' = count - 1
  /\ Goto(p, "leaveFull")
  /\ UNCHANGED <<senderVars, buffer, head, tail, tickets, taken, agentVars,
                 sent, slot, answer, reactVars>>

TakeTicket(p) ==
  /\ pc[p] = "ticket"
  /\ slot' = [slot EXCEPT ![p] = head % Max]
  /\ head' = (head + 1) % Word
  /\ tickets' = Append(tickets, Msg(p))
  /\ Goto(p, "store")
  /\ UNCHANGED <<senderVars, buffer, tail, count, taken, agentVars, sent,
                 answer, reactVars>>

Store(p) ==
  /\ pc[p] = "store"
  /\ buffer' = [buffer EXCEPT ![slot[p]] = Msg(p)]
  /\ Goto(p, "send")
  /\ UNCHANGED <<senderVars, head, tail, count, tickets, taken, agentVars,
                 sent, slot, answer, reactVars>>

(* Is the loop woken?  Always; the mutant does it for a first message only. *)
WakesIfFirst == count = 1
Wakes == TRUE

(* uv_async_send coalesces with a wake-up that was not delivered yet. *)
AsyncSend(p) ==
  /\ pc[p] = "send"
  /\ pending' = (pending \/ Wakes)
  /\ Goto(p, "leaveOk")
  /\ UNCHANGED <<senderVars, queueVars, handle, queueAlive, status,
                 statusOwner, sent, slot, answer, reactVars>>

(* message_sender_leave: the last one out of a closed gate signals; the     *)
(* mutant misses that it was the last.                                      *)
LastOutMissed == closedBit /\ inside = 0
LastOut == closedBit /\ inside = 1

(* What the caller is told; the mutant forgets that the queue was full. *)
AlwaysOk(p) == "ok"
ResultOf(p) == IF pc[p] \in {"leaveOk", "signalOk"} THEN "ok" ELSE "full"

Leave(p) ==
  /\ pc[p] \in {"leaveOk", "leaveFull"}
  /\ inside' = inside - 1
  /\ IF LastOut
     THEN /\ Goto(p, IF pc[p] = "leaveOk" THEN "signalOk" ELSE "signalFull")
          /\ UNCHANGED <<sent, answer, status, statusOwner>>
     ELSE Return(p, ResultOf(p))
  /\ UNCHANGED <<references, closedBit, asyncSet, mutex, queueVars, pending,
                 handle, queueAlive, slot, reactVars>>

(* lock, uv_cond_signal, unlock: one step, nothing else needs the mutex. *)
Signal(p) ==
  /\ pc[p] \in {"signalOk", "signalFull"} /\ ~mutex
  /\ rpc' = IF rpc = "asleep" THEN "relock" ELSE rpc
  /\ Return(p, ResultOf(p))
  /\ UNCHANGED <<senderVars, queueVars, pending, handle, queueAlive, slot,
                 got, stopped>>

Inside(p) == pc[p] \in {"count", "backoff", "ticket", "store", "send",
                        "leaveOk", "leaveFull"}

ProducerStep(p) ==
  \/ CheckClosed(p) \/ Enter(p) \/ IncCount(p) \/ BackOff(p) \/ TakeTicket(p)
  \/ Store(p) \/ AsyncSend(p) \/ Leave(p) \/ Signal(p)

-----------------------------------------------------------------------------
(* The reactor: async_check_outer_messages *)

RGoto(l) == rpc' = l

(* libuv clears the wake-up before it calls back. *)
Callback ==
  /\ rpc = "poll" /\ pending
  /\ pending' = FALSE
  /\ RGoto("dequeue")
  /\ UNCHANGED <<senderVars, queueVars, handle, queueAlive, status,
                 statusOwner, prodVars, got, stopped>>

(* The slot after tail, and one that wraps around too late. *)
NextTailLate == IF tail + 1 > Max THEN 0 ELSE tail + 1
NextTail == IF tail + 1 >= Max THEN 0 ELSE tail + 1

(* mpscq_dequeue's exchange and its private tail; an empty slot ends the    *)
(* callback or the drain, even with later slots full.                       *)
Exchange(next, empty) ==
  /\ IF buffer[tail] = NoMsg
     THEN RGoto(empty) /\ UNCHANGED <<buffer, tail, taken, got>>
     ELSE /\ got' = buffer[tail]
          /\ taken' = Append(taken, buffer[tail])
          /\ buffer' = [buffer EXCEPT ![tail] = NoMsg]
          /\ tail' = NextTail
          /\ RGoto(next)
  /\ UNCHANGED <<senderVars, head, count, tickets, agentVars, prodVars,
                 stopped>>

(* uv_stop makes uv_run return once the callback is over. *)
Dequeue ==
  /\ rpc = "dequeue"
  /\ Exchange("dispatch", IF stopped THEN "exit" ELSE "poll")

(* fetch_sub on count, then the handler: STOP shuts the context down. *)
Dispatch ==
  /\ rpc = "dispatch"
  /\ count' = count - 1
  /\ RGoto(IF IsStop(got) THEN "close" ELSE "dequeue")
  /\ UNCHANGED <<senderVars, buffer, head, tail, tickets, taken, agentVars,
                 prodVars, got, stopped>>

(* A fatal error of curl_multi_socket_action shuts the context down too. *)
FatalError ==
  /\ rpc = "poll"
  /\ got' = NoMsg
  /\ RGoto("close")
  /\ UNCHANGED <<senderVars, queueVars, agentVars, prodVars, stopped>>

-----------------------------------------------------------------------------
(* The reactor: message_sender_close, shutdown_message_context, run *)

CloseGate ==
  /\ rpc = "close"
  /\ closedBit' = TRUE
  /\ RGoto("relock")
  /\ UNCHANGED <<references, inside, asyncSet, mutex, queueVars, agentVars,
                 prodVars, got, stopped>>

LockClose ==
  /\ rpc = "relock" /\ ~mutex
  /\ mutex' = TRUE
  /\ RGoto("look")
  /\ UNCHANGED <<references, closedBit, inside, asyncSet, queueVars,
                 agentVars, prodVars, got, stopped>>

(* Does close still wait?  The mutant does not. *)
NeverWait == FALSE
MustWait == inside # 0

(* The loop condition, read under the mutex that leave does not need for    *)
(* its fetch_sub.                                                           *)
LookInside ==
  /\ rpc = "look"
  /\ RGoto(IF MustWait THEN "sleep" ELSE "sealed")
  /\ UNCHANGED <<senderVars, queueVars, agentVars, prodVars, got, stopped>>

(* uv_cond_wait gives the mutex up and sleeps; it may return unsignalled. *)
SleepClose ==
  /\ rpc = "sleep"
  /\ mutex' = FALSE
  /\ RGoto("asleep")
  /\ UNCHANGED <<references, closedBit, inside, asyncSet, queueVars,
                 agentVars, prodVars, got, stopped>>

SpuriousWake ==
  /\ rpc = "asleep"
  /\ RGoto("relock")
  /\ UNCHANGED <<senderVars, queueVars, agentVars, prodVars, got, stopped>>

(* Forget the handle and unlock.  A second shutdown finds no registry and   *)
(* returns; the first finishes what is registered, then drains.             *)
SealGate ==
  /\ rpc = "sealed"
  /\ asyncSet' = FALSE
  /\ mutex' = FALSE
  /\ RGoto(IF stopped THEN "uvClose" ELSE "drain")
  /\ UNCHANGED <<references, closedBit, inside, queueVars, agentVars,
                 prodVars, got, stopped>>

Drain ==
  /\ rpc = "drain"
  /\ Exchange("drainCount", "drained")

DrainCount ==
  /\ rpc = "drainCount"
  /\ count' = count - 1
  /\ RGoto("drain")
  /\ UNCHANGED <<senderVars, buffer, head, tail, tickets, taken, agentVars,
                 prodVars, got, stopped>>

(* registry_destroy and uv_stop; a STOP handler goes back to its loop. *)
Drained ==
  /\ rpc = "drained"
  /\ stopped' = TRUE
  /\ RGoto(IF got = NoMsg THEN "exit" ELSE "dequeue")
  /\ UNCHANGED <<senderVars, queueVars, agentVars, prodVars, got>>

(* run: uv_run has returned; Running becomes Stopping, then agent_shutdown  *)
(* shuts the context down a second time.                                    *)
ExitRun ==
  /\ rpc = "exit" /\ statusOwner = Nobody
  /\ status' = "stopping"
  /\ RGoto("close")
  /\ UNCHANGED <<senderVars, queueVars, pending, handle, queueAlive,
                 statusOwner, prodVars, got, stopped>>

(* uv_walk closes the async handle and the loop runs until it is gone. *)
UvClose ==
  /\ rpc = "uvClose"
  /\ handle' = FALSE
  /\ RGoto("release")
  /\ UNCHANGED <<senderVars, queueVars, pending, queueAlive, status,
                 statusOwner, prodVars, got, stopped>>

(* destroy_message_context, and free of the handle and the loop. *)
ReleaseContext ==
  /\ rpc = "release"
  /\ references' = references - 1
  /\ RGoto("finish")
  /\ UNCHANGED <<closedBit, inside, asyncSet, mutex, queueVars, agentVars,
                 prodVars, got, stopped>>

FinishRun ==
  /\ rpc = "finish" /\ statusOwner = Nobody
  /\ status' = "stopped"
  /\ RGoto("done")
  /\ UNCHANGED <<senderVars, queueVars, pending, handle, queueAlive,
                 statusOwner, prodVars, got, stopped>>

ReactorStep ==
  \/ Callback \/ Dequeue \/ Dispatch \/ CloseGate \/ LockClose \/ LookInside
  \/ SleepClose \/ SealGate \/ Drain \/ DrainCount \/ Drained
  \/ ExitRun \/ UvClose \/ ReleaseContext \/ FinishRun

Next ==
  \/ \E s \in Streams : Retain(s) \/ Release(s)
  \/ \E p \in Producers : Send(p) \/ ProducerStep(p) \/ OutOfMemory(p)
  \/ ReactorStep \/ FatalError \/ SpuriousWake \/ CollectAgent

Spec == Init /\ [][Next]_vars

(* Every thread that is inside C code goes on and the loop delivers a       *)
(* pending wake-up.  A started stopAgent retries; it gets the MVar, which   *)
(* is handed out in order, and memory in the end.  Nobody has to send, no   *)
(* error has to happen and no wait has to end without its signal.           *)
FairSpec ==
  /\ Spec
  /\ \A p \in Producers : WF_vars(ProducerStep(p))
  /\ SF_vars(answer[Stopper] \in {"full", "oom"} /\ Send(Stopper))
  /\ SF_vars(Enter(Stopper))
  /\ WF_vars(ReactorStep) /\ SF_vars(ExitRun) /\ SF_vars(FinishRun)

-----------------------------------------------------------------------------
(* Properties *)

RPcs == {"poll", "dequeue", "dispatch", "close", "relock", "look", "sleep",
         "asleep", "sealed", "drain", "drainCount", "drained", "exit",
         "uvClose", "release", "finish", "done"}

PPcs == {"new", "idle", "gone", "check", "enter", "count", "backoff",
         "ticket", "store", "send", "leaveOk", "leaveFull", "signalOk",
         "signalFull"}

(* Every variable has its type; the producer count is the number of threads *)
(* inside the gate, and q->count bounds the slots in use.                   *)
TypeOK ==
  /\ references \in Nat /\ closedBit \in BOOLEAN /\ asyncSet \in BOOLEAN
  /\ mutex \in BOOLEAN /\ inside = Cardinality({p \in Producers : Inside(p)})
  /\ buffer \in [0..(Max - 1) -> Messages \cup {NoMsg}]
  /\ head \in 0..(Word - 1) /\ tail \in 0..(Max - 1)
  /\ count \in Nat /\ Len(tickets) - Len(taken) <= count
  /\ pending \in BOOLEAN /\ handle \in BOOLEAN /\ queueAlive \in BOOLEAN
  /\ status \in {"running", "stopping", "stopped"}
  /\ statusOwner \in Haskell \cup {Nobody}
  /\ pc \in [Producers -> PPcs] /\ sent \in [Producers -> 0..MaxSends]
  /\ slot \in [Producers -> 0..(Max - 1)]
  /\ answer \in [Producers -> {"none", "ok", "full", "oom", "closed"}]
  /\ rpc \in RPcs /\ got \in Messages \cup {NoMsg} /\ stopped \in BOOLEAN
  /\ tickets \in Seq(Messages) /\ taken \in Seq(Messages)

(* The asserts of mpscq_enqueue: a ticket's slot is empty when its message  *)
(* is stored, so no message is overwritten, also when head wraps around;    *)
(* and count and inside, which the tests rely on, are true (TypeOK).        *)
SlotIsFree ==
  /\ TypeOK
  /\ \A p \in Producers : pc[p] = "store" => buffer[slot[p]] = NoMsg

(* Nothing a producer touches is gone: the sender while it is in any call,  *)
(* the queue and the uv_async_t while it is inside the gate.                *)
NoUseAfterFree ==
  \A p \in Producers :
    /\ pc[p] \notin {"new", "gone"} /\ (p \in Haskell => pc[p] # "idle") => Alive
    /\ Inside(p) => queueAlive /\ handle /\ asyncSet

(* The answer of enqueue_outer_message is the truth: the reactor gets the   *)
(* message of an OK, and never the one of a FULL or CLOSED, which the       *)
(* caller frees.                                                            *)
AnswerIsTrue ==
  \A p \in Producers : \A n \in 1..MaxSends :
    LET accepted == \E i \in 1..Len(tickets) : tickets[i] = <<p, n>> IN
      /\ n <= sent[p] => accepted
      /\ n = sent[p] + 1 /\ pc[p] \in {"idle", "gone"} => ~accepted

(* The accepted messages not taken yet, in the order of their tickets. *)
Channel == INSTANCE ControlChannel WITH
  queue <- SubSeq(tickets, Len(taken) + 1, Len(tickets)),
  phase <- IF ~handle THEN "destroyed"
           ELSE IF ~closedBit THEN "open"
           ELSE IF asyncSet THEN "closing" ELSE "sealed"

(* The gate and the queue implement the channel its users count on. *)
ImplementsChannel == Channel!Spec

(* Wake-ups that coalesce and a dequeue that stops at a slot still being    *)
(* written lose nothing: what was accepted is handed over.                  *)
AcceptedIsTaken ==
  \A m \in Messages : Channel!In(m, tickets) ~> Channel!In(m, taken)

(* stopAgent ends the reactor: STOP gets through, and the close does not    *)
(* wait for ever for a producer that has left.                              *)
StopReturns == pc[Stopper] = "check" ~> rpc = "done"
=============================================================================
