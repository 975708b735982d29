------------------------------ MODULE Reactor -------------------------------
(***************************************************************************)
(* The transfers of one agent, several at a time: the registry and the     *)
(* message handlers of cbits/message_chan.c, the result cell of extras.c   *)
(* and the Haskell owner of each transfer (startTransferWith).  Stream     *)
(* follows one transfer in detail; here is what transfers do to each       *)
(* other: hash collisions, resizing, duplicate IDs, late control messages, *)
(* and a shutdown with transfers queued, registered and being finished.    *)
(***************************************************************************)
EXTENDS Naturals, FiniteSets, Sequences

CONSTANTS
  Transfers, NoTransfer, \* transfer_t, the easy handle with it, and NULL
  Id,                    \* transfer->id; two transfers may have the same one
  Hash,                  \* hash_transfer_id, any function of the ID
  InitialBuckets,        \* INITIAL_BUCKET_COUNT
  MaxLoad,               \* entries per bucket before a resize, 2 in the code
  MaxQueue,              \* capacity of the agent's queue
  MaxResumes             \* bound: RESUMEs of all transfers together

Ids == {Id[t] : t \in Transfers}

ASSUME ReactorAssumption ==
  /\ IsFiniteSet(Transfers) /\ NoTransfer \notin Transfers
  /\ Id \in [Transfers -> Nat \ {0}] /\ Hash \in [Ids -> Nat]
  /\ {InitialBuckets, MaxLoad, MaxQueue} \subseteq Nat \ {0}
  /\ MaxResumes \in Nat

VARIABLES
  buckets, count,  \* transfer_registry_t; a chain is the set of its entries
  chan,            \* accepted messages, oldest first
  resumes,         \* how many of them were RESUMEs
  stopping,        \* contextStatus has left AgentContextRunning
  senderClosed,    \* SENDER_CLOSED_BIT
  active,          \* the handles in the multi handle (transfer->active)
  msgs,            \* those with a CURLMSG_DONE that has not been read
  pc,              \* "loop" | "finish" | "shutdown" | "stopped"
  cur, code, step, \* the transfer being finished, its code, and how far
  todo,            \* the chains shutdown_message_context has detached
  completed, done, \* hs_easy_data.completed, and doneRequest
  cleanups,        \* calls of curl_easy_cleanup
  user,            \* the Haskell owner of each transfer
  cancelled        \* history: the transfers whose owner sent a CANCEL

registryVars == <<buckets, count>>
chanVars     == <<chan, resumes, stopping, senderClosed>>
curlVars     == <<active, msgs>>
finishVars   == <<pc, cur, code, step, todo>>
resultVars   == <<completed, done, cleanups>>
ownerVars    == <<user, cancelled>>
vars == <<registryVars, chanVars, curlVars, finishVars, resultVars, ownerVars>>

(* What libcurl reports or a failure, and CURLE_ABORTED_BY_CALLBACK. *)
Codes == {"curl", "aborted"}

Message(tag, t) ==
  [tag |-> tag, id |-> Id[t], easy |-> IF tag = "EXECUTE" THEN t ELSE NoTransfer]
Stop == [tag |-> "STOP", id |-> 0, easy |-> NoTransfer]
Messages == {Message(tag, t) : tag \in {"EXECUTE", "CANCEL", "RESUME"},
                               t \in Transfers} \cup {Stop}

Init ==
  /\ buckets = [i \in 0..(InitialBuckets - 1) |-> {}] /\ count = 0
  /\ chan = <<>> /\ resumes = 0 /\ stopping = FALSE /\ senderClosed = FALSE
  /\ active = {} /\ msgs = {}
  /\ pc = "loop" /\ cur = NoTransfer /\ code = "curl" /\ step = 1 /\ todo = {}
  /\ completed = [t \in Transfers |-> FALSE]
  /\ done = [t \in Transfers |-> FALSE]
  /\ cleanups = [t \in Transfers |-> 0]
  /\ user = [t \in Transfers |-> "new"] /\ cancelled = {}

-----------------------------------------------------------------------------
(* The registry *)

Size(table) == Cardinality(DOMAIN table)
Entries(table) == UNION {table[i] : i \in DOMAIN table}
Bucket(id, size) == Hash[id] % size

(* Is e the entry a walk of the chain is looking for?  The mutant takes the *)
(* first one of the chain.                                                  *)
SameChain(e, id) == TRUE
SameId(e, id) == Id[e] = id

(* registry_find: at most one entry, and none once the buckets are freed. *)
Find(table, id) ==
  IF Size(table) = 0 THEN {}
  ELSE LET found == {e \in table[Bucket(id, Size(table))] : SameId(e, id)}
       IN  IF found = {} THEN {} ELSE {CHOOSE e \in found : TRUE}

(* registry_resize, and a rehash that still masks with the old size. *)
ResizedOldMask(table) ==
  [i \in 0..(2 * Size(table) - 1) |->
     {e \in Entries(table) : Bucket(Id[e], Size(table)) = i}]
Resized(table) ==
  [i \in 0..(2 * Size(table) - 1) |->
     {e \in Entries(table) : Bucket(Id[e], 2 * Size(table)) = i}]

(* registry_insert; without memory for a larger table the chains grow. *)
Insert(t) ==
  \E table \in {buckets} \cup (IF count >= Size(buckets) * MaxLoad
                               THEN {Resized(buckets)} ELSE {}) :
    /\ buckets' = [table EXCEPT ![Bucket(Id[t], Size(table))] = @ \cup {t}]
    /\ count' = count + 1

(* registry_remove *)
Remove(id) ==
  LET found == Find(buckets, id) IN
  /\ buckets' = [i \in DOMAIN buckets |-> buckets[i] \ found]
  /\ count' = count - Cardinality(found)

-----------------------------------------------------------------------------
(* Finishing a transfer *)

(* finish_detached_transfer and fail_unregistered_transfer: the result, the *)
(* streams and curl_easy_cleanup, and last the wake-up of the owner.        *)
FinishOrder == <<"result", "cleanup", "wake">>

Begin(t, c) ==
  /\ pc' = "finish" /\ step' = 1
  /\ cur' = t /\ code' = c

At(s) == pc = "finish" /\ FinishOrder[step] = s

Advance ==
  IF step < Len(FinishOrder) THEN step' = step + 1 /\ UNCHANGED <<pc, cur, code>>
  ELSE /\ step' = 1 /\ cur' = NoTransfer
       /\ IF senderClosed THEN pc' = "shutdown" /\ UNCHANGED code
          ELSE pc' = "loop" /\ code' = "curl"

(* curl_multi_remove_handle, which also drops a message that was not read,  *)
(* curl_metrics_finish and hs_easy_data_set_result.                         *)
SetResult ==
  /\ At("result") /\ Advance
  /\ active' = active \ {cur} /\ msgs' = msgs \ {cur}
  /\ completed' = [completed EXCEPT ![cur] = TRUE]
  /\ UNCHANGED <<registryVars, chanVars, todo, done, cleanups, ownerVars>>

(* hcurl_stream_complete of both streams, curl_easy_cleanup *)
Cleanup ==
  /\ At("cleanup") /\ Advance
  /\ cleanups' = [cleanups EXCEPT ![cur] = @ + 1]
  /\ UNCHANGED <<registryVars, chanVars, curlVars, todo, completed, done,
                 ownerVars>>

(* hs_easy_data_wake *)
Wake ==
  /\ At("wake") /\ Advance
  /\ done' = [done EXCEPT ![cur] = TRUE]
  /\ UNCHANGED <<registryVars, chanVars, curlVars, todo, completed, cleanups,
                 ownerVars>>

-----------------------------------------------------------------------------
(* The handlers of async_check_outer_messages *)

AtLoop == pc = "loop" /\ msgs = {}
Receive(tag) == AtLoop /\ chan # <<>> /\ Head(chan).tag = tag /\ chan' = Tail(chan)

(* A duplicate ID fails the new submission; the mutant also takes the entry *)
(* out that it found under the ID.                                          *)
RefuseByRemoving(t) == Remove(Id[t])
Refuse(t) == UNCHANGED registryVars

(* execute_transfer: calloc fails or the ID is taken; CURLOPT_PRIVATE or    *)
(* curl_multi_add_handle fails, which takes the entry out again.            *)
ExecuteFails ==
  /\ Receive("EXECUTE")
  /\ LET t == Head(chan).easy IN
     /\ IF Find(buckets, Id[t]) # {} THEN Refuse(t) ELSE UNCHANGED registryVars
     /\ Begin(t, "curl")
  /\ UNCHANGED <<resumes, stopping, senderClosed, curlVars, todo, resultVars,
                 ownerVars>>

ExecuteOk ==
  /\ Receive("EXECUTE")
  /\ LET t == Head(chan).easy IN
     /\ Find(buckets, Id[t]) = {}
     /\ Insert(t)
     /\ active' = active \cup {t}
  /\ UNCHANGED <<resumes, stopping, senderClosed, msgs, finishVars, resultVars,
                 ownerVars>>

(* cancel_transfer; a CANCEL that comes too late finds nothing. *)
CancelTransfer ==
  /\ Receive("CANCEL")
  /\ Remove(Head(chan).id)
  /\ \/ \E t \in Find(buckets, Head(chan).id) : Begin(t, "aborted")
     \/ Find(buckets, Head(chan).id) = {} /\ UNCHANGED <<pc, cur, code, step>>
  /\ UNCHANGED <<resumes, stopping, senderClosed, curlVars, todo, resultVars,
                 ownerVars>>

(* resume_transfer: curl_easy_pause works, and may complete transfers, or   *)
(* fails and ends this one.                                                 *)
ResumeTransfer ==
  /\ Receive("RESUME")
  /\ LET found == Find(buckets, Head(chan).id) IN
     \/ /\ msgs' \in (IF found = {} THEN {{}} ELSE SUBSET active)
        /\ UNCHANGED <<registryVars, pc, cur, code, step>>
     \/ /\ \E t \in found : Begin(t, "curl")
        /\ Remove(Head(chan).id)
        /\ UNCHANGED msgs
  /\ UNCHANGED <<resumes, stopping, senderClosed, active, todo, resultVars,
                 ownerVars>>

(* curl_multi_socket_action: libcurl is through with some transfers. *)
CurlRuns ==
  /\ AtLoop
  /\ \E some \in SUBSET active : some # {} /\ msgs' = some
  /\ UNCHANGED <<registryVars, chanVars, active, finishVars, resultVars, ownerVars>>

(* check_multi_info and complete_transfer, for one message. *)
CompleteTransfer(t) ==
  /\ pc = "loop" /\ t \in msgs
  /\ Remove(Id[t])
  /\ IF t \in Find(buckets, Id[t])
     THEN Begin(t, "curl") /\ UNCHANGED msgs
     ELSE msgs' = msgs \ {t} /\ UNCHANGED <<pc, cur, code, step>>
  /\ UNCHANGED <<chanVars, active, todo, resultVars, ownerVars>>

-----------------------------------------------------------------------------
(* shutdown_message_context, on STOP_AGENT or after a fatal multi error *)

BeginShutdown(c) ==
  /\ senderClosed' = TRUE
  /\ todo' = Entries(buckets)
  /\ buckets' = [i \in DOMAIN buckets |-> {}] /\ count' = 0
  /\ code' = c /\ pc' = "shutdown"
  /\ UNCHANGED <<resumes, stopping, curlVars, cur, step, resultVars, ownerVars>>

StopAgent == Receive("STOP") /\ BeginShutdown("aborted")
FatalError == pc = "loop" /\ BeginShutdown("curl") /\ UNCHANGED chan

ShutdownTransfer ==
  /\ pc = "shutdown"
  /\ \E t \in todo : Begin(t, code) /\ todo' = todo \ {t}
  /\ UNCHANGED <<registryVars, chanVars, curlVars, resultVars, ownerVars>>

(* What the drain fails instead of dropping; the mutant drops everything. *)
DrainFailsNone(m) == FALSE
DrainFails(m) == m.tag = "EXECUTE"

Drain ==
  /\ pc = "shutdown" /\ todo = {} /\ chan # <<>>
  /\ chan' = Tail(chan)
  /\ IF DrainFails(Head(chan)) THEN Begin(Head(chan).easy, code)
     ELSE UNCHANGED <<pc, cur, code, step>>
  /\ UNCHANGED <<registryVars, resumes, stopping, senderClosed, curlVars, todo,
                 resultVars, ownerVars>>

(* registry_destroy, then agent_shutdown; a second call finds no buckets. *)
Stopped ==
  /\ pc = "shutdown" /\ todo = {} /\ chan = <<>>
  /\ pc' = "stopped"
  /\ buckets' = <<>> /\ count' = 0
  /\ UNCHANGED <<chanVars, curlVars, cur, code, step, todo, resultVars, ownerVars>>

-----------------------------------------------------------------------------
(* The owners: startTransferWith and what it returns *)

Send(m) == ~senderClosed /\ Len(chan) < MaxQueue /\ chan' = Append(chan, m)
Becomes(t, s) == user' = [user EXCEPT ![t] = s]
quiet == <<registryVars, curlVars, finishVars, resumes, stopping, senderClosed>>

(* submit: EXECUTE is accepted; QueueFull is tried again. *)
Submit(t) ==
  /\ user[t] = "new" /\ ~stopping
  /\ Send(Message("EXECUTE", t))
  /\ Becomes(t, "running")
  /\ UNCHANGED <<quiet, resultVars, cancelled>>

(* The request cannot be built, the agent is closed, memory is short or an  *)
(* exception ends the retries: cleanupEasy, releaseUnsubmitted.             *)
ReleaseUnsubmitted(t) ==
  /\ user[t] = "new"
  /\ cleanups' = [cleanups EXCEPT ![t] = @ + 1]
  /\ Becomes(t, "released")
  /\ UNCHANGED <<quiet, chan, completed, done, cancelled>>

(* The owner closes the transfer. *)
StartClose(t) ==
  /\ user[t] = "running"
  /\ Becomes(t, "cancel")
  /\ UNCHANGED <<quiet, chan, resultVars, cancelled>>

(* requestCancel: nothing to do after completion or in a closed agent, and  *)
(* a full queue is tried again.                                             *)
RequestCancel(t) ==
  /\ user[t] = "cancel"
  /\ \/ (done[t] \/ stopping \/ senderClosed) /\ UNCHANGED <<chan, cancelled>>
     \/ /\ ~done[t] /\ Send(Message("CANCEL", t))
        /\ cancelled' = cancelled \cup {t}
  /\ Becomes(t, "await")
  /\ UNCHANGED <<quiet, resultVars>>

(* A stream of the transfer was read. *)
RequestResume(t) ==
  /\ user[t] = "running" /\ resumes < MaxResumes
  /\ resumes' = resumes + 1
  /\ Send(Message("RESUME", t))
  /\ UNCHANGED <<registryVars, curlVars, finishVars, stopping, senderClosed,
                 resultVars, ownerVars>>

(* When may finishOnce release what C borrows?  The mutant looks at the     *)
(* result instead of waiting for doneRequest.                               *)
ResultKnown(t) == completed[t]
Finished(t) == done[t]

(* finishOnce: readMVar doneRequest, the resources, the lease. *)
Release(t) ==
  /\ user[t] \in {"running", "await"} /\ Finished(t)
  /\ Becomes(t, "released")
  /\ UNCHANGED <<quiet, chan, resultVars, cancelled>>

(* stopAgent *)
RequestStop ==
  /\ ~stopping /\ Send(Stop)
  /\ stopping' = TRUE
  /\ UNCHANGED <<registryVars, resumes, senderClosed, curlVars, finishVars,
                 resultVars, ownerVars>>

-----------------------------------------------------------------------------
ReactorStep ==
  \/ SetResult \/ Cleanup \/ Wake
  \/ ExecuteOk \/ ExecuteFails \/ CancelTransfer \/ ResumeTransfer \/ StopAgent
  \/ \E t \in Transfers : CompleteTransfer(t)
  \/ ShutdownTransfer \/ Drain \/ Stopped

OwnerStep(t) == RequestCancel(t) \/ Release(t)

Next ==
  \/ ReactorStep \/ CurlRuns \/ FatalError \/ RequestStop
  \/ \E t \in Transfers :
       \/ OwnerStep(t) \/ Submit(t) \/ ReleaseUnsubmitted(t)
       \/ StartClose(t) \/ RequestResume(t)

(* The reactor and a closing owner run.  Nothing is assumed of libcurl.     *)
Spec ==
  /\ Init /\ [][Next]_vars
  /\ WF_vars(ReactorStep)
  /\ \A t \in Transfers : WF_vars(OwnerStep(t))

-----------------------------------------------------------------------------
(* Properties *)

TypeOK ==
  /\ count \in Nat /\ Entries(buckets) \subseteq Transfers
  /\ chan \in Seq(Messages) /\ Len(chan) <= MaxQueue
  /\ resumes \in 0..MaxResumes /\ stopping \in BOOLEAN /\ senderClosed \in BOOLEAN
  /\ active \subseteq Transfers /\ msgs \subseteq active
  /\ pc \in {"loop", "finish", "shutdown", "stopped"}
  /\ cur \in Transfers \cup {NoTransfer} /\ code \in Codes
  /\ step \in 1..Len(FinishOrder) /\ todo \subseteq Transfers
  /\ completed \in [Transfers -> BOOLEAN] /\ done \in [Transfers -> BOOLEAN]
  /\ cleanups \in [Transfers -> Nat]
  /\ user \in [Transfers -> {"new", "running", "cancel", "await", "released"}]
  /\ cancelled \subseteq Transfers

(* registry_find reaches every entry, through collisions and resizing: each *)
(* ID leads to the one transfer registered under it, and count is true.     *)
RegistryFinds ==
  /\ TypeOK
  /\ count = Cardinality(Entries(buckets))
  /\ \A t \in Entries(buckets) : Find(buckets, Id[t]) = {t}

Queued(t) == \E i \in 1..Len(chan) : chan[i].easy = t

(* Who owns an easy handle: its builder, the queue, the registry, the       *)
(* detached chains, the reactor's hand, or, once it is cleaned up, nobody.  *)
Owners(t) ==
  UNION {{o \in {"builder"}  : user[t] = "new"},
         {o \in {"queue"}    : Queued(t)},
         {o \in {"registry"} : t \in Entries(buckets)},
         {o \in {"detached"} : t \in todo},
         {o \in {"reactor"}  : cur = t},
         {o \in {"nobody"}   : cleanups[t] = 1 /\ cur # t}}

(* An easy handle has one owner at a time.  It is cleaned up once, and by   *)
(* then libcurl does not hold it.                                           *)
OneOwner ==
  \A t \in Transfers :
    /\ Cardinality(Owners(t)) = 1
    /\ cleanups[t] <= 1
    /\ t \in active => Owners(t) \subseteq {"registry", "detached", "reactor"}
    /\ user[t] = "released" \/ done[t] => cleanups[t] = 1

(* Transfer.hs:46: the Haskell owners of what libcurl borrows stay live     *)
(* until the agent has stopped dereferencing the transfer.                  *)
BorrowedUntilDone ==
  \A t \in Transfers :
    user[t] = "released" =>
      ~Queued(t) /\ t \notin Entries(buckets) \cup todo \cup active /\ cur # t

(* A transfer is aborted only when the agent was stopped or a CANCEL with   *)
(* its ID was sent: by its own owner, when no other transfer has that ID    *)
(* (newTransferId never repeats one).  Submitting, refusing or releasing a  *)
(* duplicate does not end the transfer that has the ID (message_chan.c:321, *)
(* Spec.hs:1188), nor does a colliding ID's CANCEL; a duplicate's close     *)
(* sends a CANCEL with the ID they share, and that one does.                *)
AbortedForCause ==
  pc = "finish" /\ code = "aborted" =>
    stopping \/ \E u \in cancelled : Id[u] = Id[cur]

(* closeTransfer comes back and a stopping agent completes every transfer   *)
(* it has accepted, though libcurl may never finish one.                    *)
EndsRelease ==
  \A t \in Transfers :
    user[t] = "cancel" \/ (senderClosed /\ user[t] = "running")
      ~> user[t] = "released"
=============================================================================
