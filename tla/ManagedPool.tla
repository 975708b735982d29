----------------------------- MODULE ManagedPool -----------------------------
(***************************************************************************)
(* The managed pool of src/HCurl/Internal/Agent.hs: leases that clients    *)
(* take and return, growth at admission, the controller that drains and    *)
(* retires idle workers and restores the minimum, reactors that stop by    *)
(* themselves, and closeAgent with the attempts of its runOnce.            *)
(*                                                                         *)
(* maState is one MVar, so what a thread does while it holds it is one     *)
(* step; the controller reads the clock before it takes the MVar, and      *)
(* every stopAgent happens after it was given back.  Times are in the      *)
(* units of the cooldowns and wrap around like Word64.                     *)
(***************************************************************************)
EXTENDS Integers, FiniteSets, FiniteSetsExt

CONSTANTS
  Clients, Controller, Closer,    \* the threads
  NoWorker,
  MinAgents, MaxAgents, GrowLoad, ShrinkLoad, SustainTicks,
  SpawnCooldown, KillCooldown,    \* ManagedPolicy
  Smoothed,      \* mpEwmaAlpha < 1: the smoothed demand may be anything
  Word,          \* the modulus of Word64
  MaxWorkers,    \* bound: the worker ID space
  MaxTime,       \* bound: the clock
  MaxFaults      \* bound: reactors that fail by themselves and leaseDone calls
                 \* that are interrupted

(* What clampPolicy leaves; the controller and the closer are threads of    *)
(* their own.                                                               *)
ASSUME PoolAssumption ==
  /\ MinAgents \in Nat \ {0} /\ MaxAgents \in Nat /\ MinAgents <= MaxAgents
  /\ GrowLoad \in Nat \ {0} /\ ShrinkLoad \in Nat
  /\ SustainTicks \in Nat \ {0} /\ Smoothed \in BOOLEAN
  /\ SpawnCooldown \in Nat /\ KillCooldown \in Nat
  /\ MaxTime \in Nat /\ Word \in Nat /\ Word > MaxTime /\ Word > KillCooldown
  /\ MaxWorkers \in Nat /\ MinAgents <= MaxWorkers
  /\ MaxFaults \in Nat
  /\ NoWorker \notin 1..MaxWorkers
  /\ Controller # Closer /\ {Controller, Closer} \cap Clients = {}

Workers == 1..MaxWorkers
Threads == Clients \cup {Controller, Closer}

VARIABLES
  (* ManagedState *)
  msWorkers, msShrinkStreak, msLastSpawn, msNextId, msClosed,
  (* ManagedWorker, by worker ID *)
  active,     \* mwActive
  quiescing,  \* mwQuiescing
  status,     \* contextStatus of the reactor, "none" before it is spawned
  (* threads *)
  pc, lease,
  todo,       \* the workers a thread is stopping
  now,        \* the clock the controller read, 0 when the tick is done with it
  (* closeAgent *)
  attempt,    \* of runOnce: "first", "failed" once it caught an exception, "retry"
  cutOff,     \* history: live reactors that an interrupted releaseAllAgents
              \* had not stopped
  (* environment *)
  clock, crashed, interrupts

stateVars  == <<msWorkers, msShrinkStreak, msLastSpawn, msNextId, msClosed>>
workerVars == <<active, quiescing, status>>
threadVars == <<pc, lease, todo, now>>
closeVars  == <<attempt, cutOff>>
envVars    == <<clock, crashed, interrupts>>
vars == <<stateVars, workerVars, threadVars, closeVars, envVars>>

Init ==
  /\ msWorkers = 1..MinAgents /\ msNextId = MinAgents + 1
  /\ msShrinkStreak = 0 /\ msLastSpawn = 0 /\ msClosed = FALSE
  /\ active = [w \in Workers |-> 0]
  /\ quiescing = [w \in Workers |-> FALSE]
  /\ status = [w \in Workers |-> IF w <= MinAgents THEN "running" ELSE "none"]
  /\ pc = [t \in Threads |-> IF t = Controller THEN "sleep" ELSE "idle"]
  /\ lease = [c \in Clients |-> NoWorker]
  /\ todo = [t \in Threads |-> {}]
  /\ now = 0
  /\ attempt = "first" /\ cutOff = {}
  /\ clock = 0 /\ crashed = {} /\ interrupts = 0

Goto(t, l) == pc' = [pc EXCEPT ![t] = l]

Faults == interrupts + Cardinality(crashed)

-----------------------------------------------------------------------------
(* Helpers of the critical sections *)

(* refreshWorkerStates and selectableWorkers mark a worker whose reactor    *)
(* has stopped as draining.                                                 *)
Refreshed == [w \in Workers |->
                quiescing[w] \/ (w \in msWorkers /\ status[w] # "running")]

Selectable(q) == {w \in msWorkers : ~q[w]}

(* minimumBy takes the first of equals, and workers are appended. *)
Least(sel) == Min({w \in sel : \A v \in sel : active[w] <= active[v]})

(* now - msLastSpawn >= cooldown, in Word64. *)
Elapsed(t, cooldown) == (t - msLastSpawn) % Word >= cooldown

(* May one more worker be started next to n others?  The mutant is off by   *)
(* one.                                                                     *)
RoomOffByOne(n) == n <= MaxAgents
Room(n) == n < MaxAgents

(* admissionPick: nobody to route to, or everybody busy enough. *)
Grows(sel) ==
  sel # {} => /\ \A w \in sel : active[w] >= GrowLoad
              /\ Room(Cardinality(sel))
              /\ Elapsed(clock, SpawnCooldown)

(* Is the period-averaged demand per worker at or below mpShrinkLoad?  With *)
(* mpEwmaAlpha = 1 it is the sample itself.                                 *)
LowDemand(sel) ==
  IF Smoothed THEN BOOLEAN
  ELSE {MapThenSumSet(LAMBDA w : active[w], sel) <= ShrinkLoad * Cardinality(sel)}

(* shrinkStep's victim: least active, then least utilized. *)
Victims(sel) == {w \in sel : \A v \in sel : active[w] <= active[v]}

(* drainFinished; one that never finds anything, and one that does not look *)
(* at the transfers.                                                        *)
FinishedNever(q) == {}
FinishedBusy(q) == {w \in msWorkers : q[w]}
Finished(q) == {w \in msWorkers : q[w] /\ active[w] = 0}

(* spawnManagedWorker, n times, at time t. *)
Spawn(n, t) ==
  /\ msWorkers' = msWorkers \cup msNextId..(msNextId + n - 1)
  /\ msNextId' = msNextId + n
  /\ msLastSpawn' = IF n > 0 THEN t ELSE msLastSpawn
  /\ status' = [w \in Workers |-> IF w \in msNextId..(msNextId + n - 1)
                                  THEN "running" ELSE status[w]]

-----------------------------------------------------------------------------
(* Clients: acquireLease and leaseDone *)

(* An existing worker takes the request. *)
Admit(c) ==
  /\ pc[c] = "idle" /\ ~msClosed
  /\ quiescing' = Refreshed
  /\ LET sel == Selectable(Refreshed) IN
       /\ ~Grows(sel)
       /\ active' = [active EXCEPT ![Least(sel)] = @ + 1]
       /\ lease' = [lease EXCEPT ![c] = Least(sel)]
  /\ Goto(c, "using")
  /\ UNCHANGED <<stateVars, status, todo, now, closeVars, envVars>>

(* A new one is started for it, synchronously. *)
AdmitGrowing(c) ==
  /\ pc[c] = "idle" /\ ~msClosed
  /\ quiescing' = Refreshed
  /\ Grows(Selectable(Refreshed))
  /\ msNextId \in Workers
  /\ Spawn(1, clock)
  /\ msShrinkStreak' = 0
  /\ active' = [active EXCEPT ![msNextId] = @ + 1]
  /\ lease' = [lease EXCEPT ![c] = msNextId]
  /\ Goto(c, "using")
  /\ UNCHANGED <<msClosed, todo, now, closeVars, envVars>>

(* newAgentOn throws: the state is restored, the marks stay. *)
AdmitFails(c) ==
  /\ pc[c] = "idle" /\ ~msClosed
  /\ quiescing' = Refreshed
  /\ Grows(Selectable(Refreshed))
  /\ UNCHANGED <<stateVars, active, status, threadVars, closeVars, envVars>>

(* The transfer is over; releaseLease sets leaseReleased. *)
EndTransfer(c) ==
  /\ pc[c] = "using"
  /\ Goto(c, "releasing")
  /\ UNCHANGED <<stateVars, workerVars, lease, todo, now, closeVars, envVars>>

(* releaseWorker: the last lease of a draining worker hands it back. *)
ReleaseWorker(c) ==
  /\ pc[c] = "releasing"
  /\ LET w == lease[c]
         left == Max({0, active[w] - 1})
     IN IF w \in msWorkers
        THEN /\ active' = [active EXCEPT ![w] = left]
             /\ IF left = 0 /\ quiescing[w]
                THEN /\ todo' = [todo EXCEPT ![c] = {w}]
                     /\ Goto(c, "retire")
                ELSE Goto(c, "idle") /\ UNCHANGED todo
        ELSE Goto(c, "idle") /\ UNCHANGED <<active, todo>>
  /\ lease' = [lease EXCEPT ![c] = NoWorker]
  /\ UNCHANGED <<stateVars, quiescing, status, now, closeVars, envVars>>

(* An exception while leaseDone is blocked on maState: leaseReleased is set *)
(* already, so nobody calls leaseDone again.                                *)
InterruptRelease(c) ==
  /\ pc[c] = "releasing" /\ Faults < MaxFaults
  /\ interrupts' = interrupts + 1
  /\ lease' = [lease EXCEPT ![c] = NoWorker]
  /\ Goto(c, "idle")
  /\ UNCHANGED <<stateVars, workerVars, todo, now, closeVars, clock, crashed>>

-----------------------------------------------------------------------------
(* Stopping workers: retireManagedWorkers and releaseAllAgents *)

Stops(t) == pc[t] = IF t = Closer THEN "stopAll" ELSE "retire"

(* stopAgent sends STOP; several threads may stop the same worker. *)
StopWorker(t, w) ==
  /\ Stops(t) /\ w \in todo[t] /\ status[w] = "running"
  /\ status' = [status EXCEPT ![w] = "stopping"]
  /\ UNCHANGED <<stateVars, active, quiescing, threadVars, closeVars, envVars>>

(* Has every stopAgent come back?  The mutant does not wait. *)
NotWaited(t) == TRUE
AllStopped(t) == \A w \in todo[t] : status[w] = "stopped"

(* Stop first, remove from the registry second. *)
RemoveWorkers(t) ==
  /\ pc[t] = "retire" /\ AllStopped(t)
  /\ msWorkers' = msWorkers \ todo[t]
  /\ todo' = [todo EXCEPT ![t] = {}]
  /\ Goto(t, IF t = Controller THEN "sleep" ELSE "idle")
  /\ UNCHANGED <<msShrinkStreak, msLastSpawn, msNextId, msClosed, workerVars,
                 lease, now, closeVars, envVars>>

(* A client interrupted while it waits leaves the worker to others. *)
InterruptRetire(c) ==
  /\ pc[c] = "retire"
  /\ todo' = [todo EXCEPT ![c] = {}]
  /\ Goto(c, "idle")
  /\ UNCHANGED <<stateVars, workerVars, lease, now, closeVars, envVars>>

-----------------------------------------------------------------------------
(* The controller *)

ReadClock ==
  /\ pc[Controller] = "sleep"
  /\ now' = clock
  /\ Goto(Controller, "tick")
  /\ UNCHANGED <<stateVars, workerVars, lease, todo, closeVars, envVars>>

(* controllerTick: sample, perhaps drain a victim, collect what is drained, *)
(* then start up to the missing number of workers.                          *)
Tick ==
  /\ pc[Controller] = "tick" /\ ~msClosed
  /\ LET sel == Selectable(Refreshed) IN
     \E low \in LowDemand(sel) :
     LET shrinks == Cardinality(sel) > MinAgents /\ Elapsed(now, KillCooldown) /\ low
         drains  == shrinks /\ msShrinkStreak + 1 >= SustainTicks
     IN \E victim \in IF drains THEN Victims(sel) ELSE {NoWorker} :
        LET marked  == [w \in Workers |-> Refreshed[w] \/ w = victim]
            missing == MinAgents - Cardinality(Selectable(marked))
        IN \E n \in {k \in 0..MinAgents : k = 0 \/ k <= missing} :
           /\ msNextId + n <= MaxWorkers + 1
           /\ quiescing' = marked
           /\ todo' = [todo EXCEPT ![Controller] = Finished(marked)]
           /\ Spawn(n, now)
           /\ msShrinkStreak' = IF n > 0 \/ drains \/ ~shrinks THEN 0
                                ELSE msShrinkStreak + 1
  /\ now' = 0
  /\ Goto(Controller, "retire")
  /\ UNCHANGED <<msClosed, active, lease, closeVars, envVars>>

TickClosed ==
  /\ pc[Controller] = "tick" /\ msClosed
  /\ now' = 0
  /\ Goto(Controller, "retire")
  /\ UNCHANGED <<stateVars, workerVars, lease, todo, closeVars, envVars>>

-----------------------------------------------------------------------------
(* closeManagedAgent *)

(* The workers closeManagedAgent stops; the mutant passes over the ones     *)
(* that were draining already.                                              *)
SelectableHandles == Selectable(quiescing)
Handles == msWorkers

CloseBegin ==
  /\ pc[Closer] = "idle"
  /\ msClosed' = TRUE
  /\ quiescing' = [w \in Workers |-> quiescing[w] \/ w \in msWorkers]
  /\ todo' = [todo EXCEPT ![Closer] = Handles]
  /\ Goto(Closer, "cancel")
  /\ UNCHANGED <<msWorkers, msShrinkStreak, msLastSpawn, msNextId, active,
                 status, lease, now, closeVars, envVars>>

(* Async.cancel: the controller dies wherever it sleeps or waits. *)
CancelController ==
  /\ pc[Closer] = "cancel"
  /\ pc' = [pc EXCEPT ![Closer] = "stopAll", ![Controller] = "dead"]
  /\ todo' = [todo EXCEPT ![Controller] = {}]
  /\ UNCHANGED <<stateVars, workerVars, lease, now, closeVars, envVars>>

(* mapConcurrently has every stopAgent's outcome; Async.wait throws for a   *)
(* reactor that failed, and try keeps the exception for the end.            *)
ReleasedAll ==
  /\ pc[Closer] = "stopAll" /\ AllStopped(Closer)
  /\ \/ UNCHANGED attempt
     \/ attempt = "first" /\ todo[Closer] \cap crashed # {} /\ attempt' = "failed"
  /\ Goto(Closer, "clear")
  /\ UNCHANGED <<stateVars, workerVars, lease, todo, now, cutOff, envVars>>

(* The registry is emptied whatever the outcomes were; then a failed first  *)
(* attempt throws, and runOnce runs the action again on a helper thread.    *)
CloseEnd ==
  /\ pc[Closer] = "clear"
  /\ msWorkers' = {}
  /\ msShrinkStreak' = 0
  /\ todo' = [todo EXCEPT ![Closer] = {}]
  /\ attempt' = IF attempt = "failed" THEN "retry" ELSE attempt
  /\ Goto(Closer, IF attempt = "failed" THEN "idle" ELSE "closed")
  /\ UNCHANGED <<msLastSpawn, msNextId, msClosed, workerVars, lease, now,
                 cutOff, envVars>>

(* Exceptions reach the caller's attempt only: nobody has the thread of the *)
(* helper.  Here one arrives outside both try, at the readMVar of           *)
(* maController or at the last take of maState (at the first take nothing   *)
(* has happened yet, and the retry is a close that begins later).           *)
InterruptClose ==
  /\ attempt # "retry" /\ pc[Closer] \in {"cancel", "clear"}
  /\ attempt' = "retry"
  /\ todo' = [todo EXCEPT ![Closer] = {}]
  /\ Goto(Closer, "idle")
  /\ UNCHANGED <<stateVars, workerVars, lease, now, cutOff, envVars>>

(* In Async.cancel, before or after its throwTo has reached the controller. *)
InterruptCancel ==
  /\ attempt # "retry" /\ pc[Closer] = "cancel"
  /\ attempt' = "failed"
  /\ \/ Goto(Closer, "stopAll") /\ UNCHANGED todo
     \/ /\ pc' = [pc EXCEPT ![Closer] = "stopAll", ![Controller] = "dead"]
        /\ todo' = [todo EXCEPT ![Controller] = {}]
  /\ UNCHANGED <<stateVars, workerVars, lease, now, cutOff, envVars>>

(* In releaseAllAgents: mapConcurrently cancels its children.  A stopAgent  *)
(* that has sent STOP is finished by the helper of its own runOnce, one     *)
(* that has not begun never is.                                             *)
InterruptReleaseAll ==
  /\ attempt # "retry" /\ pc[Closer] = "stopAll"
  /\ attempt' = "failed"
  /\ cutOff' = cutOff \cup {w \in todo[Closer] : status[w] # "stopped"}
  /\ todo' = [todo EXCEPT ![Closer] = {}]
  /\ Goto(Closer, "clear")
  /\ UNCHANGED <<stateVars, workerVars, lease, now, envVars>>

CloseStep ==
  \/ CloseBegin \/ CancelController \/ ReleasedAll \/ CloseEnd
  \/ InterruptClose \/ InterruptCancel \/ InterruptReleaseAll

-----------------------------------------------------------------------------
(* Reactors and time *)

(* A fatal libcurl or libuv error. *)
Crash(w) ==
  /\ status[w] = "running" /\ Faults < MaxFaults
  /\ status' = [status EXCEPT ![w] = "stopping"]
  /\ crashed' = crashed \cup {w}
  /\ UNCHANGED <<stateVars, active, quiescing, threadVars, closeVars, clock,
                 interrupts>>

(* run has torn the reactor down. *)
Stopped(w) ==
  /\ status[w] = "stopping"
  /\ status' = [status EXCEPT ![w] = "stopped"]
  /\ cutOff' = cutOff \ {w}
  /\ UNCHANGED <<stateVars, active, quiescing, threadVars, attempt, envVars>>

Advance ==
  /\ clock < MaxTime
  /\ clock' = clock + 1
  /\ UNCHANGED <<stateVars, workerVars, threadVars, closeVars, crashed,
                 interrupts>>

ClientStep(c) ==
  \/ Admit(c) \/ AdmitGrowing(c) \/ AdmitFails(c) \/ EndTransfer(c)
  \/ ReleaseWorker(c) \/ InterruptRelease(c) \/ InterruptRetire(c)

Next ==
  \/ \E c \in Clients : ClientStep(c)
  \/ \E t \in Threads : (\E w \in Workers : StopWorker(t, w)) \/ RemoveWorkers(t)
  \/ ReadClock \/ Tick \/ TickClosed
  \/ CloseStep
  \/ \E w \in Workers : Crash(w) \/ Stopped(w)
  \/ Advance

Spec == Init /\ [][Next]_vars

(* Threads run: the controller goes on, a started close and its retry too,  *)
(* a client ends its release and what it retires, and reactors stop when    *)
(* told.  Nobody has to send requests or to close the pool.                 *)
FairSpec ==
  /\ Spec
  /\ WF_vars(ReadClock \/ Tick \/ TickClosed)
  /\ WF_vars(CancelController \/ ReleasedAll \/ CloseEnd
             \/ (attempt = "retry" /\ CloseBegin))
  /\ \A t \in {Controller, Closer} :
       WF_vars(RemoveWorkers(t) \/ \E w \in Workers : StopWorker(t, w))
  /\ \A c \in Clients : WF_vars(ReleaseWorker(c) \/ RemoveWorkers(c))
  /\ WF_vars(\E w \in Workers : Stopped(w))

-----------------------------------------------------------------------------
(* Properties *)

(* Every variable has its type, and no more than mpMaxAgents workers are    *)
(* selectable.                                                              *)
TypeOK ==
  /\ msWorkers \subseteq Workers /\ msNextId \in 1..(MaxWorkers + 1)
  /\ msShrinkStreak \in 0..(SustainTicks - 1) /\ msLastSpawn \in 0..MaxTime
  /\ msClosed \in BOOLEAN
  /\ active \in [Workers -> Nat] /\ quiescing \in [Workers -> BOOLEAN]
  /\ status \in [Workers -> {"none", "running", "stopping", "stopped"}]
  /\ pc \in [Threads -> {"idle", "using", "releasing", "retire", "sleep",
                         "tick", "dead", "cancel", "stopAll", "clear",
                         "closed"}]
  /\ lease \in [Clients -> Workers \cup {NoWorker}]
  /\ todo \in [Threads -> SUBSET Workers] /\ now \in 0..MaxTime
  /\ attempt \in {"first", "failed", "retry"} /\ cutOff \subseteq Workers
  /\ clock \in 0..MaxTime /\ crashed \subseteq Workers
  /\ interrupts \in 0..MaxFaults
  /\ Cardinality(Selectable(quiescing)) <= MaxAgents

(* Draining never interrupts a transfer: a worker under a lease stops only  *)
(* when its reactor failed or the whole pool is closed.                     *)
NeverInterrupted ==
  \A c \in Clients :
    pc[c] = "using" /\ status[lease[c]] # "running"
      => msClosed \/ lease[c] \in crashed

Live(w) == status[w] \in {"running", "stopping"}

(* A reactor that has not stopped is in the registry, where the next tick   *)
(* or the close finds it, whichever client, controller or reactor failed or *)
(* was interrupted.  The exception is the close itself: a reactor that its  *)
(* interrupted releaseAllAgents had not stopped leaves the registry alive,  *)
(* and no other does.  When closeAgent has its result only such reactors    *)
(* are left, and none is started later.  Never are more than mpMaxAgents    *)
(* workers selectable (TypeOK).                                             *)
OwnedUntilStopped ==
  /\ TypeOK
  /\ \A w \in Workers : Live(w) => w \in msWorkers \cup cutOff
  /\ pc[Closer] = "closed" => \A w \in Workers : Live(w) => w \in cutOff

OnLease(w) == \E c \in Clients : lease[c] = w

(* In the end no draining worker without transfers is left alive in the     *)
(* registry, whoever is interrupted while retiring it and wherever the      *)
(* close is interrupted, unless that cut its stop off or a leaseDone was    *)
(* interrupted.                                                             *)
DrainedIsStopped ==
  <>[](\A w \in Workers :
         w \in msWorkers /\ quiescing[w] /\ ~OnLease(w)
           => status[w] = "stopped" \/ interrupts > 0 \/ w \in cutOff)
=============================================================================
