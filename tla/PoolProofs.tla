----------------------------- MODULE PoolProofs -----------------------------
(***************************************************************************)
(* Safety of the managed pool, for any policy that clampPolicy leaves and  *)
(* any set of client threads: no reactor is lost but by an interrupted     *)
(* close, the pool never grows past its maximum, and draining never        *)
(* interrupts a transfer.                                                  *)
(***************************************************************************)
EXTENDS ManagedPool, FiniteSetTheorems, WellFoundedInduction, TLAPS

(* Where each kind of thread can be; closeManagedAgent sets msClosed first, *)
(* and a retry finds it set.                                                *)
ThreadInv ==
  /\ \A c \in Clients : pc[c] \in {"idle", "using", "releasing", "retire"}
  /\ pc[Controller] \in {"sleep", "tick", "retire", "dead"}
  /\ pc[Closer] \in {"idle", "cancel", "stopAll", "clear", "closed"}
  /\ msClosed <=> pc[Closer] # "idle" \/ attempt = "retry"

(* A worker ID that spawnManagedWorker has not given out is unused. *)
FreshInv ==
  /\ \A w \in Workers : w >= msNextId <=> status[w] = "none"
  /\ \A w \in Workers :
       w >= msNextId => w \notin msWorkers /\ active[w] = 0 /\ ~quiescing[w]
  /\ \A c \in Clients : lease[c] # NoWorker => lease[c] < msNextId

(* The registry holds every live reactor but the ones whose stop was cut    *)
(* off; what the closer set out to stop covers it, since a closed pool      *)
(* starts nothing, so that it can be emptied when that is done.             *)
OwnedInv ==
  /\ \A w \in Workers : Live(w) => w \in msWorkers \cup cutOff
  /\ pc[Closer] = "idle" => todo[Closer] = {}
  /\ pc[Closer] \in {"cancel", "stopAll"} => msWorkers \subseteq todo[Closer]
  /\ pc[Closer] = "clear" => \A w \in Workers : Live(w) => w \in cutOff
  /\ pc[Closer] = "closed" => msWorkers = {}

Holders(w) == {c \in Clients : lease[c] = w}

(* mwActive counts the leases; one whose leaseDone was interrupted stays    *)
(* counted.                                                                 *)
CountInv ==
  /\ \A c \in Clients : lease[c] # NoWorker <=> pc[c] \in {"using", "releasing"}
  /\ \A w \in Workers :
       IsFiniteSet(Holders(w)) /\ Cardinality(Holders(w)) <= active[w]

(* What a client or the controller is retiring is draining and idle, and    *)
(* stays so: a draining worker takes no lease.                              *)
DrainInv ==
  \A t \in Threads \ {Closer} : \A w \in todo[t] : quiescing[w] /\ active[w] = 0

(* A leased worker runs, unless it failed or the pool is closed. *)
LeaseInv ==
  \A c \in Clients :
    lease[c] # NoWorker /\ status[lease[c]] # "running"
      => msClosed \/ lease[c] \in crashed

(* Growth and the controller respect mpMaxAgents. *)
Capped == Cardinality(Selectable(quiescing)) <= MaxAgents

IInv ==
  /\ TypeOK /\ ThreadInv /\ FreshInv /\ OwnedInv
  /\ CountInv /\ DrainInv /\ LeaseInv

-----------------------------------------------------------------------------
(* Lemmas about the helpers *)

(* A set of naturals has a least element. *)
LEMMA LeastNatural ==
  ASSUME NEW T, T \subseteq Nat, T # {}
  PROVE \E x \in T : \A y \in T : x <= y
<1> DEFINE R == OpToRel(<, Nat)
<1>1. IsWellFoundedOn(R, Nat)
  BY NatLessThanWellFounded, Zenon
<1>2. \A x, y \in Nat : <<x, y>> \in R <=> x < y
  BY DEF OpToRel
<1> HIDE DEF R
<1>3. PICK x \in T : \A y \in T : ~ (<<y, x>> \in R)
  BY <1>1, WFMin
<1>4. ASSUME NEW y \in T PROVE x <= y
  <2>1. x \in Nat /\ y \in Nat
    OBVIOUS
  <2>2. ~ (<<y, x>> \in R)
    BY <1>3
  <2>3. ~ (y < x)
    BY <1>2, <2>1, <2>2, Zenon
  <2>q. QED
    BY <2>1, <2>3
<1>q. QED
  BY <1>4

(* minimumBy finds one of the workers it is given. *)
LEMMA LeastIsOne ==
  ASSUME active \in [Workers -> Nat], NEW sel, sel \subseteq Workers, sel # {}
  PROVE Least(sel) \in sel
<1> DEFINE T == {active[w] : w \in sel}
           Mins == {w \in sel : \A v \in sel : active[w] <= active[v]}
<1>1. PICK a \in T : \A b \in T : a <= b
  <2>1. T \subseteq Nat /\ T # {}
    OBVIOUS
  <2>q. QED
    BY <2>1, LeastNatural
<1>2. Mins # {} /\ Mins \subseteq Nat /\ Mins \subseteq sel
  <2>1. PICK w \in sel : a = active[w]
    BY <1>1
  <2>2. w \in Mins
    BY <1>1, <2>1
  <2>3. sel \subseteq Nat
    BY PoolAssumption DEF Workers
  <2>4. Mins \subseteq sel
    OBVIOUS
  <2> HIDE DEF Mins
  <2>q. QED
    BY <2>2, <2>3, <2>4
<1> HIDE DEF Mins
<1>3. \E x \in Mins : \A y \in Mins : x <= y
  BY <1>2, LeastNatural
<1>4. Min(Mins) \in Mins
  BY <1>3 DEF Min
<1>q. QED
  BY <1>2, <1>4 DEF Least, Mins

(* max 0 (mwActive - 1). *)
LEMMA LeftOver ==
  ASSUME NEW a \in Nat
  PROVE /\ Max({0, a - 1}) \in Nat /\ Max({0, a - 1}) <= a
        /\ Max({0, a - 1}) >= a - 1
        /\ a = 0 => Max({0, a - 1}) = 0
<1> DEFINE S == {0, a - 1}
<1>1. \E x \in S : \A y \in S : x >= y
  <2>1. CASE a = 0
    BY <2>1
  <2>2. CASE a # 0
    BY <2>2
  <2>q. QED
    BY <2>1, <2>2
<1>2. Max(S) \in S /\ \A y \in S : Max(S) >= y
  BY <1>1 DEF Max
<1>q. QED
  BY <1>2

(* Registries are finite, and marking more workers leaves fewer to choose.  *)
LEMMA SelectableShrinks ==
  ASSUME msWorkers \subseteq Workers, NEW p, NEW q,
         \A w \in Workers : p[w] => q[w]
  PROVE /\ IsFiniteSet(Selectable(p)) /\ IsFiniteSet(Selectable(q))
        /\ Cardinality(Selectable(p)) \in Nat /\ Cardinality(Selectable(q)) \in Nat
        /\ Cardinality(Selectable(q)) <= Cardinality(Selectable(p))
<1>1. IsFiniteSet(Workers)
  BY FS_Interval, PoolAssumption DEF Workers
<1>2. Selectable(p) \subseteq Workers /\ Selectable(q) \subseteq Selectable(p)
  BY DEF Selectable
<1>3. IsFiniteSet(Selectable(p))
  BY <1>1, <1>2, FS_Subset
<1>4. IsFiniteSet(Selectable(q)) /\ Cardinality(Selectable(q)) <= Cardinality(Selectable(p))
  BY <1>2, <1>3, FS_Subset
<1>q. QED
  BY <1>3, <1>4, FS_CardinalityType

(* n more workers next to a set of them. *)
LEMMA GrownCardinality ==
  ASSUME NEW S, IsFiniteSet(S), NEW n \in Nat, NEW i \in Nat, NEW T,
         T \subseteq S \cup i..(i + n - 1)
  PROVE Cardinality(T) \in Nat /\ Cardinality(T) <= Cardinality(S) + n
<1> DEFINE I == i..(i + n - 1)
<1>1. IsFiniteSet(I) /\ Cardinality(I) = n
  <2>1. IsFiniteSet(I) /\ Cardinality(I) = IF i > i + n - 1 THEN 0 ELSE i + n - 1 - i + 1
    BY FS_Interval, i + n - 1 \in Int
  <2>q. QED
    BY <2>1
<1> HIDE DEF I
<1>2. IsFiniteSet(S \cup I) /\ Cardinality(S \cup I) = Cardinality(S) + Cardinality(I) - Cardinality(S \cap I)
  BY <1>1, FS_Union
<1>3. IsFiniteSet(S \cap I)
  BY FS_Intersection
<1>4. Cardinality(S \cap I) \in Nat /\ Cardinality(S) \in Nat
  BY <1>3, FS_CardinalityType
<1>5. IsFiniteSet(T) /\ Cardinality(T) <= Cardinality(S \cup I)
  BY <1>2, FS_Subset DEF I
<1>6. Cardinality(T) \in Nat /\ Cardinality(S \cup I) \in Nat
  BY <1>2, <1>5, FS_CardinalityType
<1>q. QED
  BY <1>1, <1>2, <1>4, <1>5, <1>6

(* What one controllerTick does, whatever the load it samples: it marks     *)
(* registered workers, a healthy one only after the kill cooldown, and      *)
(* starts no more than are missing.                                         *)
LEMMA TickEffect ==
  ASSUME TypeOK, Tick
  PROVE \E n \in 0..MinAgents, marked \in [Workers -> BOOLEAN] :
          /\ \A w \in Workers : quiescing[w] => marked[w]
          /\ \A w \in Workers : marked[w] /\ ~quiescing[w] =>
               /\ w \in msWorkers
               /\ status[w] # "running" \/ Elapsed(now, KillCooldown)
          /\ n = 0 \/ n <= MinAgents - Cardinality(Selectable(marked))
          /\ msNextId + n <= MaxWorkers + 1
          /\ quiescing' = marked
          /\ todo' = [todo EXCEPT ![Controller] = Finished(marked)]
          /\ Spawn(n, now)
          /\ msShrinkStreak' \in 0..(SustainTicks - 1)
<1> DEFINE sel == Selectable(Refreshed)
           shrinks(low) == Cardinality(sel) > MinAgents /\ Elapsed(now, KillCooldown) /\ low
           drains(low) == shrinks(low) /\ msShrinkStreak + 1 >= SustainTicks
           marked(v) == [w \in Workers |-> Refreshed[w] \/ w = v]
<1>1. PICK low \in LowDemand(sel) :
        \E victim \in IF drains(low) THEN Victims(sel) ELSE {NoWorker} :
        \E n \in {k \in 0..MinAgents : k = 0 \/ k <= MinAgents - Cardinality(Selectable(marked(victim)))} :
           /\ msNextId + n <= MaxWorkers + 1
           /\ quiescing' = marked(victim)
           /\ todo' = [todo EXCEPT ![Controller] = Finished(marked(victim))]
           /\ Spawn(n, now)
           /\ msShrinkStreak' = IF n > 0 \/ drains(low) \/ ~shrinks(low) THEN 0
                                ELSE msShrinkStreak + 1
  BY Zenon DEF Tick
<1>2. PICK victim \in IF drains(low) THEN Victims(sel) ELSE {NoWorker} :
        \E n \in {k \in 0..MinAgents : k = 0 \/ k <= MinAgents - Cardinality(Selectable(marked(victim)))} :
           /\ msNextId + n <= MaxWorkers + 1
           /\ quiescing' = marked(victim)
           /\ todo' = [todo EXCEPT ![Controller] = Finished(marked(victim))]
           /\ Spawn(n, now)
           /\ msShrinkStreak' = IF n > 0 \/ drains(low) \/ ~shrinks(low) THEN 0
                                ELSE msShrinkStreak + 1
  BY <1>1, Zenon
<1>3. PICK n \in {k \in 0..MinAgents : k = 0 \/ k <= MinAgents - Cardinality(Selectable(marked(victim)))} :
           /\ msNextId + n <= MaxWorkers + 1
           /\ quiescing' = marked(victim)
           /\ todo' = [todo EXCEPT ![Controller] = Finished(marked(victim))]
           /\ Spawn(n, now)
           /\ msShrinkStreak' = IF n > 0 \/ drains(low) \/ ~shrinks(low) THEN 0
                                ELSE msShrinkStreak + 1
  BY <1>2, Zenon
<1>4. marked(victim) \in [Workers -> BOOLEAN]
  BY DEF TypeOK, Refreshed
<1>5. \A w \in Workers : quiescing[w] => marked(victim)[w]
  BY DEF Refreshed
<1>6. ASSUME NEW w \in Workers, marked(victim)[w], ~quiescing[w]
      PROVE w \in msWorkers /\ (status[w] # "running" \/ Elapsed(now, KillCooldown))
  <2>1. CASE Refreshed[w]
    BY <1>6, <2>1 DEF Refreshed
  <2>2. CASE ~Refreshed[w]
    <3>1. w = victim
      BY <1>6, <2>2
    <3>2. drains(low) /\ victim \in Victims(sel)
      BY <1>2, <3>1, PoolAssumption DEF Workers
    <3>3. victim \in msWorkers
      BY <3>2 DEF Victims, Selectable
    <3>q. QED
      BY <3>1, <3>2, <3>3
  <2>q. QED
    BY <2>1, <2>2
<1>7. msShrinkStreak' \in 0..(SustainTicks - 1)
  <2>1. msShrinkStreak \in 0..(SustainTicks - 1) /\ SustainTicks \in Nat \ {0}
    BY PoolAssumption DEF TypeOK
  <2>2. CASE shrinks(low) /\ ~drains(low)
    <3>1. ~(msShrinkStreak + 1 >= SustainTicks)
      BY <2>2
    <3>2. msShrinkStreak' \in {0, msShrinkStreak + 1}
      BY <1>3
    <3>q. QED
      BY <2>1, <3>1, <3>2
  <2>3. CASE ~(shrinks(low) /\ ~drains(low))
    <3>1. msShrinkStreak' = 0
      BY <1>3, <2>3
    <3>q. QED
      BY <2>1, <3>1
  <2>q. QED
    BY <2>2, <2>3
<1>8. n \in 0..MinAgents /\ (n = 0 \/ n <= MinAgents - Cardinality(Selectable(marked(victim))))
  OBVIOUS
<1> HIDE DEF marked
<1>q. QED
  BY <1>3, <1>4, <1>5, <1>6, <1>7, <1>8, Zenon

(* admissionPick routes to a registered worker that runs and is not         *)
(* draining.                                                                *)
LEMMA AdmitEffect ==
  ASSUME TypeOK, NEW c \in Clients, Admit(c)
  PROVE \E w \in Workers :
          /\ w \in msWorkers /\ ~quiescing[w] /\ status[w] = "running"
          /\ active' = [active EXCEPT ![w] = @ + 1]
          /\ lease' = [lease EXCEPT ![c] = w]
<1> DEFINE sel == Selectable(Refreshed)
<1>1. sel \subseteq Workers /\ sel # {}
  BY DEF Selectable, TypeOK, Admit, Grows
<1>2. Least(sel) \in sel
  BY <1>1, LeastIsOne DEF TypeOK
<1>3. \A w \in sel : w \in msWorkers /\ w \in Workers /\ ~quiescing[w] /\ status[w] = "running"
  BY DEF Selectable, Refreshed, TypeOK
<1>4. active' = [active EXCEPT ![Least(sel)] = @ + 1] /\ lease' = [lease EXCEPT ![c] = Least(sel)]
  BY DEF Admit
<1> HIDE DEF sel
<1>q. QED
  BY <1>2, <1>3, <1>4

(* Marks are only ever added, and only to registered workers. *)
LEMMA RefreshedEffect ==
  ASSUME TypeOK
  PROVE /\ Refreshed \in [Workers -> BOOLEAN]
        /\ \A w \in Workers : quiescing[w] => Refreshed[w]
        /\ \A w \in Workers : Refreshed[w] /\ ~quiescing[w] =>
             w \in msWorkers /\ status[w] # "running"
BY DEF Refreshed, TypeOK

(* What releaseWorker leaves of the count, and whom it hands the worker to. *)
LEMMA ReleaseEffect ==
  ASSUME TypeOK, ThreadInv, CountInv, NEW c \in Clients, ReleaseWorker(c)
  PROVE /\ lease[c] \in Workers
        /\ \E left \in Nat :
             /\ left <= active[lease[c]] /\ left >= active[lease[c]] - 1
             /\ active[lease[c]] = 0 => left = 0
             /\ \/ /\ lease[c] \in msWorkers
                   /\ active' = [active EXCEPT ![lease[c]] = left]
                   /\ \/ /\ left = 0 /\ quiescing[lease[c]]
                         /\ todo' = [todo EXCEPT ![c] = {lease[c]}]
                         /\ pc' = [pc EXCEPT ![c] = "retire"]
                      \/ pc' = [pc EXCEPT ![c] = "idle"] /\ todo' = todo
                \/ /\ lease[c] \notin msWorkers
                   /\ active' = active /\ todo' = todo
                   /\ pc' = [pc EXCEPT ![c] = "idle"]
<1> DEFINE a == active[lease[c]]
           left == Max({0, a - 1})
<1>1. lease[c] \in Workers
  BY DEF ReleaseWorker, CountInv, TypeOK
<1>2. a \in Nat
  BY <1>1 DEF TypeOK
<1>3. left \in Nat /\ left <= a /\ left >= a - 1 /\ (a = 0 => left = 0)
  BY <1>2, LeftOver
<1>4. \/ /\ lease[c] \in msWorkers
         /\ active' = [active EXCEPT ![lease[c]] = left]
         /\ \/ /\ left = 0 /\ quiescing[lease[c]]
               /\ todo' = [todo EXCEPT ![c] = {lease[c]}]
               /\ pc' = [pc EXCEPT ![c] = "retire"]
            \/ pc' = [pc EXCEPT ![c] = "idle"] /\ todo' = todo
      \/ /\ lease[c] \notin msWorkers
         /\ active' = active /\ todo' = todo
         /\ pc' = [pc EXCEPT ![c] = "idle"]
  BY DEF ReleaseWorker, Goto
<1> HIDE DEF left
<1>q. QED
  BY <1>1, <1>3, <1>4

-----------------------------------------------------------------------------
(* Steps *)

(* Each thread stays on its own path. *)
LEMMA ThreadStep == TypeOK /\ ThreadInv /\ [Next]_vars => ThreadInv'
<1> SUFFICES ASSUME TypeOK, ThreadInv, [Next]_vars PROVE ThreadInv'
  OBVIOUS
<1> USE PoolAssumption
    DEF vars, stateVars, workerVars, threadVars, closeVars, envVars, Threads, Workers,
        Goto, TypeOK, ThreadInv
<1>1. ASSUME NEW c \in Clients, Admit(c) PROVE ThreadInv'
  <2>1. PICK v \in Workers :
          /\ v \in msWorkers /\ ~quiescing[v] /\ status[v] = "running"
          /\ active' = [active EXCEPT ![v] = @ + 1]
          /\ lease' = [lease EXCEPT ![c] = v]
    BY <1>1, AdmitEffect
  <2>q. QED
    BY <1>1 DEF Admit
<1>2. ASSUME NEW c \in Clients, AdmitGrowing(c) PROVE ThreadInv'
  BY <1>2 DEF AdmitGrowing, Spawn
<1>3. ASSUME NEW c \in Clients, AdmitFails(c) PROVE ThreadInv'
  BY <1>3 DEF AdmitFails
<1>4. ASSUME NEW c \in Clients, EndTransfer(c) PROVE ThreadInv'
  BY <1>4 DEF EndTransfer
<1>5. ASSUME NEW c \in Clients, ReleaseWorker(c) PROVE ThreadInv'
  <2>1. \E l \in {"idle", "retire"} : pc' = [pc EXCEPT ![c] = l]
    BY <1>5 DEF ReleaseWorker
  <2>q. QED
    BY <1>5, <2>1 DEF ReleaseWorker
<1>6. ASSUME NEW c \in Clients, InterruptRelease(c) PROVE ThreadInv'
  BY <1>6 DEF InterruptRelease
<1>7. ASSUME NEW c \in Clients, InterruptRetire(c) PROVE ThreadInv'
  BY <1>7 DEF InterruptRetire
<1>8. ASSUME NEW t \in Threads, NEW w \in Workers, StopWorker(t, w) PROVE ThreadInv'
  BY <1>8 DEF StopWorker, Stops
<1>9. ASSUME NEW t \in Threads, RemoveWorkers(t) PROVE ThreadInv'
  <2>1. t # Closer
    BY <1>9 DEF RemoveWorkers
  <2>q. QED
    BY <1>9, <2>1 DEF RemoveWorkers
<1>10. CASE ReadClock
  BY <1>10 DEF ReadClock
<1>11. CASE Tick
  <2>1. PICK n \in 0..MinAgents, marked \in [Workers -> BOOLEAN] :
          /\ \A w \in Workers : quiescing[w] => marked[w]
          /\ \A w \in Workers : marked[w] /\ ~quiescing[w] =>
               /\ w \in msWorkers
               /\ status[w] # "running" \/ Elapsed(now, KillCooldown)
          /\ n = 0 \/ n <= MinAgents - Cardinality(Selectable(marked))
          /\ msNextId + n <= MaxWorkers + 1
          /\ quiescing' = marked
          /\ todo' = [todo EXCEPT ![Controller] = Finished(marked)]
          /\ Spawn(n, now)
          /\ msShrinkStreak' \in 0..(SustainTicks - 1)
    BY <1>11, TickEffect
  <2>q. QED
    BY <1>11, <2>1 DEF Tick, Spawn
<1>12. CASE TickClosed
  BY <1>12 DEF TickClosed
<1>13. CASE CloseBegin
  BY <1>13 DEF CloseBegin, Handles
<1>14. CASE CancelController
  BY <1>14 DEF CancelController
<1>15. CASE CloseEnd
  BY <1>15 DEF CloseEnd
<1>16. ASSUME NEW w \in Workers, Crash(w) PROVE ThreadInv'
  BY <1>16 DEF Crash
<1>17. ASSUME NEW w \in Workers, Stopped(w) PROVE ThreadInv'
  BY <1>17 DEF Stopped
<1>18. CASE Advance
  BY <1>18 DEF Advance
<1>19. CASE ReleasedAll
  BY <1>19 DEF ReleasedAll
<1>20. CASE InterruptClose
  BY <1>20 DEF InterruptClose
<1>21. CASE InterruptCancel
  BY <1>21 DEF InterruptCancel
<1>22. CASE InterruptReleaseAll
  BY <1>22 DEF InterruptReleaseAll
<1>u. CASE UNCHANGED vars
  BY <1>u
<1>q. QED
  BY <1>1, <1>2, <1>3, <1>4, <1>5, <1>6, <1>7, <1>8, <1>9, <1>10, <1>11,
     <1>12, <1>13, <1>14, <1>15, <1>16, <1>17, <1>18, <1>19, <1>20,
     <1>21, <1>22, <1>u
  DEF Next, ClientStep, CloseStep

(* Neither an admission nor the controller takes the pool past mpMaxAgents. *)
LEMMA CapStep == TypeOK /\ [Next]_vars => Capped'
<1> SUFFICES ASSUME TypeOK, [Next]_vars PROVE Capped'
  OBVIOUS
<1>t. /\ msWorkers \subseteq Workers /\ msNextId \in Nat /\ Capped
      /\ MinAgents \in Nat \ {0} /\ MaxAgents \in Nat /\ MinAgents <= MaxAgents
  BY PoolAssumption DEF TypeOK, Capped
<1> USE <1>t
<1> USE DEF stateVars, workerVars
<1>f. ASSUME msWorkers' \subseteq msWorkers, \A w \in Workers : quiescing[w] => quiescing'[w]
      PROVE Capped'
  <2>1. Selectable(quiescing)' \subseteq Selectable(quiescing)
    BY <1>f DEF Selectable
  <2>2. IsFiniteSet(Selectable(quiescing))
    BY SelectableShrinks
  <2>3. IsFiniteSet(Selectable(quiescing)') /\ Cardinality(Selectable(quiescing)') <= Cardinality(Selectable(quiescing))
    BY <2>1, <2>2, FS_Subset
  <2>4. Cardinality(Selectable(quiescing)') \in Nat /\ Cardinality(Selectable(quiescing)) \in Nat
    BY <2>2, <2>3, FS_CardinalityType
  <2>q. QED
    BY <2>3, <2>4 DEF Capped
<1>1. ASSUME NEW c \in Clients, Admit(c) PROVE Capped'
  BY <1>1, <1>f, RefreshedEffect DEF Admit
<1>2. ASSUME NEW c \in Clients, AdmitGrowing(c) PROVE Capped'
  <2> DEFINE old == Selectable(Refreshed)
  <2>1. IsFiniteSet(old) /\ Cardinality(old) \in Nat
    BY SelectableShrinks
  <2>2. Selectable(quiescing)' \subseteq old \cup msNextId..(msNextId + 1 - 1)
    BY <1>2 DEF AdmitGrowing, Spawn, Selectable
  <2>3. Cardinality(Selectable(quiescing)') \in Nat /\ Cardinality(Selectable(quiescing)') <= Cardinality(old) + 1
    BY <2>1, <2>2, GrownCardinality, msNextId \in Nat
  <2>4. Cardinality(old) + 1 <= MaxAgents
    <3>1. CASE old = {}
      BY <3>1, FS_EmptySet
    <3>2. CASE old # {}
      BY <1>2, <2>1, <3>2 DEF AdmitGrowing, Grows, Room
    <3>q. QED
      BY <3>1, <3>2
  <2>q. QED
    BY <2>1, <2>3, <2>4 DEF Capped
<1>3. ASSUME NEW c \in Clients, AdmitFails(c) PROVE Capped'
  BY <1>3, <1>f, RefreshedEffect DEF AdmitFails
<1>4. ASSUME NEW c \in Clients, EndTransfer(c) PROVE Capped'
  BY <1>4, <1>f DEF EndTransfer
<1>5. ASSUME NEW c \in Clients, ReleaseWorker(c) PROVE Capped'
  BY <1>5, <1>f DEF ReleaseWorker
<1>6. ASSUME NEW c \in Clients, InterruptRelease(c) PROVE Capped'
  BY <1>6, <1>f DEF InterruptRelease
<1>7. ASSUME NEW c \in Clients, InterruptRetire(c) PROVE Capped'
  BY <1>7, <1>f DEF InterruptRetire
<1>8. ASSUME NEW t \in Threads, NEW w \in Workers, StopWorker(t, w) PROVE Capped'
  BY <1>8, <1>f DEF StopWorker
<1>9. ASSUME NEW t \in Threads, RemoveWorkers(t) PROVE Capped'
  BY <1>9, <1>f DEF RemoveWorkers
<1>10. CASE ReadClock
  BY <1>10, <1>f DEF ReadClock
<1>11. CASE Tick
  <2>1. PICK n \in 0..MinAgents, marked \in [Workers -> BOOLEAN] :
          /\ \A w \in Workers : quiescing[w] => marked[w]
          /\ \A w \in Workers : marked[w] /\ ~quiescing[w] =>
               /\ w \in msWorkers
               /\ status[w] # "running" \/ Elapsed(now, KillCooldown)
          /\ n = 0 \/ n <= MinAgents - Cardinality(Selectable(marked))
          /\ msNextId + n <= MaxWorkers + 1
          /\ quiescing' = marked
          /\ todo' = [todo EXCEPT ![Controller] = Finished(marked)]
          /\ Spawn(n, now)
          /\ msShrinkStreak' \in 0..(SustainTicks - 1)
    BY <1>11, TickEffect
  <2> DEFINE old == Selectable(marked)
  <2>2. IsFiniteSet(old) /\ Cardinality(old) \in Nat /\ Cardinality(old) <= Cardinality(Selectable(quiescing)) /\ Cardinality(Selectable(quiescing)) \in Nat
    BY <2>1, SelectableShrinks
  <2>3. Selectable(quiescing)' \subseteq old \cup msNextId..(msNextId + n - 1)
    BY <2>1 DEF Spawn, Selectable
  <2>4. Cardinality(Selectable(quiescing)') \in Nat /\ Cardinality(Selectable(quiescing)') <= Cardinality(old) + n
    BY <2>2, <2>3, GrownCardinality, msNextId \in Nat, n \in Nat
  <2>5. Cardinality(old) + n <= MaxAgents
    BY <2>1, <2>2 DEF Capped
  <2>q. QED
    BY <2>2, <2>4, <2>5 DEF Capped
<1>12. CASE TickClosed
  BY <1>12, <1>f DEF TickClosed
<1>13. CASE CloseBegin
  BY <1>13, <1>f DEF CloseBegin
<1>14. CASE CancelController
  BY <1>14, <1>f DEF CancelController
<1>15. CASE CloseEnd
  BY <1>15, <1>f DEF CloseEnd
<1>16. ASSUME NEW w \in Workers, Crash(w) PROVE Capped'
  BY <1>16, <1>f DEF Crash
<1>17. ASSUME NEW w \in Workers, Stopped(w) PROVE Capped'
  BY <1>17, <1>f DEF Stopped
<1>18. CASE Advance
  BY <1>18, <1>f DEF Advance
<1>19. CASE ReleasedAll
  BY <1>19, <1>f DEF ReleasedAll
<1>20. CASE InterruptClose
  BY <1>20, <1>f DEF InterruptClose
<1>21. CASE InterruptCancel
  BY <1>21, <1>f DEF InterruptCancel
<1>22. CASE InterruptReleaseAll
  BY <1>22, <1>f DEF InterruptReleaseAll
<1>u. CASE UNCHANGED vars
  BY <1>u, <1>f DEF vars, stateVars, workerVars
<1>q. QED
  BY <1>1, <1>2, <1>3, <1>4, <1>5, <1>6, <1>7, <1>8, <1>9, <1>10, <1>11,
     <1>12, <1>13, <1>14, <1>15, <1>16, <1>17, <1>18, <1>19, <1>20,
     <1>21, <1>22, <1>u
  DEF Next, ClientStep, CloseStep

(* Every step keeps the types. *)
LEMMA TypeStep == TypeOK /\ ThreadInv /\ CountInv /\ [Next]_vars => TypeOK'
<1> SUFFICES ASSUME TypeOK, ThreadInv, CountInv, [Next]_vars PROVE TypeOK'
  OBVIOUS
<1> USE PoolAssumption
    DEF vars, stateVars, workerVars, threadVars, closeVars, envVars, Threads, Workers,
        Goto, TypeOK
<1>c. Capped'
  BY CapStep
<1> USE <1>c DEF Capped
<1>1. ASSUME NEW c \in Clients, Admit(c) PROVE TypeOK'
  <2>1. PICK v \in Workers :
          /\ v \in msWorkers /\ ~quiescing[v] /\ status[v] = "running"
          /\ active' = [active EXCEPT ![v] = @ + 1]
          /\ lease' = [lease EXCEPT ![c] = v]
    BY <1>1, AdmitEffect
  <2>2. active' \in [Workers -> Nat]
    BY <2>1
  <2>3. lease' \in [Clients -> Workers \cup {NoWorker}]
    BY <2>1
  <2>4. quiescing' \in [Workers -> BOOLEAN]
    BY <1>1, RefreshedEffect DEF Admit
  <2>5. pc' \in [Threads -> {"idle", "using", "releasing", "retire", "sleep",
                             "tick", "dead", "cancel", "stopAll", "clear", "closed"}]
    BY <1>1 DEF Admit
  <2>6. UNCHANGED <<msWorkers, msNextId, msShrinkStreak, msLastSpawn, msClosed, status, todo, now,
                    clock, crashed, interrupts, attempt, cutOff>>
    BY <1>1 DEF Admit
  <2>q. QED
    BY <2>2, <2>3, <2>4, <2>5, <2>6
<1>2. ASSUME NEW c \in Clients, AdmitGrowing(c) PROVE TypeOK'
  <2>1. quiescing' \in [Workers -> BOOLEAN]
    BY <1>2, RefreshedEffect DEF AdmitGrowing
  <2>2. msNextId \in Workers /\ msWorkers' = msWorkers \cup msNextId..(msNextId + 1 - 1)
    BY <1>2 DEF AdmitGrowing, Spawn
  <2>3. msWorkers' \subseteq Workers
    BY <2>2
  <2>q. QED
    BY <1>2, <2>1, <2>2, <2>3 DEF AdmitGrowing, Spawn
<1>3. ASSUME NEW c \in Clients, AdmitFails(c) PROVE TypeOK'
  BY <1>3, RefreshedEffect DEF AdmitFails
<1>4. ASSUME NEW c \in Clients, EndTransfer(c) PROVE TypeOK'
  BY <1>4 DEF EndTransfer
<1>5. ASSUME NEW c \in Clients, ReleaseWorker(c) PROVE TypeOK'
  <2>1. lease[c] \in Workers
    BY <1>5, ReleaseEffect
  <2>2. PICK left \in Nat :
             /\ left <= active[lease[c]] /\ left >= active[lease[c]] - 1
             /\ active[lease[c]] = 0 => left = 0
             /\ \/ /\ lease[c] \in msWorkers
                   /\ active' = [active EXCEPT ![lease[c]] = left]
                   /\ \/ /\ left = 0 /\ quiescing[lease[c]]
                         /\ todo' = [todo EXCEPT ![c] = {lease[c]}]
                         /\ pc' = [pc EXCEPT ![c] = "retire"]
                      \/ pc' = [pc EXCEPT ![c] = "idle"] /\ todo' = todo
                \/ /\ lease[c] \notin msWorkers
                   /\ active' = active /\ todo' = todo
                   /\ pc' = [pc EXCEPT ![c] = "idle"]
    BY <1>5, ReleaseEffect
  <2>3. active' \in [Workers -> Nat]
    <3>1. active' \in {active, [active EXCEPT ![lease[c]] = left]}
      BY <2>2
    <3>q. QED
      BY <2>1, <3>1
  <2>4. todo' \in [Threads -> SUBSET Workers]
    BY <2>1, <2>2
  <2>5. \E l \in {"idle", "retire"} : pc' = [pc EXCEPT ![c] = l]
    BY <2>2
  <2>q. QED
    <3>1. pc' \in [Threads -> {"idle", "using", "releasing", "retire", "sleep",
                               "tick", "dead", "cancel", "stopAll", "clear", "closed"}]
      BY <2>5
    <3>2. lease' \in [Clients -> Workers \cup {NoWorker}]
      BY <1>5 DEF ReleaseWorker
    <3>3. UNCHANGED <<msWorkers, msNextId, msShrinkStreak, msLastSpawn, msClosed, quiescing, status,
                      now, clock, crashed, interrupts, attempt, cutOff>>
      BY <1>5 DEF ReleaseWorker
    <3>q. QED
      BY <2>3, <2>4, <3>1, <3>2, <3>3
<1>6. ASSUME NEW c \in Clients, InterruptRelease(c) PROVE TypeOK'
  <2>1. Cardinality(crashed) \in Nat
    <3>1. IsFiniteSet(1..MaxWorkers)
      BY FS_Interval
    <3>2. IsFiniteSet(crashed)
      BY <3>1, FS_Subset
    <3>q. QED
      BY <3>2, FS_CardinalityType
  <2>2. interrupts + 1 \in 0..MaxFaults
    BY <1>6, <2>1 DEF InterruptRelease, Faults
  <2>q. QED
    BY <1>6, <2>2 DEF InterruptRelease
<1>7. ASSUME NEW c \in Clients, InterruptRetire(c) PROVE TypeOK'
  BY <1>7 DEF InterruptRetire
<1>8. ASSUME NEW t \in Threads, NEW w \in Workers, StopWorker(t, w) PROVE TypeOK'
  BY <1>8 DEF StopWorker, Stops
<1>9. ASSUME NEW t \in Threads, RemoveWorkers(t) PROVE TypeOK'
  BY <1>9 DEF RemoveWorkers, AllStopped
<1>10. CASE ReadClock
  BY <1>10 DEF ReadClock
<1>11. CASE Tick
  <2>1. PICK n \in 0..MinAgents, marked \in [Workers -> BOOLEAN] :
          /\ \A w \in Workers : quiescing[w] => marked[w]
          /\ \A w \in Workers : marked[w] /\ ~quiescing[w] =>
               /\ w \in msWorkers
               /\ status[w] # "running" \/ Elapsed(now, KillCooldown)
          /\ n = 0 \/ n <= MinAgents - Cardinality(Selectable(marked))
          /\ msNextId + n <= MaxWorkers + 1
          /\ quiescing' = marked
          /\ todo' = [todo EXCEPT ![Controller] = Finished(marked)]
          /\ Spawn(n, now)
          /\ msShrinkStreak' \in 0..(SustainTicks - 1)
    BY <1>11, TickEffect
  <2>2. msWorkers' \subseteq Workers
    BY <2>1 DEF Spawn
  <2>3. Finished(marked) \subseteq Workers
    BY DEF Finished
  <2>4. todo' \in [Threads -> SUBSET Workers]
    BY <2>1, <2>3
  <2>5. msNextId' \in 1..(MaxWorkers + 1) /\ msLastSpawn' \in 0..MaxTime
    BY <2>1 DEF Spawn
  <2>6. status' \in [Workers -> {"none", "running", "stopping", "stopped"}]
    BY <2>1 DEF Spawn
  <2>q. QED
    BY <1>11, <2>1, <2>2, <2>4, <2>5, <2>6 DEF Tick
<1>12. CASE TickClosed
  BY <1>12 DEF TickClosed
<1>13. CASE CloseBegin
  BY <1>13 DEF CloseBegin, Handles
<1>14. CASE CancelController
  BY <1>14 DEF CancelController
<1>15. CASE CloseEnd
  BY <1>15 DEF CloseEnd
<1>16. ASSUME NEW w \in Workers, Crash(w) PROVE TypeOK'
  BY <1>16 DEF Crash
<1>17. ASSUME NEW w \in Workers, Stopped(w) PROVE TypeOK'
  BY <1>17 DEF Stopped
<1>18. CASE Advance
  BY <1>18 DEF Advance
<1>19. CASE ReleasedAll
  BY <1>19 DEF ReleasedAll
<1>20. CASE InterruptClose
  BY <1>20 DEF InterruptClose
<1>21. CASE InterruptCancel
  BY <1>21 DEF InterruptCancel
<1>22. CASE InterruptReleaseAll
  BY <1>22 DEF InterruptReleaseAll
<1>u. CASE UNCHANGED vars
  BY <1>u
<1>q. QED
  BY <1>1, <1>2, <1>3, <1>4, <1>5, <1>6, <1>7, <1>8, <1>9, <1>10, <1>11,
     <1>12, <1>13, <1>14, <1>15, <1>16, <1>17, <1>18, <1>19, <1>20,
     <1>21, <1>22, <1>u
  DEF Next, ClientStep, CloseStep

(* spawnManagedWorker gives every reactor an ID of its own. *)
LEMMA FreshStep == TypeOK /\ ThreadInv /\ CountInv /\ FreshInv /\ [Next]_vars => FreshInv'
<1> SUFFICES ASSUME TypeOK, ThreadInv, CountInv, FreshInv, [Next]_vars PROVE FreshInv'
  OBVIOUS
<1> USE PoolAssumption
    DEF vars, stateVars, workerVars, threadVars, closeVars, envVars, Threads, Workers,
        Goto, TypeOK, FreshInv
<1>1. ASSUME NEW c \in Clients, Admit(c) PROVE FreshInv'
  <2>0. quiescing' = Refreshed /\ (\A w \in Workers : quiescing[w] => Refreshed[w])
    BY <1>1, RefreshedEffect DEF Admit
  <2>1. PICK v \in Workers :
          /\ v \in msWorkers /\ ~quiescing[v] /\ status[v] = "running"
          /\ active' = [active EXCEPT ![v] = @ + 1]
          /\ lease' = [lease EXCEPT ![c] = v]
    BY <1>1, AdmitEffect
  <2>2. UNCHANGED <<msWorkers, msNextId, status>>
    BY <1>1 DEF Admit
  <2>3. v < msNextId
    BY <2>1
  <2>4. \A w \in Workers : w >= msNextId =>
          w \notin msWorkers' /\ active'[w] = 0 /\ ~quiescing'[w]
    BY <2>0, <2>1, <2>2, <2>3, RefreshedEffect
  <2>5. \A d \in Clients : lease'[d] # NoWorker => lease'[d] < msNextId
    BY <2>1, <2>3
  <2>q. QED
    BY <2>2, <2>4, <2>5
<1>2. ASSUME NEW c \in Clients, AdmitGrowing(c) PROVE FreshInv'
  <2>1. quiescing' = Refreshed /\ msNextId \in Workers
    BY <1>2 DEF AdmitGrowing
  <2>2. \A w \in Workers : Refreshed[w] => w < msNextId
    BY RefreshedEffect
  <2>3. msNextId' = msNextId + 1 /\ msWorkers' = msWorkers \cup msNextId..msNextId
    BY <1>2 DEF AdmitGrowing, Spawn
  <2>q. QED
    BY <1>2, <2>1, <2>2, <2>3 DEF AdmitGrowing, Spawn
<1>3. ASSUME NEW c \in Clients, AdmitFails(c) PROVE FreshInv'
  <2>1. \A w \in Workers : Refreshed[w] => w < msNextId
    BY RefreshedEffect
  <2>q. QED
    BY <1>3, <2>1 DEF AdmitFails
<1>4. ASSUME NEW c \in Clients, EndTransfer(c) PROVE FreshInv'
  BY <1>4 DEF EndTransfer
<1>5. ASSUME NEW c \in Clients, ReleaseWorker(c) PROVE FreshInv'
  <2>1. lease[c] \in Workers
    BY <1>5, ReleaseEffect
  <2>2. PICK left \in Nat :
             /\ left <= active[lease[c]] /\ left >= active[lease[c]] - 1
             /\ active[lease[c]] = 0 => left = 0
             /\ \/ /\ lease[c] \in msWorkers
                   /\ active' = [active EXCEPT ![lease[c]] = left]
                   /\ \/ /\ left = 0 /\ quiescing[lease[c]]
                         /\ todo' = [todo EXCEPT ![c] = {lease[c]}]
                         /\ pc' = [pc EXCEPT ![c] = "retire"]
                      \/ pc' = [pc EXCEPT ![c] = "idle"] /\ todo' = todo
                \/ /\ lease[c] \notin msWorkers
                   /\ active' = active /\ todo' = todo
                   /\ pc' = [pc EXCEPT ![c] = "idle"]
    BY <1>5, ReleaseEffect
  <2>q. QED
    BY <1>5, <2>1, <2>2 DEF ReleaseWorker
<1>6. ASSUME NEW c \in Clients, InterruptRelease(c) PROVE FreshInv'
  BY <1>6 DEF InterruptRelease
<1>7. ASSUME NEW c \in Clients, InterruptRetire(c) PROVE FreshInv'
  BY <1>7 DEF InterruptRetire
<1>8. ASSUME NEW t \in Threads, NEW w \in Workers, StopWorker(t, w) PROVE FreshInv'
  BY <1>8 DEF StopWorker, Stops
<1>9. ASSUME NEW t \in Threads, RemoveWorkers(t) PROVE FreshInv'
  BY <1>9 DEF RemoveWorkers, AllStopped
<1>10. CASE ReadClock
  BY <1>10 DEF ReadClock
<1>11. CASE Tick
  <2>1. PICK n \in 0..MinAgents, marked \in [Workers -> BOOLEAN] :
          /\ \A w \in Workers : quiescing[w] => marked[w]
          /\ \A w \in Workers : marked[w] /\ ~quiescing[w] =>
               /\ w \in msWorkers
               /\ status[w] # "running" \/ Elapsed(now, KillCooldown)
          /\ n = 0 \/ n <= MinAgents - Cardinality(Selectable(marked))
          /\ msNextId + n <= MaxWorkers + 1
          /\ quiescing' = marked
          /\ todo' = [todo EXCEPT ![Controller] = Finished(marked)]
          /\ Spawn(n, now)
          /\ msShrinkStreak' \in 0..(SustainTicks - 1)
    BY <1>11, TickEffect
  <2>q. QED
    BY <1>11, <2>1 DEF Tick, Spawn
<1>12. CASE TickClosed
  BY <1>12 DEF TickClosed
<1>13. CASE CloseBegin
  BY <1>13 DEF CloseBegin, Handles
<1>14. CASE CancelController
  BY <1>14 DEF CancelController
<1>15. CASE CloseEnd
  BY <1>15 DEF CloseEnd
<1>16. ASSUME NEW w \in Workers, Crash(w) PROVE FreshInv'
  BY <1>16 DEF Crash
<1>17. ASSUME NEW w \in Workers, Stopped(w) PROVE FreshInv'
  BY <1>17 DEF Stopped
<1>18. CASE Advance
  BY <1>18 DEF Advance
<1>19. CASE ReleasedAll
  BY <1>19 DEF ReleasedAll
<1>20. CASE InterruptClose
  BY <1>20 DEF InterruptClose
<1>21. CASE InterruptCancel
  BY <1>21 DEF InterruptCancel
<1>22. CASE InterruptReleaseAll
  BY <1>22 DEF InterruptReleaseAll
<1>u. CASE UNCHANGED vars
  BY <1>u
<1>q. QED
  BY <1>1, <1>2, <1>3, <1>4, <1>5, <1>6, <1>7, <1>8, <1>9, <1>10, <1>11,
     <1>12, <1>13, <1>14, <1>15, <1>16, <1>17, <1>18, <1>19, <1>20,
     <1>21, <1>22, <1>u
  DEF Next, ClientStep, CloseStep

(* Stop first, remove from the registry second; closeAgent waits for all of *)
(* them.                                                                    *)
LEMMA OwnedStep == TypeOK /\ ThreadInv /\ CountInv /\ OwnedInv /\ [Next]_vars => OwnedInv'
<1> SUFFICES ASSUME TypeOK, ThreadInv, CountInv, OwnedInv, [Next]_vars PROVE OwnedInv'
  OBVIOUS
<1> USE PoolAssumption
    DEF vars, stateVars, workerVars, threadVars, closeVars, envVars, Threads, Workers,
        Goto, TypeOK, ThreadInv, OwnedInv, Live
<1>1. ASSUME NEW c \in Clients, Admit(c) PROVE OwnedInv'
  BY <1>1 DEF Admit
<1>2. ASSUME NEW c \in Clients, AdmitGrowing(c) PROVE OwnedInv'
  BY <1>2 DEF AdmitGrowing, Spawn
<1>3. ASSUME NEW c \in Clients, AdmitFails(c) PROVE OwnedInv'
  BY <1>3 DEF AdmitFails
<1>4. ASSUME NEW c \in Clients, EndTransfer(c) PROVE OwnedInv'
  BY <1>4 DEF EndTransfer
<1>5. ASSUME NEW c \in Clients, ReleaseWorker(c) PROVE OwnedInv'
  <2>1. lease[c] \in Workers
    BY <1>5, ReleaseEffect
  <2>2. PICK left \in Nat :
             /\ left <= active[lease[c]] /\ left >= active[lease[c]] - 1
             /\ active[lease[c]] = 0 => left = 0
             /\ \/ /\ lease[c] \in msWorkers
                   /\ active' = [active EXCEPT ![lease[c]] = left]
                   /\ \/ /\ left = 0 /\ quiescing[lease[c]]
                         /\ todo' = [todo EXCEPT ![c] = {lease[c]}]
                         /\ pc' = [pc EXCEPT ![c] = "retire"]
                      \/ pc' = [pc EXCEPT ![c] = "idle"] /\ todo' = todo
                \/ /\ lease[c] \notin msWorkers
                   /\ active' = active /\ todo' = todo
                   /\ pc' = [pc EXCEPT ![c] = "idle"]
    BY <1>5, ReleaseEffect
  <2>q. QED
    BY <1>5, <2>1, <2>2 DEF ReleaseWorker
<1>6. ASSUME NEW c \in Clients, InterruptRelease(c) PROVE OwnedInv'
  BY <1>6 DEF InterruptRelease
<1>7. ASSUME NEW c \in Clients, InterruptRetire(c) PROVE OwnedInv'
  BY <1>7 DEF InterruptRetire
<1>8. ASSUME NEW t \in Threads, NEW w \in Workers, StopWorker(t, w) PROVE OwnedInv'
  BY <1>8 DEF StopWorker, Stops
<1>9. ASSUME NEW t \in Threads, RemoveWorkers(t) PROVE OwnedInv'
  BY <1>9 DEF RemoveWorkers, AllStopped
<1>10. CASE ReadClock
  BY <1>10 DEF ReadClock
<1>11. CASE Tick
  <2>1. PICK n \in 0..MinAgents, marked \in [Workers -> BOOLEAN] :
          /\ \A w \in Workers : quiescing[w] => marked[w]
          /\ \A w \in Workers : marked[w] /\ ~quiescing[w] =>
               /\ w \in msWorkers
               /\ status[w] # "running" \/ Elapsed(now, KillCooldown)
          /\ n = 0 \/ n <= MinAgents - Cardinality(Selectable(marked))
          /\ msNextId + n <= MaxWorkers + 1
          /\ quiescing' = marked
          /\ todo' = [todo EXCEPT ![Controller] = Finished(marked)]
          /\ Spawn(n, now)
          /\ msShrinkStreak' \in 0..(SustainTicks - 1)
    BY <1>11, TickEffect
  <2>q. QED
    BY <1>11, <2>1 DEF Tick, Spawn
<1>12. CASE TickClosed
  BY <1>12 DEF TickClosed
<1>13. CASE CloseBegin
  BY <1>13 DEF CloseBegin, Handles
<1>14. CASE CancelController
  BY <1>14 DEF CancelController
<1>15. CASE CloseEnd
  BY <1>15 DEF CloseEnd
<1>16. ASSUME NEW w \in Workers, Crash(w) PROVE OwnedInv'
  BY <1>16 DEF Crash
<1>17. ASSUME NEW w \in Workers, Stopped(w) PROVE OwnedInv'
  BY <1>17 DEF Stopped
<1>18. CASE Advance
  BY <1>18 DEF Advance
<1>19. CASE ReleasedAll
  BY <1>19 DEF ReleasedAll, AllStopped
<1>20. CASE InterruptClose
  BY <1>20 DEF InterruptClose
<1>21. CASE InterruptCancel
  BY <1>21 DEF InterruptCancel
<1>22. CASE InterruptReleaseAll
  BY <1>22 DEF InterruptReleaseAll
<1>u. CASE UNCHANGED vars
  BY <1>u
<1>q. QED
  BY <1>1, <1>2, <1>3, <1>4, <1>5, <1>6, <1>7, <1>8, <1>9, <1>10, <1>11,
     <1>12, <1>13, <1>14, <1>15, <1>16, <1>17, <1>18, <1>19, <1>20,
     <1>21, <1>22, <1>u
  DEF Next, ClientStep, CloseStep

(* A draining worker takes no lease, so an idle one stays idle. *)
LEMMA DrainStep == TypeOK /\ ThreadInv /\ CountInv /\ FreshInv /\ DrainInv /\ [Next]_vars => DrainInv'
<1> SUFFICES ASSUME TypeOK, ThreadInv, CountInv, FreshInv, DrainInv, [Next]_vars PROVE DrainInv'
  OBVIOUS
<1> USE PoolAssumption
    DEF vars, stateVars, workerVars, threadVars, closeVars, envVars, Threads, Workers,
        Goto, TypeOK, DrainInv
<1>1. ASSUME NEW c \in Clients, Admit(c) PROVE DrainInv'
  <2>0. quiescing' = Refreshed /\ (\A w \in Workers : quiescing[w] => Refreshed[w])
    BY <1>1, RefreshedEffect DEF Admit
  <2>1. PICK v \in Workers :
          /\ v \in msWorkers /\ ~quiescing[v] /\ status[v] = "running"
          /\ active' = [active EXCEPT ![v] = @ + 1]
          /\ lease' = [lease EXCEPT ![c] = v]
    BY <1>1, AdmitEffect
  <2>q. QED
    BY <1>1, <2>0, <2>1 DEF Admit
<1>2. ASSUME NEW c \in Clients, AdmitGrowing(c) PROVE DrainInv'
  <2>0. quiescing' = Refreshed /\ (\A w \in Workers : quiescing[w] => Refreshed[w])
    BY <1>2, RefreshedEffect DEF AdmitGrowing
  <2>1. msNextId \in Workers /\ ~quiescing[msNextId]
    BY <1>2 DEF AdmitGrowing, FreshInv
  <2>q. QED
    BY <1>2, <2>0, <2>1 DEF AdmitGrowing
<1>3. ASSUME NEW c \in Clients, AdmitFails(c) PROVE DrainInv'
  <2>0. quiescing' = Refreshed /\ (\A w \in Workers : quiescing[w] => Refreshed[w])
    BY <1>3, RefreshedEffect DEF AdmitFails
  <2>q. QED
    BY <1>3, <2>0 DEF AdmitFails
<1>4. ASSUME NEW c \in Clients, EndTransfer(c) PROVE DrainInv'
  BY <1>4 DEF EndTransfer
<1>5. ASSUME NEW c \in Clients, ReleaseWorker(c) PROVE DrainInv'
  <2>1. lease[c] \in Workers
    BY <1>5, ReleaseEffect
  <2>2. PICK left \in Nat :
             /\ left <= active[lease[c]] /\ left >= active[lease[c]] - 1
             /\ active[lease[c]] = 0 => left = 0
             /\ \/ /\ lease[c] \in msWorkers
                   /\ active' = [active EXCEPT ![lease[c]] = left]
                   /\ \/ /\ left = 0 /\ quiescing[lease[c]]
                         /\ todo' = [todo EXCEPT ![c] = {lease[c]}]
                         /\ pc' = [pc EXCEPT ![c] = "retire"]
                      \/ pc' = [pc EXCEPT ![c] = "idle"] /\ todo' = todo
                \/ /\ lease[c] \notin msWorkers
                   /\ active' = active /\ todo' = todo
                   /\ pc' = [pc EXCEPT ![c] = "idle"]
    BY <1>5, ReleaseEffect
  <2>3. quiescing' = quiescing
    BY <1>5 DEF ReleaseWorker
  <2>4. ASSUME NEW t \in Threads \ {Closer}, NEW w \in Workers, w \in todo'[t]
        PROVE quiescing'[w] /\ active'[w] = 0
    <3>0. \/ todo' = todo
          \/ /\ todo' = [todo EXCEPT ![c] = {lease[c]}] /\ quiescing[lease[c]]
             /\ active' = [active EXCEPT ![lease[c]] = left] /\ left = 0
      BY <2>2
    <3>1. w \in todo[t] \/ (w = lease[c] /\ quiescing[w] /\ active'[w] = 0)
      <4>1. CASE todo' = todo
        BY <2>4, <4>1, Zenon
      <4>2. CASE todo' # todo
        <5>1. todo'[t] = IF t = c THEN {lease[c]} ELSE todo[t]
          BY <3>0, <4>2
        <5>2. active'[lease[c]] = 0 /\ quiescing[lease[c]]
          BY <2>1, <3>0, <4>2
        <5>3. CASE t = c
          BY <2>4, <5>1, <5>2, <5>3
        <5>4. CASE t # c
          BY <2>4, <5>1, <5>4
        <5>q. QED
          BY <5>3, <5>4
      <4>q. QED
        BY <4>1, <4>2
    <3>2. w \in todo[t] => active[w] = 0 /\ active'[w] = 0
      BY <2>1, <2>2
    <3>q. QED
      BY <2>3, <3>1, <3>2
  <2>5. todo' \in [Threads -> SUBSET Workers]
    BY <2>1, <2>2
  <2>q. QED
    BY <2>4, <2>5
<1>6. ASSUME NEW c \in Clients, InterruptRelease(c) PROVE DrainInv'
  BY <1>6 DEF InterruptRelease
<1>7. ASSUME NEW c \in Clients, InterruptRetire(c) PROVE DrainInv'
  BY <1>7 DEF InterruptRetire
<1>8. ASSUME NEW t \in Threads, NEW w \in Workers, StopWorker(t, w) PROVE DrainInv'
  BY <1>8 DEF StopWorker, Stops
<1>9. ASSUME NEW t \in Threads, RemoveWorkers(t) PROVE DrainInv'
  BY <1>9 DEF RemoveWorkers, AllStopped
<1>10. CASE ReadClock
  BY <1>10 DEF ReadClock
<1>11. CASE Tick
  <2>1. PICK n \in 0..MinAgents, marked \in [Workers -> BOOLEAN] :
          /\ \A w \in Workers : quiescing[w] => marked[w]
          /\ \A w \in Workers : marked[w] /\ ~quiescing[w] =>
               /\ w \in msWorkers
               /\ status[w] # "running" \/ Elapsed(now, KillCooldown)
          /\ n = 0 \/ n <= MinAgents - Cardinality(Selectable(marked))
          /\ msNextId + n <= MaxWorkers + 1
          /\ quiescing' = marked
          /\ todo' = [todo EXCEPT ![Controller] = Finished(marked)]
          /\ Spawn(n, now)
          /\ msShrinkStreak' \in 0..(SustainTicks - 1)
    BY <1>11, TickEffect
  <2>q. QED
    BY <1>11, <2>1 DEF Tick, Finished
<1>12. CASE TickClosed
  BY <1>12 DEF TickClosed
<1>13. CASE CloseBegin
  BY <1>13 DEF CloseBegin, Handles
<1>14. CASE CancelController
  BY <1>14 DEF CancelController
<1>15. CASE CloseEnd
  BY <1>15 DEF CloseEnd
<1>16. ASSUME NEW w \in Workers, Crash(w) PROVE DrainInv'
  BY <1>16 DEF Crash
<1>17. ASSUME NEW w \in Workers, Stopped(w) PROVE DrainInv'
  BY <1>17 DEF Stopped
<1>18. CASE Advance
  BY <1>18 DEF Advance
<1>19. CASE ReleasedAll
  BY <1>19 DEF ReleasedAll
<1>20. CASE InterruptClose
  BY <1>20 DEF InterruptClose
<1>21. CASE InterruptCancel
  BY <1>21 DEF InterruptCancel
<1>22. CASE InterruptReleaseAll
  BY <1>22 DEF InterruptReleaseAll
<1>u. CASE UNCHANGED vars
  BY <1>u
<1>q. QED
  BY <1>1, <1>2, <1>3, <1>4, <1>5, <1>6, <1>7, <1>8, <1>9, <1>10, <1>11,
     <1>12, <1>13, <1>14, <1>15, <1>16, <1>17, <1>18, <1>19, <1>20,
     <1>21, <1>22, <1>u
  DEF Next, ClientStep, CloseStep

(* mwActive is never below the number of leases, whichever releases are     *)
(* interrupted.                                                             *)
LEMMA CountStep == TypeOK /\ ThreadInv /\ CountInv /\ [Next]_vars => CountInv'
<1> SUFFICES ASSUME TypeOK, ThreadInv, CountInv, [Next]_vars PROVE CountInv'
  OBVIOUS
<1> USE PoolAssumption
    DEF vars, stateVars, workerVars, threadVars, closeVars, envVars, Threads, Workers,
        Goto, TypeOK, ThreadInv
<1>f. ASSUME UNCHANGED <<lease, active>>, \A c \in Clients : pc'[c] \in {"using", "releasing"} <=> pc[c] \in {"using", "releasing"}
      PROVE CountInv'
  BY <1>f DEF CountInv, Holders
<1>g. \A w \in Workers : /\ IsFiniteSet(Holders(w)) /\ Cardinality(Holders(w)) \in Nat
                         /\ Cardinality(Holders(w)) <= active[w]
  BY FS_CardinalityType DEF CountInv
<1>a. ASSUME NEW c \in Clients, NEW v \in Workers, pc[c] = "idle",
             active' = [active EXCEPT ![v] = @ + 1],
             lease' = [lease EXCEPT ![c] = v], pc' = [pc EXCEPT ![c] = "using"]
      PROVE CountInv'
  <2>1. lease[c] = NoWorker /\ NoWorker \notin Workers
    BY <1>a DEF CountInv
  <2>2. ASSUME NEW w \in Workers
        PROVE IsFiniteSet(Holders(w)') /\ Cardinality(Holders(w)') <= active'[w]
    <3>1. CASE w = v
      <4>1. Holders(w)' = Holders(w) \cup {c} /\ c \notin Holders(w)
        BY <1>a, <2>1, <3>1 DEF Holders
      <4>2. active'[w] = active[w] + 1
        BY <1>a, <3>1
      <4>3. /\ IsFiniteSet(Holders(w) \cup {c})
            /\ Cardinality(Holders(w) \cup {c}) = Cardinality(Holders(w)) + 1
        BY <1>g, <4>1, FS_AddElement
      <4>4. Cardinality(Holders(w)) + 1 <= active[w] + 1
        BY <1>g
      <4>q. QED
        BY <4>1, <4>2, <4>3, <4>4
    <3>2. CASE w # v
      <4>1. Holders(w)' = Holders(w) /\ active'[w] = active[w]
        BY <1>a, <2>1, <3>2 DEF Holders
      <4>q. QED
        BY <1>g, <4>1
    <3>q. QED
      BY <3>1, <3>2
  <2>3. \A d \in Clients : lease'[d] # NoWorker <=> pc'[d] \in {"using", "releasing"}
    BY <1>a, <2>1 DEF CountInv
  <2>q. QED
    BY <2>2, <2>3 DEF CountInv
<1>r. ASSUME NEW c \in Clients, lease[c] \in Workers, lease' = [lease EXCEPT ![c] = NoWorker],
             pc'[c] \in {"idle", "retire"}, \A d \in Clients \ {c} : pc'[d] = pc[d],
             active' \in [Workers -> Nat], active'[lease[c]] >= active[lease[c]] - 1,
             \A w \in Workers \ {lease[c]} : active'[w] = active[w]
      PROVE CountInv'
  <2>1. NoWorker \notin Workers
    OBVIOUS
  <2>2. ASSUME NEW w \in Workers
        PROVE IsFiniteSet(Holders(w)') /\ Cardinality(Holders(w)') <= active'[w]
    <3>1. CASE w = lease[c]
      <4>1. Holders(w)' = Holders(w) \ {c} /\ c \in Holders(w)
        BY <1>r, <2>1, <3>1 DEF Holders
      <4>a. /\ IsFiniteSet(Holders(w) \ {c})
            /\ Cardinality(Holders(w) \ {c}) = Cardinality(Holders(w)) - 1
        BY <1>g, <4>1, FS_RemoveElement
      <4>2. IsFiniteSet(Holders(w)') /\ Cardinality(Holders(w)') = Cardinality(Holders(w)) - 1
        BY <4>1, <4>a
      <4>q. QED
        BY <1>g, <1>r, <3>1, <4>2
    <3>2. CASE w # lease[c]
      <4>1. Holders(w)' = Holders(w) /\ active'[w] = active[w]
        BY <1>r, <2>1, <3>2 DEF Holders
      <4>q. QED
        BY <1>g, <4>1
    <3>q. QED
      BY <3>1, <3>2
  <2>3. \A d \in Clients : lease'[d] # NoWorker <=> pc'[d] \in {"using", "releasing"}
    BY <1>r, <2>1 DEF CountInv
  <2>q. QED
    BY <2>2, <2>3 DEF CountInv
<1>1. ASSUME NEW c \in Clients, Admit(c) PROVE CountInv'
  <2>1. PICK v \in Workers :
          /\ v \in msWorkers /\ ~quiescing[v] /\ status[v] = "running"
          /\ active' = [active EXCEPT ![v] = @ + 1]
          /\ lease' = [lease EXCEPT ![c] = v]
    BY <1>1, AdmitEffect
  <2>q. QED
    BY <1>1, <1>a, <2>1 DEF Admit
<1>2. ASSUME NEW c \in Clients, AdmitGrowing(c) PROVE CountInv'
  BY <1>2, <1>a DEF AdmitGrowing
<1>3. ASSUME NEW c \in Clients, AdmitFails(c) PROVE CountInv'
  BY <1>3, <1>f DEF AdmitFails
<1>4. ASSUME NEW c \in Clients, EndTransfer(c) PROVE CountInv'
  BY <1>4, <1>f DEF EndTransfer
<1>5. ASSUME NEW c \in Clients, ReleaseWorker(c) PROVE CountInv'
  <2>1. lease[c] \in Workers
    BY <1>5, ReleaseEffect
  <2>2. PICK left \in Nat :
             /\ left <= active[lease[c]] /\ left >= active[lease[c]] - 1
             /\ active[lease[c]] = 0 => left = 0
             /\ \/ /\ lease[c] \in msWorkers
                   /\ active' = [active EXCEPT ![lease[c]] = left]
                   /\ \/ /\ left = 0 /\ quiescing[lease[c]]
                         /\ todo' = [todo EXCEPT ![c] = {lease[c]}]
                         /\ pc' = [pc EXCEPT ![c] = "retire"]
                      \/ pc' = [pc EXCEPT ![c] = "idle"] /\ todo' = todo
                \/ /\ lease[c] \notin msWorkers
                   /\ active' = active /\ todo' = todo
                   /\ pc' = [pc EXCEPT ![c] = "idle"]
    BY <1>5, ReleaseEffect
  <2>3. active' \in [Workers -> Nat] /\ active'[lease[c]] >= active[lease[c]] - 1
    <3>1. active' \in {active, [active EXCEPT ![lease[c]] = left]}
      BY <2>2
    <3>2. active[lease[c]] \in Nat /\ left >= active[lease[c]] - 1
      BY <2>1, <2>2
    <3>3. CASE active' = active
      BY <2>1, <3>2, <3>3
    <3>4. CASE active' = [active EXCEPT ![lease[c]] = left]
      BY <2>1, <3>2, <3>4
    <3>q. QED
      BY <3>1, <3>3, <3>4
  <2>4. \A w \in Workers \ {lease[c]} : active'[w] = active[w]
    BY <2>1, <2>2
  <2>5. pc'[c] \in {"idle", "retire"} /\ \A d \in Clients \ {c} : pc'[d] = pc[d]
    BY <2>2
  <2>6. lease' = [lease EXCEPT ![c] = NoWorker]
    BY <1>5 DEF ReleaseWorker
  <2>q. QED
    BY <1>r, <2>1, <2>3, <2>4, <2>5, <2>6
<1>6. ASSUME NEW c \in Clients, InterruptRelease(c) PROVE CountInv'
  <2>1. lease[c] \in Workers
    BY <1>6 DEF InterruptRelease, CountInv
  <2>2. active[lease[c]] >= active[lease[c]] - 1
    BY <2>1
  <2>q. QED
    BY <1>6, <1>r, <2>1, <2>2 DEF InterruptRelease
<1>7. ASSUME NEW c \in Clients, InterruptRetire(c) PROVE CountInv'
  BY <1>7, <1>f DEF InterruptRetire
<1>8. ASSUME NEW t \in Threads, NEW w \in Workers, StopWorker(t, w) PROVE CountInv'
  BY <1>8, <1>f DEF StopWorker
<1>9. ASSUME NEW t \in Threads, RemoveWorkers(t) PROVE CountInv'
  BY <1>9, <1>f DEF RemoveWorkers
<1>10. CASE ReadClock
  BY <1>10, <1>f DEF ReadClock
<1>11. CASE Tick
  BY <1>11, <1>f DEF Tick
<1>12. CASE TickClosed
  BY <1>12, <1>f DEF TickClosed
<1>13. CASE CloseBegin
  BY <1>13, <1>f DEF CloseBegin
<1>14. CASE CancelController
  BY <1>14, <1>f DEF CancelController
<1>15. CASE CloseEnd
  BY <1>15, <1>f DEF CloseEnd
<1>16. ASSUME NEW w \in Workers, Crash(w) PROVE CountInv'
  BY <1>16, <1>f DEF Crash
<1>17. ASSUME NEW w \in Workers, Stopped(w) PROVE CountInv'
  BY <1>17, <1>f DEF Stopped
<1>18. CASE Advance
  BY <1>18, <1>f DEF Advance
<1>19. CASE ReleasedAll
  BY <1>19, <1>f DEF ReleasedAll
<1>20. CASE InterruptClose
  BY <1>20, <1>f DEF InterruptClose
<1>21. CASE InterruptCancel
  BY <1>21, <1>f DEF InterruptCancel
<1>22. CASE InterruptReleaseAll
  BY <1>22, <1>f DEF InterruptReleaseAll
<1>u. CASE UNCHANGED vars
  BY <1>u, <1>f
<1>q. QED
  BY <1>1, <1>2, <1>3, <1>4, <1>5, <1>6, <1>7, <1>8, <1>9, <1>10, <1>11,
     <1>12, <1>13, <1>14, <1>15, <1>16, <1>17, <1>18, <1>19, <1>20,
     <1>21, <1>22, <1>u
  DEF Next, ClientStep, CloseStep

(* Only an idle draining worker is stopped under an open pool, and only a   *)
(* running one is leased.                                                   *)
LEMMA LeaseStep == TypeOK /\ ThreadInv /\ CountInv /\ DrainInv /\ FreshInv /\ LeaseInv /\ [Next]_vars => LeaseInv'
<1> SUFFICES ASSUME TypeOK, ThreadInv, CountInv, DrainInv, FreshInv, LeaseInv, [Next]_vars PROVE LeaseInv'
  OBVIOUS
<1> USE PoolAssumption
    DEF vars, stateVars, workerVars, threadVars, closeVars, envVars, Threads, Workers,
        Goto, TypeOK, LeaseInv
<1>n. ASSUME NEW w \in Workers, active[w] = 0, NEW c \in Clients PROVE lease[c] # w
  <2>1. IsFiniteSet(Holders(w)) /\ Cardinality(Holders(w)) = 0
    BY <1>n, FS_CardinalityType DEF CountInv
  <2>2. Holders(w) = {}
    BY <2>1, FS_EmptySet
  <2>q. QED
    BY <2>2 DEF Holders
<1>1. ASSUME NEW c \in Clients, Admit(c) PROVE LeaseInv'
  <2>1. PICK v \in Workers :
          /\ v \in msWorkers /\ ~quiescing[v] /\ status[v] = "running"
          /\ active' = [active EXCEPT ![v] = @ + 1]
          /\ lease' = [lease EXCEPT ![c] = v]
    BY <1>1, AdmitEffect
  <2>q. QED
    BY <1>1, <2>1 DEF Admit
<1>2. ASSUME NEW c \in Clients, AdmitGrowing(c) PROVE LeaseInv'
  <2>1. \A w \in Workers : status'[w] = IF w = msNextId THEN "running" ELSE status[w]
    BY <1>2 DEF AdmitGrowing, Spawn
  <2>q. QED
    BY <1>2, <2>1 DEF AdmitGrowing
<1>3. ASSUME NEW c \in Clients, AdmitFails(c) PROVE LeaseInv'
  BY <1>3 DEF AdmitFails
<1>4. ASSUME NEW c \in Clients, EndTransfer(c) PROVE LeaseInv'
  BY <1>4 DEF EndTransfer
<1>5. ASSUME NEW c \in Clients, ReleaseWorker(c) PROVE LeaseInv'
  BY <1>5 DEF ReleaseWorker
<1>6. ASSUME NEW c \in Clients, InterruptRelease(c) PROVE LeaseInv'
  BY <1>6 DEF InterruptRelease
<1>7. ASSUME NEW c \in Clients, InterruptRetire(c) PROVE LeaseInv'
  BY <1>7 DEF InterruptRetire
<1>8. ASSUME NEW t \in Threads, NEW w \in Workers, StopWorker(t, w) PROVE LeaseInv'
  <2>1. CASE t = Closer
    BY <1>8, <2>1 DEF StopWorker, Stops, ThreadInv
  <2>2. CASE t # Closer
    <3>1. active[w] = 0
      BY <1>8, <2>2 DEF StopWorker, DrainInv
    <3>2. \A c \in Clients : lease[c] # w
      BY <1>n, <3>1
    <3>q. QED
      BY <1>8, <3>2 DEF StopWorker
  <2>q. QED
    BY <2>1, <2>2
<1>9. ASSUME NEW t \in Threads, RemoveWorkers(t) PROVE LeaseInv'
  BY <1>9 DEF RemoveWorkers, AllStopped
<1>10. CASE ReadClock
  BY <1>10 DEF ReadClock
<1>11. CASE Tick
  <2>1. PICK n \in 0..MinAgents, marked \in [Workers -> BOOLEAN] :
          /\ \A w \in Workers : quiescing[w] => marked[w]
          /\ \A w \in Workers : marked[w] /\ ~quiescing[w] =>
               /\ w \in msWorkers
               /\ status[w] # "running" \/ Elapsed(now, KillCooldown)
          /\ n = 0 \/ n <= MinAgents - Cardinality(Selectable(marked))
          /\ msNextId + n <= MaxWorkers + 1
          /\ quiescing' = marked
          /\ todo' = [todo EXCEPT ![Controller] = Finished(marked)]
          /\ Spawn(n, now)
          /\ msShrinkStreak' \in 0..(SustainTicks - 1)
    BY <1>11, TickEffect
  <2>2. \A w \in Workers : status'[w] = "running" \/ status'[w] = status[w]
    BY <2>1 DEF Spawn
  <2>q. QED
    BY <1>11, <2>2 DEF Tick
<1>12. CASE TickClosed
  BY <1>12 DEF TickClosed
<1>13. CASE CloseBegin
  BY <1>13 DEF CloseBegin, Handles
<1>14. CASE CancelController
  BY <1>14 DEF CancelController
<1>15. CASE CloseEnd
  BY <1>15 DEF CloseEnd
<1>16. ASSUME NEW w \in Workers, Crash(w) PROVE LeaseInv'
  BY <1>16 DEF Crash
<1>17. ASSUME NEW w \in Workers, Stopped(w) PROVE LeaseInv'
  BY <1>17 DEF Stopped
<1>18. CASE Advance
  BY <1>18 DEF Advance
<1>19. CASE ReleasedAll
  BY <1>19 DEF ReleasedAll
<1>20. CASE InterruptClose
  BY <1>20 DEF InterruptClose
<1>21. CASE InterruptCancel
  BY <1>21 DEF InterruptCancel
<1>22. CASE InterruptReleaseAll
  BY <1>22 DEF InterruptReleaseAll
<1>u. CASE UNCHANGED vars
  BY <1>u
<1>q. QED
  BY <1>1, <1>2, <1>3, <1>4, <1>5, <1>6, <1>7, <1>8, <1>9, <1>10, <1>11,
     <1>12, <1>13, <1>14, <1>15, <1>16, <1>17, <1>18, <1>19, <1>20,
     <1>21, <1>22, <1>u
  DEF Next, ClientStep, CloseStep

-----------------------------------------------------------------------------
(* A pool starts with mpMinAgents running workers and no lease. *)
LEMMA InitIInv == Init => IInv
<1> SUFFICES ASSUME Init PROVE IInv
  OBVIOUS
<1> USE PoolAssumption DEF Init, Workers, Threads
<1>1. TypeOK
  <2> DEFINE S == Selectable(quiescing)
             I == 1..MinAgents
  <2>1. S \subseteq I
    BY DEF Selectable
  <2>2. IsFiniteSet(I) /\ Cardinality(I) = MinAgents
    BY FS_Interval
  <2>3. Cardinality(S) <= MaxAgents
    <3> HIDE DEF S, I, Init
    <3>1. IsFiniteSet(S) /\ Cardinality(S) <= MinAgents
      BY <2>1, <2>2, FS_Subset
    <3>2. Cardinality(S) \in Nat
      BY <3>1, FS_CardinalityType
    <3>q. QED
      BY <3>1, <3>2
  <2>4. msWorkers \subseteq Workers /\ msNextId \in 1..(MaxWorkers + 1)
    OBVIOUS
  <2>5. status \in [Workers -> {"none", "running", "stopping", "stopped"}]
    OBVIOUS
  <2>7. pc \in [Threads -> {"idle", "using", "releasing", "retire", "sleep",
                            "tick", "dead", "cancel", "stopAll", "clear", "closed"}]
    OBVIOUS
  <2>8. /\ msShrinkStreak \in 0..(SustainTicks - 1) /\ msLastSpawn \in 0..MaxTime
        /\ now \in 0..MaxTime /\ clock \in 0..MaxTime /\ interrupts \in 0..MaxFaults
    OBVIOUS
  <2>9. /\ lease \in [Clients -> Workers \cup {NoWorker}]
        /\ todo \in [Threads -> SUBSET Workers] /\ crashed \subseteq Workers
        /\ active \in [Workers -> Nat] /\ quiescing \in [Workers -> BOOLEAN]
        /\ msClosed \in BOOLEAN
        /\ attempt \in {"first", "failed", "retry"} /\ cutOff \subseteq Workers
    OBVIOUS
  <2> HIDE DEF Init, Workers, Threads
  <2>q. QED
    BY <2>3, <2>4, <2>5, <2>7, <2>8, <2>9 DEF TypeOK
<1>2. ThreadInv
  BY DEF ThreadInv
<1>3. FreshInv
  BY DEF FreshInv
<1>4. OwnedInv
  BY DEF OwnedInv, Live
<1>5. CountInv
  <2>1. \A w \in Workers : Holders(w) = {}
    BY DEF Holders
  <2>2. \A w \in Workers : IsFiniteSet(Holders(w)) /\ Cardinality(Holders(w)) <= active[w]
    <3>1. \A w \in Workers : active[w] = 0
      OBVIOUS
    <3>2. IsFiniteSet({}) /\ Cardinality({}) = 0
      BY FS_EmptySet
    <3> HIDE DEF Init, Workers
    <3>q. QED
      BY <2>1, <3>1, <3>2
  <2>q. QED
    BY <2>2 DEF CountInv
<1>6. DrainInv
  BY DEF DrainInv
<1>7. LeaseInv
  BY DEF LeaseInv
<1>q. QED
  BY <1>1, <1>2, <1>3, <1>4, <1>5, <1>6, <1>7 DEF IInv

(* Every step of a client, the controller, the closer and a reactor keeps   *)
(* the invariant.                                                           *)
LEMMA Invariance == Spec => []IInv
<1>1. IInv /\ [Next]_vars => IInv'
  BY TypeStep, ThreadStep, FreshStep, OwnedStep, CountStep, DrainStep, LeaseStep
  DEF IInv
<1>q. QED
  BY <1>1, InitIInv, PTL DEF Spec

(* No reactor is lost but by an interrupted close: one that has not stopped *)
(* is in the registry, whichever client or controller was interrupted while *)
(* stopping it and whichever step of the close was, save that an exception  *)
(* in releaseAllAgents may cut off the stop of a reactor.  When closeAgent  *)
(* has its result only such reactors are left and none is started later,    *)
(* and never are more than mpMaxAgents workers selectable.                  *)
THEOREM PoolOwnership == Spec => []OwnedUntilStopped
<1>1. IInv => OwnedUntilStopped
  <2> SUFFICES ASSUME IInv PROVE OwnedUntilStopped
    OBVIOUS
  <2>1. TypeOK /\ OwnedInv
    BY DEF IInv
  <2>q. QED
    BY <2>1 DEF OwnedInv, OwnedUntilStopped
<1>q. QED
  BY <1>1, Invariance, PTL

(* Draining never interrupts a transfer: only a failed reactor or a closed  *)
(* pool leaves a client with a worker that is stopping.                     *)
THEOREM DrainingSafety == Spec => []NeverInterrupted
<1>1. IInv => NeverInterrupted
  BY DEF IInv, CountInv, LeaseInv, NeverInterrupted
<1>q. QED
  BY <1>1, Invariance, PTL
=============================================================================
