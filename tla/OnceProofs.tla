----------------------------- MODULE OnceProofs -----------------------------
(***************************************************************************)
(* Proofs about Once: runOnce runs its action once at a time and gives     *)
(* every caller the same result, for any set of callers.                   *)
(***************************************************************************)
EXTENDS Once, FiniteSetTheorems, TLAPS

(* The program counters of the process the run belongs to. *)
OwnerLabels == {"act", "acting", "fork", "finish", "store", "publish"}
Owns(p) == pc[p] \in OwnerLabels

(* The run has one owner: nobody before the claim, then the caller that     *)
(* claimed it, then the replacement, which exists only after a failure.     *)
OwnerInv ==
  /\ \A p, q \in Procs : Owns(p) /\ Owns(q) => p = q
  /\ state = "pending" => \A p \in Procs : ~Owns(p)
  /\ \A t \in Threads : Owns(t) => pc[Helper] = "unborn"
  /\ pc[Helper] \notin {"call", "claim", "wait", "fork"}
  /\ state = "pending" => pc[Helper] = "unborn"

(* The first run is the caller's, the second the replacement's. *)
RunsInv ==
  /\ state = "pending" => runs = 0
  /\ \A t \in Threads : pc[t] = "act" => runs = 0
  /\ pc[Helper] \in {"unborn", "act"} => runs <= 1
  /\ runs <= 2

(* The owner carries a result from the end of the action to both places     *)
(* where callers find it, OnceDone first.                                   *)
ResultInv ==
  /\ \A p \in Procs : pc[p] \in {"fork", "finish", "store", "publish"} =>
       outcome[p] \in Results
  /\ state = "done" => memo \in Results
                       /\ \A p \in Procs : Owns(p) => pc[p] = "publish"
  /\ \A p \in Procs : pc[p] = "publish" => state = "done" /\ memo = outcome[p]
  /\ cell # "empty" => state = "done" /\ cell = memo

IInv == TypeOK /\ OwnerInv /\ RunsInv /\ ResultInv

-----------------------------------------------------------------------------
(* Before the first call nothing has run and nobody holds the MVar. *)
LEMMA InitIInv == Init => IInv
<1> SUFFICES ASSUME Init PROVE IInv
  OBVIOUS
<1> USE OnceAssumption DEF Init, Procs, Results, Owns, OwnerLabels
<1>1. TypeOK
  BY DEF TypeOK
<1>2. OwnerInv
  BY DEF OwnerInv
<1>3. RunsInv
  BY DEF RunsInv
<1>4. ResultInv
  BY DEF ResultInv
<1>q. QED
  BY <1>1, <1>2, <1>3, <1>4 DEF IInv

(* Every step of a caller, of the replacement and of an exception keeps the *)
(* types: finishOnce stores a result, never the absence of one.             *)
LEMMA TypeStep == TypeOK /\ ResultInv /\ [Next]_vars => TypeOK'
<1> SUFFICES ASSUME TypeOK, ResultInv, [Next]_vars PROVE TypeOK'
  OBVIOUS
<1> USE OnceAssumption
    DEF vars, Procs, Goto, Back, Results, Owns, OwnerLabels, TypeOK,
        ResultInv
<1>1. ASSUME NEW p \in Procs, Start(p) PROVE TypeOK'
  BY <1>1 DEF Start
<1>2. ASSUME NEW p \in Procs, NEW r \in Results, End(p, r) PROVE TypeOK'
  BY <1>2 DEF End, AfterFailure
<1>3. ASSUME NEW p \in Procs, TakeFinish(p) PROVE TypeOK'
  BY <1>3 DEF TakeFinish
<1>4. ASSUME NEW p \in Procs, StoreResult(p) PROVE TypeOK'
  BY <1>4 DEF StoreResult, Memo
<1>5. ASSUME NEW p \in Procs, Publish(p) PROVE TypeOK'
  BY <1>5 DEF Publish, Published
<1>6. ASSUME NEW t \in Threads, Take(t) PROVE TypeOK'
  BY <1>6 DEF Take
<1>7. ASSUME NEW t \in Threads, Claim(t) PROVE TypeOK'
  BY <1>7 DEF Claim, OwnsRun
<1>8. ASSUME NEW t \in Threads, Read(t) PROVE TypeOK'
  BY <1>8 DEF Read
<1>9. ASSUME NEW t \in Threads, Fork(t) PROVE TypeOK'
  BY <1>9 DEF Fork
<1>10. ASSUME NEW t \in Threads, InterruptCaller(t) PROVE TypeOK'
  BY <1>10 DEF InterruptCaller
<1>11. ASSUME NEW t \in Threads, InterruptFinish(t) PROVE TypeOK'
  BY <1>11 DEF InterruptFinish
<1>u. CASE UNCHANGED vars
  BY <1>u
<1>q. QED
  BY <1>1, <1>2, <1>3, <1>4, <1>5, <1>6, <1>7, <1>8, <1>9, <1>10, <1>11,
     <1>u
  DEF Next, Step, CallerStep

(* The claim under modifyMVar makes one owner, and forkIO hands the run on. *)
LEMMA OwnerStep == TypeOK /\ OwnerInv /\ [Next]_vars => OwnerInv'
<1> SUFFICES ASSUME TypeOK, OwnerInv, [Next]_vars PROVE OwnerInv'
  OBVIOUS
<1> USE OnceAssumption
    DEF vars, Procs, Goto, Back, Results, Owns, OwnerLabels, TypeOK,
        OwnerInv
<1>1. ASSUME NEW p \in Procs, Start(p) PROVE OwnerInv'
  BY <1>1 DEF Start
<1>2. ASSUME NEW p \in Procs, NEW r \in Results, End(p, r) PROVE OwnerInv'
  BY <1>2 DEF End, AfterFailure
<1>3. ASSUME NEW p \in Procs, TakeFinish(p) PROVE OwnerInv'
  BY <1>3 DEF TakeFinish
<1>4. ASSUME NEW p \in Procs, StoreResult(p) PROVE OwnerInv'
  BY <1>4 DEF StoreResult, Memo
<1>5. ASSUME NEW p \in Procs, Publish(p) PROVE OwnerInv'
  BY <1>5 DEF Publish, Published
<1>6. ASSUME NEW t \in Threads, Take(t) PROVE OwnerInv'
  BY <1>6 DEF Take
<1>7. ASSUME NEW t \in Threads, Claim(t) PROVE OwnerInv'
  BY <1>7 DEF Claim, OwnsRun
<1>8. ASSUME NEW t \in Threads, Read(t) PROVE OwnerInv'
  BY <1>8 DEF Read
<1>9. ASSUME NEW t \in Threads, Fork(t) PROVE OwnerInv'
  BY <1>9 DEF Fork
<1>10. ASSUME NEW t \in Threads, InterruptCaller(t) PROVE OwnerInv'
  BY <1>10 DEF InterruptCaller
<1>11. ASSUME NEW t \in Threads, InterruptFinish(t) PROVE OwnerInv'
  BY <1>11 DEF InterruptFinish
<1>u. CASE UNCHANGED vars
  BY <1>u
<1>q. QED
  BY <1>1, <1>2, <1>3, <1>4, <1>5, <1>6, <1>7, <1>8, <1>9, <1>10, <1>11,
     <1>u
  DEF Next, Step, CallerStep

(* A run is started by the claimant and once more by the replacement. *)
LEMMA RunsStep == TypeOK /\ OwnerInv /\ RunsInv /\ [Next]_vars => RunsInv'
<1> SUFFICES ASSUME TypeOK, OwnerInv, RunsInv, [Next]_vars PROVE RunsInv'
  OBVIOUS
<1> USE OnceAssumption
    DEF vars, Procs, Goto, Back, Results, Owns, OwnerLabels, TypeOK,
        OwnerInv, RunsInv
<1>1. ASSUME NEW p \in Procs, Start(p) PROVE RunsInv'
  BY <1>1 DEF Start
<1>2. ASSUME NEW p \in Procs, NEW r \in Results, End(p, r) PROVE RunsInv'
  BY <1>2 DEF End, AfterFailure
<1>3. ASSUME NEW p \in Procs, TakeFinish(p) PROVE RunsInv'
  BY <1>3 DEF TakeFinish
<1>4. ASSUME NEW p \in Procs, StoreResult(p) PROVE RunsInv'
  BY <1>4 DEF StoreResult, Memo
<1>5. ASSUME NEW p \in Procs, Publish(p) PROVE RunsInv'
  BY <1>5 DEF Publish, Published
<1>6. ASSUME NEW t \in Threads, Take(t) PROVE RunsInv'
  BY <1>6 DEF Take
<1>7. ASSUME NEW t \in Threads, Claim(t) PROVE RunsInv'
  BY <1>7 DEF Claim, OwnsRun
<1>8. ASSUME NEW t \in Threads, Read(t) PROVE RunsInv'
  BY <1>8 DEF Read
<1>9. ASSUME NEW t \in Threads, Fork(t) PROVE RunsInv'
  BY <1>9 DEF Fork
<1>10. ASSUME NEW t \in Threads, InterruptCaller(t) PROVE RunsInv'
  BY <1>10 DEF InterruptCaller
<1>11. ASSUME NEW t \in Threads, InterruptFinish(t) PROVE RunsInv'
  BY <1>11 DEF InterruptFinish
<1>u. CASE UNCHANGED vars
  BY <1>u
<1>q. QED
  BY <1>1, <1>2, <1>3, <1>4, <1>5, <1>6, <1>7, <1>8, <1>9, <1>10, <1>11,
     <1>u
  DEF Next, Step, CallerStep

(* The result is the owner's until OnceDone and then the cell have it. *)
LEMMA ResultStep == TypeOK /\ OwnerInv /\ ResultInv /\ [Next]_vars => ResultInv'
<1> SUFFICES ASSUME TypeOK, OwnerInv, ResultInv, [Next]_vars PROVE ResultInv'
  OBVIOUS
<1> USE OnceAssumption
    DEF vars, Procs, Goto, Back, Results, Owns, OwnerLabels, TypeOK,
        OwnerInv, ResultInv
<1>1. ASSUME NEW p \in Procs, Start(p) PROVE ResultInv'
  BY <1>1 DEF Start
<1>2. ASSUME NEW p \in Procs, NEW r \in Results, End(p, r) PROVE ResultInv'
  BY <1>2 DEF End, AfterFailure
<1>3. ASSUME NEW p \in Procs, TakeFinish(p) PROVE ResultInv'
  BY <1>3 DEF TakeFinish
<1>4. ASSUME NEW p \in Procs, StoreResult(p) PROVE ResultInv'
  BY <1>4 DEF StoreResult, Memo
<1>5. ASSUME NEW p \in Procs, Publish(p) PROVE ResultInv'
  BY <1>5 DEF Publish, Published
<1>6. ASSUME NEW t \in Threads, Take(t) PROVE ResultInv'
  BY <1>6 DEF Take
<1>7. ASSUME NEW t \in Threads, Claim(t) PROVE ResultInv'
  BY <1>7 DEF Claim, OwnsRun
<1>8. ASSUME NEW t \in Threads, Read(t) PROVE ResultInv'
  BY <1>8 DEF Read
<1>9. ASSUME NEW t \in Threads, Fork(t) PROVE ResultInv'
  BY <1>9 DEF Fork
<1>10. ASSUME NEW t \in Threads, InterruptCaller(t) PROVE ResultInv'
  BY <1>10 DEF InterruptCaller
<1>11. ASSUME NEW t \in Threads, InterruptFinish(t) PROVE ResultInv'
  BY <1>11 DEF InterruptFinish
<1>u. CASE UNCHANGED vars
  BY <1>u
<1>q. QED
  BY <1>1, <1>2, <1>3, <1>4, <1>5, <1>6, <1>7, <1>8, <1>9, <1>10, <1>11,
     <1>u
  DEF Next, Step, CallerStep

-----------------------------------------------------------------------------
(* A set whose elements are all equal has at most one: one claimant. *)
LEMMA AtMostOne ==
  ASSUME NEW S, \A x, y \in S : x = y PROVE Cardinality(S) <= 1
<1>1. CASE S = {}
  BY <1>1, FS_EmptySet
<1>2. ASSUME NEW x \in S PROVE Cardinality(S) <= 1
  <2>1. S = {x}
    BY <1>2
  <2>q. QED
    BY <2>1, FS_Singleton
<1>q. QED
  BY <1>1, <1>2

(* runOnce is safe for any set of callers: the action never runs twice at a *)
(* time and is retried at most once, whoever is interrupted, and the cell   *)
(* never tells a waiting caller anything but what OnceDone tells late ones. *)
THEOREM OnceSafety == Spec => []OneRunOneResult
<1>1. Init => IInv
  BY InitIInv
<1>2. IInv /\ [Next]_vars => IInv'
  BY TypeStep, OwnerStep, RunsStep, ResultStep DEF IInv
<1>3. IInv => OneRunOneResult
  <2> SUFFICES ASSUME IInv PROVE OneRunOneResult
    OBVIOUS
  <2> DEFINE S == {p \in Procs : pc[p] \in {"act", "acting"}}
  <2>1. \A p, q \in S : p = q
    BY DEF IInv, OwnerInv, Owns, OwnerLabels
  <2>2. Cardinality(S) <= 1
    BY <2>1, AtMostOne
  <2>q. QED
    BY <2>2 DEF IInv, RunsInv, ResultInv, OneRunOneResult
<1>q. QED
  BY <1>1, <1>2, <1>3, PTL DEF Spec
=============================================================================
