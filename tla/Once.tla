-------------------------------- MODULE Once --------------------------------
(***************************************************************************)
(* runOnce of src/HCurl/Internal/Once.hs: one idempotent cleanup action,   *)
(* its result memoized, shared by concurrent callers.  closeAgent,         *)
(* stopAgent, closeBody, closeTransfer and finishTransfer all run through  *)
(* it.  Callers run masked; an asynchronous exception reaches them inside  *)
(* restore, or while they are blocked on an MVar.                          *)
(***************************************************************************)
EXTENDS Naturals, FiniteSets

CONSTANTS
  Threads,       \* the callers of runOnce
  Helper,        \* the replacement thread forkIO starts
  Nobody         \* the MVar state is full

ASSUME OnceAssumption ==
  Helper \notin Threads /\ Nobody \notin Threads \cup {Helper}

Procs == Threads \cup {Helper}

VARIABLES
  state,    \* "pending" | "running" | "done", the constructor of Once
  memo,     \* the result in OnceDone
  cell,     \* the MVar in OnceRunning, "empty" until it is put
  holder,   \* who has taken the MVar state
  pc,
  outcome,  \* what a thread's run of the action gave, or what it returns
  runs,     \* how many times the action was started
  cutOff    \* has an exception hit a blocked finishOnce?

vars == <<state, memo, cell, holder, pc, outcome, runs, cutOff>>

Results == {"ok", "failed"}

Init ==
  /\ state = "pending" /\ memo = "none" /\ cell = "empty"
  /\ holder = Nobody
  /\ pc = [p \in Procs |-> IF p = Helper THEN "unborn" ELSE "call"]
  /\ outcome = [p \in Procs |-> "none"]
  /\ runs = 0 /\ cutOff = FALSE

Goto(p, l) == pc' = [pc EXCEPT ![p] = l]

(* The call comes back with r: a result, or an exception of its own. *)
Back(p, r) ==
  /\ pc' = [pc EXCEPT ![p] = "returned"]
  /\ outcome' = [outcome EXCEPT ![p] = r]

-----------------------------------------------------------------------------
(* modifyMVar state: take it, look, put it back *)

Take(t) ==
  /\ pc[t] = "call" /\ holder = Nobody
  /\ holder' = t
  /\ Goto(t, "claim")
  /\ UNCHANGED <<state, memo, cell, outcome, runs, cutOff>>

(* May this caller own the run?  The mutant lets a waiter run it as well. *)
OwnsUnlessDone == state # "done"
OwnsRun == state = "pending"

Claim(t) ==
  /\ pc[t] = "claim"
  /\ holder' = Nobody
  /\ IF OwnsRun
     THEN state' = "running" /\ Goto(t, "act") /\ UNCHANGED outcome
     ELSE /\ UNCHANGED state
          /\ IF state = "done" THEN Back(t, memo)
             ELSE Goto(t, "wait") /\ UNCHANGED outcome
  /\ UNCHANGED <<memo, cell, runs, cutOff>>

(* readMVar resultCell *)
Read(t) ==
  /\ pc[t] = "wait" /\ cell # "empty"
  /\ Back(t, cell)
  /\ UNCHANGED <<state, memo, cell, holder, runs, cutOff>>

-----------------------------------------------------------------------------
(* The action, and its retry *)

Start(p) ==
  /\ pc[p] = "act"
  /\ runs' = runs + 1
  /\ Goto(p, "acting")
  /\ UNCHANGED <<state, memo, cell, holder, outcome, cutOff>>

(* A failed owner hands over to a replacement; a failed retry is final.     *)
(* The mutant gives up.                                                     *)
GivesUp(p) == "returned"
AfterFailure(p) == IF p = Helper THEN "finish" ELSE "fork"

End(p, r) ==
  /\ pc[p] = "acting"
  /\ outcome' = [outcome EXCEPT ![p] = r]
  /\ Goto(p, IF r = "ok" THEN "finish" ELSE AfterFailure(p))
  /\ UNCHANGED <<state, memo, cell, holder, runs, cutOff>>

(* The owner rethrows; the replacement starts, or cannot be started. *)
Fork(t) ==
  /\ pc[t] = "fork"
  /\ \/ pc' = [pc EXCEPT ![t] = "returned", ![Helper] = "act"]
     \/ Goto(t, "finish")
  /\ UNCHANGED <<state, memo, cell, holder, outcome, runs, cutOff>>

-----------------------------------------------------------------------------
(* finishOnce *)

TakeFinish(p) ==
  /\ pc[p] = "finish" /\ holder = Nobody
  /\ holder' = p
  /\ Goto(p, "store")
  /\ UNCHANGED <<state, memo, cell, outcome, runs, cutOff>>

(* The result OnceDone keeps; the mutant keeps what the cell holds so far. *)
MemoFromCell(p) == cell
Memo(p) == outcome[p]

StoreResult(p) ==
  /\ pc[p] = "store"
  /\ state' = "done"
  /\ memo' = Memo(p)
  /\ holder' = Nobody
  /\ Goto(p, "publish")
  /\ UNCHANGED <<cell, outcome, runs, cutOff>>

(* What the waiting callers are given; the mutant gives them the good news. *)
PublishedOk(p) == "ok"
Published(p) == outcome[p]

(* tryPutMVar *)
Publish(p) ==
  /\ pc[p] = "publish"
  /\ cell' = IF cell = "empty" THEN Published(p) ELSE cell
  /\ Goto(p, "returned")
  /\ UNCHANGED <<state, memo, holder, outcome, runs, cutOff>>

-----------------------------------------------------------------------------
(* Asynchronous exceptions *)

(* Blocked on the MVar state before the claim, or waiting for the result. *)
InterruptCaller(t) ==
  /\ pc[t] = "wait" \/ (pc[t] = "call" /\ holder # Nobody)
  /\ Back(t, "interrupted")
  /\ UNCHANGED <<state, memo, cell, holder, runs, cutOff>>

(* mask_ does not keep an exception out of a takeMVar that blocks. *)
InterruptFinish(t) ==
  /\ pc[t] = "finish" /\ holder # Nobody
  /\ Back(t, "interrupted")
  /\ cutOff' = TRUE
  /\ UNCHANGED <<state, memo, cell, holder, runs>>

Step(p) ==
  \/ Start(p) \/ (\E r \in Results : End(p, r)) \/ TakeFinish(p)
  \/ StoreResult(p) \/ Publish(p)

CallerStep(t) == Take(t) \/ Claim(t) \/ Read(t) \/ Fork(t)

Next ==
  \/ \E p \in Procs : Step(p)
  \/ \E t \in Threads : CallerStep(t) \/ InterruptCaller(t) \/ InterruptFinish(t)

(* Threads that can go on do, and the MVar is handed out in order.  The     *)
(* action ends; a call may be made at any time or never.                    *)
Spec ==
  /\ Init /\ [][Next]_vars
  /\ \A p \in Procs : WF_vars(Step(p)) /\ SF_vars(TakeFinish(p))
  /\ \A t \in Threads : WF_vars(Claim(t) \/ Read(t) \/ Fork(t))

-----------------------------------------------------------------------------
(* Properties *)

(* Every variable has its type. *)
TypeOK ==
  /\ state \in {"pending", "running", "done"}
  /\ memo \in Results \cup {"none"} /\ cell \in Results \cup {"empty"}
  /\ holder \in Procs \cup {Nobody}
  /\ pc \in [Procs -> {"unborn", "call", "claim", "wait", "act", "acting",
                       "fork", "finish", "store", "publish", "returned"}]
  /\ outcome \in [Procs -> Results \cup {"none", "interrupted"}]
  /\ runs \in Nat /\ cutOff \in BOOLEAN

(* The action never runs twice at a time, and at most once again after a    *)
(* failure, also when the owner is interrupted halfway.  Late callers, who  *)
(* read OnceDone, and waiting ones, who read the cell, are told the same.   *)
OneRunOneResult ==
  /\ TypeOK
  /\ Cardinality({p \in Procs : pc[p] \in {"act", "acting"}}) <= 1
  /\ runs <= 2
  /\ cell # "empty" => state = "done" /\ cell = memo

(* A caller that waits for another one's run comes back, also when the      *)
(* owner failed or was interrupted in the action.                           *)
WaitersReturn ==
  \A t \in Threads : pc[t] = "wait" ~> pc[t] = "returned" \/ cutOff
=============================================================================
