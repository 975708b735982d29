--------------------------- MODULE ControlChannel ---------------------------
(***************************************************************************)
(* What the control channel of an agent promises to its users: a FIFO that *)
(* many threads append to and one reactor empties.  A message is accepted  *)
(* at most once, nothing accepted is lost or handed over twice, nothing is *)
(* accepted once the channel is sealed, and it is destroyed only when      *)
(* empty.  stream.c and Agent.hs rely on this; MessageSender is how        *)
(* message_chan.c and mpsc.c provide it.                                   *)
(***************************************************************************)
EXTENDS Naturals, Sequences

CONSTANT Messages

VARIABLES
  queue,   \* accepted and not yet handed to the reactor, oldest first
  taken,   \* handed to the reactor, in that order
  phase    \* "open" | "closing" | "sealed" | "destroyed"

chanVars == <<queue, taken, phase>>

In(m, s) == \E i \in 1..Len(s) : s[i] = m

Init == queue = <<>> /\ taken = <<>> /\ phase = "open"

Accept(m) ==
  /\ phase \in {"open", "closing"}
  /\ ~In(m, queue) /\ ~In(m, taken)
  /\ queue' = Append(queue, m)
  /\ UNCHANGED <<taken, phase>>

(* The reactor dispatches the message, or fails it while it drains. *)
Take ==
  /\ queue # <<>> /\ phase # "destroyed"
  /\ taken' = Append(taken, Head(queue))
  /\ queue' = Tail(queue)
  /\ UNCHANGED phase

(* From here on a sender may be told CLOSED; one already inside finishes. *)
Close ==
  /\ phase = "open"
  /\ phase' = "closing"
  /\ UNCHANGED <<queue, taken>>

(* No sender is inside any more. *)
Seal ==
  /\ phase = "closing"
  /\ phase' = "sealed"
  /\ UNCHANGED <<queue, taken>>

Destroy ==
  /\ phase = "sealed" /\ queue = <<>>
  /\ phase' = "destroyed"
  /\ UNCHANGED <<queue, taken>>

Next == (\E m \in Messages : Accept(m)) \/ Take \/ Close \/ Seal \/ Destroy

Spec == Init /\ [][Next]_chanVars
=============================================================================
