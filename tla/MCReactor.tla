----------------------------- MODULE MCReactor ------------------------------
(* Two IDs that share a bucket in a table of one, and a transfer that       *)
(* repeats an ID.                                                           *)
EXTENDS Reactor

CONSTANTS t1, t2, t3

MCTransfers == {t1, t2, t3}
MCId == [t \in MCTransfers |-> IF t = t2 THEN 2 ELSE 1]
MCHash == [i \in 1..2 |-> i]
=============================================================================
