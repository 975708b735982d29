------------------------------- MODULE MCPool -------------------------------
(* Model values for ManagedPool. *)
EXTENDS ManagedPool
=============================================================================
