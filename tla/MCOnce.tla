------------------------------- MODULE MCOnce -------------------------------
(* Model values for Once. *)
EXTENDS Once
=============================================================================
