----------------------------- MODULE MCResponse -----------------------------
(* Small instances of Response for TLC. *)
EXTENDS Response
=============================================================================
