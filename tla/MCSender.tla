------------------------------ MODULE MCSender ------------------------------
(* Model values for MessageSender. *)
EXTENDS MessageSender
=============================================================================
