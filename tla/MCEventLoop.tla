---------------------------- MODULE MCEventLoop -----------------------------
(* Model values for EventLoop. *)
EXTENDS EventLoop
=============================================================================
