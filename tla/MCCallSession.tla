----------------------------- MODULE MCCallSession -----------------------------
(* Values of CallSession's constants for the model checker. *)
EXTENDS CallSession
==============================================================================
