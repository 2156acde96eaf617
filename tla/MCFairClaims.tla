------------------------------ MODULE MCFairClaims ------------------------------
(* FairClaims with more organizations than a batch serves. *)
EXTENDS FairClaims

CONSTANTS w1, w2

MCOneWorker == {w1}
MCWorkers == {w1, w2}
==============================================================================
