------------------------------- MODULE MCAutoDial -------------------------------
(* Two scheduler instances for the model checker. *)
EXTENDS AutoDial, TLC

CONSTANTS s1, s2

MCSchedulers == {s1, s2}
MCOneScheduler == {s1}

==============================================================================
