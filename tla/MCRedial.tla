-------------------------------- MODULE MCRedial --------------------------------
(* Two scheduler instances for the model checker. *)
EXTENDS Redial, TLC

CONSTANTS s1, s2

MCSchedulers == {s1, s2}

==============================================================================
