---------------------------- MODULE MCSubscription ----------------------------
(* One organization over a few weeks for the model checker. *)
EXTENDS Subscription, TLC

==============================================================================
