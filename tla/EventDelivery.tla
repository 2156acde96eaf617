----------------------------- MODULE EventDelivery -----------------------------
(* What the outbox, its workers and the consumer inbox promise together: an   *)
(* event that was produced has its transactional effect at most once, is      *)
(* finished only after it had it, and is finished or given up for good.      *)
CONSTANT Events

VARIABLES
  outcome,  \* of each event: "absent", "open", "done" or "dead"
  handled   \* the events that had their effect

vars == <<outcome, handled>>

EDInit ==
  /\ outcome = [e \in Events |-> "absent"]
  /\ handled = {}

Produced(e) ==
  /\ outcome[e] = "absent"
  /\ outcome' = [outcome EXCEPT ![e] = "open"]
  /\ UNCHANGED handled

(* The consumer's transaction. A worker whose lease ran out may still commit  *)
(* it after another one gave the event up, never after one finished it.      *)
Handle(e) ==
  /\ outcome[e] \in {"open", "dead"}
  /\ e \notin handled
  /\ handled' = handled \union {e}
  /\ UNCHANGED outcome

Finish(e) ==
  /\ outcome[e] = "open"
  /\ e \in handled
  /\ outcome' = [outcome EXCEPT ![e] = "done"]
  /\ UNCHANGED handled

GiveUp(e) ==
  /\ outcome[e] = "open"
  /\ outcome' = [outcome EXCEPT ![e] = "dead"]
  /\ UNCHANGED handled

EDNext == \E e \in Events : Produced(e) \/ Handle(e) \/ Finish(e) \/ GiveUp(e)

EDSpec == EDInit /\ [][EDNext]_vars
==============================================================================
