--------------------------- MODULE MCOutboxDelivery ---------------------------
(* OutboxDelivery with two workers, an event with a handler and one without.  *)
EXTENDS OutboxDelivery

CONSTANTS paid, other, w1, w2

MCEvents == {paid, other}
MCRegistered == {paid}
MCWorkers == {w1, w2}
==============================================================================
