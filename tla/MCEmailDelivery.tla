---------------------------- MODULE MCEmailDelivery ----------------------------
(* Two mails and two processes that deliver them.                            *)
EXTENDS EmailDelivery

CONSTANTS reminder, receipt, w1, w2

MCDeliveries == {reminder, receipt}
MCWorkers == {w1, w2}
==============================================================================
