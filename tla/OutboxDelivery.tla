---------------------------- MODULE OutboxDelivery ----------------------------
(***************************************************************************)
(* Delivery of billing events: the outbox table                            *)
(* (adapters/mysql/outboxStore.js), the workers that drain it              *)
(* (adapters/jobs/worker.js), the transactions they run                    *)
(* (adapters/mysql/consumerRunner.js) and the inbox that makes a redelivery *)
(* harmless (adapters/mysql/inboxConsumer.js).                             *)
(*                                                                         *)
(* A worker's tick leases a batch of events, one claim at a time, and then  *)
(* works through it in order: run the handler and the inbox marker in one   *)
(* transaction, then acknowledge, or record the failure and a time to try   *)
(* again. A lease ends by itself, so another worker takes over from one     *)
(* that died, and may do so from one that is merely slow.                  *)
(*                                                                         *)
(* Times are compared by what they decide: a waiting row is ready when its  *)
(* available_at has passed, a leased one has lapsed when its                *)
(* lease_expires_at has. A claim is identified by the fencing token it was   *)
(* given; owner and lease token are as unique as that.                     *)
(***************************************************************************)
EXTENDS Naturals, Sequences

CONSTANTS
  Events,
  Registered,          \* the events whose type has a handler
  Workers,
  BatchSize,           \* batchSize: claims of one tick
  MaxAttempts,         \* maxAttempts of worker.js
  MaxDeadlockRetries,  \* MAX_DEADLOCK_RETRIES of consumerRunner.js
  MaxFaults,           \* bound: crashes, lost statements and leases outlived
  NoOne

ASSUME OutboxAssumption ==
  /\ Registered \subseteq Events
  /\ BatchSize \in Nat \ {0}
  /\ MaxAttempts \in Nat \ {0}
  /\ MaxDeadlockRetries \in Nat
  /\ MaxFaults \in Nat
  /\ NoOne \notin Workers

VARIABLES
  outbox,   \* the rows of billing_outbox
  inbox,    \* events with a committed 'processed' inbox row
  effects,  \* history: committed executions of each event's handler
  rowLock,  \* the worker whose transaction has the event's inbox row
  stage,    \* where each worker's tick is
  claims,   \* the claims of the tick that are not worked off, in order
  retries,  \* deadlock retries of the current delivery
  faults    \* faults so far (bound)

vars == <<outbox, inbox, effects, rowLock, stage, claims, retries, faults>>

Row == [status: {"absent", "pending", "leased", "completed", "dead_letter"},
        attempts: Nat, fence: Nat, ready: BOOLEAN, lapsed: BOOLEAN]

Claim == [event: Events, fence: Nat]

Stages == {"idle", "claim", "deliver", "handle", "ack", "fail", "reject"}

OutboxInit ==
  /\ outbox = [e \in Events |-> [status |-> "absent", attempts |-> 0, fence |-> 0,
                                 ready |-> FALSE, lapsed |-> FALSE]]
  /\ inbox = {}
  /\ effects = [e \in Events |-> 0]
  /\ rowLock = [e \in Events |-> NoOne]
  /\ stage = [w \in Workers |-> "idle"]
  /\ claims = [w \in Workers |-> <<>>]
  /\ retries = [w \in Workers |-> 0]
  /\ faults = 0

tables == <<outbox, inbox, effects>>

Fault == faults < MaxFaults /\ faults' = faults + 1

------------------------------------------------------------------------------
(* The outbox *)

(* enqueue, in the transaction of the command that the event is about. The   *)
(* same event again is answered as 'existing'.                              *)
Enqueue(e) ==
  /\ outbox[e].status = "absent"
  /\ outbox' = [outbox EXCEPT ![e] = [@ EXCEPT !.status = "pending", !.ready = TRUE]]
  /\ UNCHANGED <<inbox, effects, rowLock, stage, claims, retries, faults>>

(* available_at passes. *)
BackoffEnds(e) ==
  /\ outbox[e].status = "pending" /\ ~outbox[e].ready
  /\ outbox' = [outbox EXCEPT ![e] = [@ EXCEPT !.ready = TRUE]]
  /\ UNCHANGED <<inbox, effects, rowLock, stage, claims, retries, faults>>

(* Worker w still means to settle the lease that the row is under. *)
Owns(w, e) == \E i \in DOMAIN claims[w] : claims[w][i] = [event |-> e, fence |-> outbox[e].fence]

(* lease_expires_at passes: of a lease nobody settles any more, or while its  *)
(* worker is still busy with it or with the claims before it.               *)
LeaseEnds(e) ==
  /\ outbox[e].status = "leased" /\ ~outbox[e].lapsed
  /\ IF \E w \in Workers : Owns(w, e) THEN Fault ELSE UNCHANGED faults
  /\ outbox' = [outbox EXCEPT ![e] = [@ EXCEPT !.lapsed = TRUE]]
  /\ UNCHANGED <<inbox, effects, rowLock, stage, claims, retries>>

------------------------------------------------------------------------------
(* A tick: claimFairBatch *)

StartTick(w) ==
  /\ stage[w] = "idle"
  /\ stage' = [stage EXCEPT ![w] = "claim"]
  /\ UNCHANGED <<tables, rowLock, claims, retries, faults>>

Claimable(e) ==
  \/ outbox[e].status = "pending" /\ outbox[e].ready
  \/ outbox[e].status = "leased" /\ outbox[e].lapsed

Leased(e, fence) ==
  [status |-> "leased", attempts |-> outbox[e].attempts + 1, fence |-> fence,
   ready |-> FALSE, lapsed |-> FALSE]

(* claimBatch of one event. Which one is the business of the organizations'  *)
(* turns (FairClaims.tla) and of available_at, which a random back-off sets: *)
(* any, here.                                                              *)
ClaimEvent(w, e) ==
  /\ stage[w] = "claim" /\ Len(claims[w]) < BatchSize
  /\ Claimable(e)
  /\ outbox' = [outbox EXCEPT ![e] = Leased(e, outbox[e].fence + 1)]
  /\ claims' = [claims EXCEPT ![w] = Append(@, [event |-> e, fence |-> outbox[e].fence + 1])]
  /\ UNCHANGED <<inbox, effects, rowLock, stage, retries, faults>>

(* The batch is full, or no organization had anything left. *)
EndClaims(w) ==
  /\ stage[w] = "claim"
  /\ claims[w] # <<>> \/ \A e \in Events : ~Claimable(e)
  /\ stage' = [stage EXCEPT ![w] = IF claims[w] = <<>> THEN "idle" ELSE "deliver"]
  /\ UNCHANGED <<tables, rowLock, claims, retries, faults>>

------------------------------------------------------------------------------
(* processClaim: the consumer's transaction *)

Current(w) == Head(claims[w])

(* The open transaction of w, if any, ends. *)
Unlock(w) ==
  rowLock' = [e \in Events |-> IF rowLock[e] = w THEN NoOne ELSE rowLock[e]]

(* No handler is registered for the event's type. *)
Unsupported(w) ==
  /\ stage[w] = "deliver"
  /\ Current(w).event \notin Registered
  /\ stage' = [stage EXCEPT ![w] = "reject"]
  /\ UNCHANGED <<tables, rowLock, claims, retries, faults>>

(* The inbox row says 'processed': a duplicate, and nothing is left to do    *)
(* but to commit and acknowledge.                                          *)
Duplicate(w) ==
  LET e == Current(w).event IN
  /\ stage[w] = "deliver"
  /\ e \in Registered
  /\ rowLock[e] = NoOne
  /\ e \in inbox
  /\ stage' = [stage EXCEPT ![w] = "ack"]
  /\ UNCHANGED <<tables, rowLock, claims, retries, faults>>

(* No processed inbox row: the transaction inserts or updates it, which      *)
(* keeps other deliveries of the event waiting, and calls the handler.      *)
StartHandler(w) ==
  LET e == Current(w).event IN
  /\ stage[w] = "deliver"
  /\ e \in Registered
  /\ rowLock[e] = NoOne
  /\ e \notin inbox
  /\ rowLock' = [rowLock EXCEPT ![e] = w]
  /\ stage' = [stage EXCEPT ![w] = "handle"]
  /\ UNCHANGED <<tables, claims, retries, faults>>

(* The handler's writes and the inbox row become durable together. *)
Publish(w) ==
  LET e == Current(w).event IN
  /\ inbox' = inbox \union {e}
  /\ effects' = [effects EXCEPT ![e] = @ + 1]
  /\ Unlock(w)

HandlerCommits(w) ==
  /\ stage[w] = "handle"
  /\ Publish(w)
  /\ stage' = [stage EXCEPT ![w] = "ack"]
  /\ UNCHANGED <<outbox, claims, retries, faults>>

(* The COMMIT took effect and its acknowledgement is lost: for the worker     *)
(* the delivery failed.                                                     *)
CommitAckLost(w) ==
  /\ stage[w] = "handle"
  /\ Publish(w)
  /\ stage' = [stage EXCEPT ![w] = "fail"]
  /\ UNCHANGED <<outbox, claims, retries, faults>>

(* Mutant: a failed handler is acknowledged like any other. *)
DeliveryFails_Acked(w) ==
  /\ stage[w] \in {"deliver", "handle"}
  /\ Current(w).event \in Registered
  /\ Unlock(w)
  /\ stage' = [stage EXCEPT ![w] = "ack"]
  /\ UNCHANGED <<tables, claims, retries, faults>>

(* The handler throws, the connection breaks or the deadlock retries are     *)
(* used up: ROLLBACK, of the inbox row too.                                 *)
DeliveryFails(w) ==
  /\ stage[w] \in {"deliver", "handle"}
  /\ Current(w).event \in Registered
  /\ Unlock(w)
  /\ stage' = [stage EXCEPT ![w] = "fail"]
  /\ UNCHANGED <<tables, claims, retries, faults>>

(* Two deliveries of an event whose inbox row does not exist yet deadlock on  *)
(* its gap, or the handler runs into one: rolled back and tried again.       *)
Deadlock(w) ==
  /\ stage[w] \in {"deliver", "handle"}
  /\ Current(w).event \in Registered
  /\ retries[w] < MaxDeadlockRetries
  /\ retries' = [retries EXCEPT ![w] = @ + 1]
  /\ Unlock(w)
  /\ stage' = [stage EXCEPT ![w] = "deliver"]
  /\ UNCHANGED <<tables, claims, faults>>

------------------------------------------------------------------------------
(* processClaim: settling the lease *)

(* The claim is done with, one way or another: on to the next one. *)
NextClaim(w) ==
  /\ claims' = [claims EXCEPT ![w] = Tail(@)]
  /\ retries' = [retries EXCEPT ![w] = 0]
  /\ stage' = [stage EXCEPT ![w] = IF Len(claims[w]) = 1 THEN "idle" ELSE "deliver"]

(* Mutant: any worker the event was leased to may settle it. *)
Holds_AnyLease(w) == outbox[Current(w).event].status = "leased"

(* The row is still leased under the worker's claim, and the lease runs. *)
Holds(w) ==
  LET row == outbox[Current(w).event] IN
  row.status = "leased" /\ row.fence = Current(w).fence /\ ~row.lapsed

Settle(w, status) ==
  /\ outbox' = [outbox EXCEPT ![Current(w).event] = [@ EXCEPT !.status = status]]
  /\ NextClaim(w)
  /\ UNCHANGED <<inbox, effects, rowLock, faults>>

Ack(w) ==
  /\ stage[w] = "ack"
  /\ Holds(w)
  /\ Settle(w, "completed")

(* fail(): back to pending with a back-off, until the attempts are used up. *)
Fail(w) ==
  /\ stage[w] = "fail"
  /\ Holds(w)
  /\ Settle(w, IF outbox[Current(w).event].attempts >= MaxAttempts
                 THEN "dead_letter" ELSE "pending")

(* fail() with maxAttempts 1. *)
Reject(w) ==
  /\ stage[w] = "reject"
  /\ Holds(w)
  /\ Settle(w, "dead_letter")

(* Mutant: a refused acknowledgement stops the tick. *)
SettleRefused_Stuck(w) ==
  /\ stage[w] \in {"ack", "fail", "reject"}
  /\ ~Holds(w)
  /\ UNCHANGED vars

(* The lease is not the worker's any more: logged, and left to its holder. *)
SettleRefused(w) ==
  /\ stage[w] \in {"ack", "fail", "reject"}
  /\ ~Holds(w)
  /\ NextClaim(w)
  /\ UNCHANGED <<tables, rowLock, faults>>

(* The settling statement does not get through: the lease runs out. *)
SettleLost(w) ==
  /\ stage[w] \in {"ack", "fail", "reject"}
  /\ Fault
  /\ NextClaim(w)
  /\ UNCHANGED <<tables, rowLock>>

(* The process dies and is started again, or a statement of claimFairBatch    *)
(* fails: what was claimed so far stays leased.                             *)
Crash(w) ==
  /\ stage[w] # "idle"
  /\ Fault
  /\ Unlock(w)
  /\ stage' = [stage EXCEPT ![w] = "idle"]
  /\ claims' = [claims EXCEPT ![w] = <<>>]
  /\ retries' = [retries EXCEPT ![w] = 0]
  /\ UNCHANGED tables

------------------------------------------------------------------------------
WorkerStep(w) ==
  \/ StartTick(w)
  \/ \E e \in Events : ClaimEvent(w, e)
  \/ EndClaims(w)
  \/ Unsupported(w)
  \/ Duplicate(w)
  \/ StartHandler(w)
  \/ HandlerCommits(w)
  \/ CommitAckLost(w)
  \/ DeliveryFails(w)
  \/ Deadlock(w)
  \/ Ack(w)
  \/ Fail(w)
  \/ Reject(w)
  \/ SettleRefused(w)
  \/ SettleLost(w)

Elapse(e) == BackoffEnds(e) \/ LeaseEnds(e)

OutboxNext ==
  \/ \E e \in Events : Enqueue(e)
  \/ \E e \in Events : Elapse(e)
  \/ \E w \in Workers : WorkerStep(w)
  \/ \E w \in Workers : Crash(w)

(* The schedule starts a tick every minute, a tick goes on by itself (a lock  *)
(* that is not granted ends in a lock wait timeout), and time passes.        *)
OutboxSpec ==
  /\ OutboxInit /\ [][OutboxNext]_vars
  /\ \A w \in Workers : WF_vars(WorkerStep(w))
  /\ \A e \in Events : WF_vars(Elapse(e))

------------------------------------------------------------------------------
(* Properties *)

(* Every variable has its type, and a worker past its claims has one to work on. *)
TypeOK ==
  /\ outbox \in [Events -> Row]
  /\ inbox \in SUBSET Events
  /\ effects \in [Events -> Nat]
  /\ rowLock \in [Events -> Workers \union {NoOne}]
  /\ stage \in [Workers -> Stages]
  /\ claims \in [Workers -> Seq(Claim)]
  /\ \A w \in Workers : stage[w] \notin {"idle", "claim"} => claims[w] # <<>>
  /\ retries \in [Workers -> 0..MaxDeadlockRetries]
  /\ faults \in 0..MaxFaults

(* A handler's transactional effects happen once however often the event is  *)
(* delivered, by however many workers at once.                             *)
OncePerEvent ==
  \A e \in Events : effects[e] = IF e \in inbox THEN 1 ELSE 0

(* A stale worker cannot acknowledge or overwrite a newer claim: no two      *)
(* claims of an event carry the same fencing token, and none a token the     *)
(* row has not given out.                                                   *)
ClaimsAreFenced ==
  \A w, x \in Workers : \A i \in DOMAIN claims[w], j \in DOMAIN claims[x] :
    /\ claims[w][i].fence <= outbox[claims[w][i].event].fence
    /\ claims[w][i] = claims[x][j] => w = x /\ i = j

(* Only the holder of the running lease takes an event out of it, other than *)
(* by a new claim.                                                         *)
StaleNeverSettles ==
  [][\A e \in Events :
       outbox[e].status = "leased" /\ outbox'[e].status # "leased" =>
         /\ ~outbox[e].lapsed
         /\ \E w \in Workers :
              /\ stage[w] \in {"ack", "fail", "reject"}
              /\ Current(w) = [event |-> e, fence |-> outbox[e].fence]]_vars

(* Every produced event ends up completed or, after its attempts, in the     *)
(* dead letters: no crash, lost answer, slow worker or deadlock loses it.    *)
EventSettles ==
  \A e \in Events :
    outbox[e].status # "absent" ~> outbox[e].status \in {"completed", "dead_letter"}

------------------------------------------------------------------------------
(* The outbox delivers events as EventDelivery promises. *)

Outcome(e) ==
  CASE outbox[e].status = "absent" -> "absent"
    [] outbox[e].status \in {"pending", "leased"} -> "open"
    [] outbox[e].status = "completed" -> "done"
    [] outbox[e].status = "dead_letter" -> "dead"

Delivery == INSTANCE EventDelivery
              WITH outcome <- [e \in Events |-> Outcome(e)], handled <- inbox

(* Every behaviour of the workers is one of the abstract specification: at    *)
(* most one effect, and none of an acknowledged event missing.              *)
ImplementsDelivery == Delivery!EDSpec

==============================================================================
