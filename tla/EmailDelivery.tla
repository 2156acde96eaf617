----------------------------- MODULE EmailDelivery -----------------------------
(***************************************************************************)
(* Billing mail (billing/adapters/delivery/): the rows of                   *)
(* billing_notification_deliveries that the handlers of billing events       *)
(* insert, and the runs of runBillingEmailDeliveryOnce that lease a row,     *)
(* send the mail outside any transaction, and settle the row.               *)
(*                                                                         *)
(* Between sending and settling the process may die, the lease may run out   *)
(* and the mail server's answer may be lost, so a mail may go out twice. The  *)
(* model says when, and what the row may say about it.                      *)
(*                                                                         *)
(* A claim raises attempts and fencing_token together and nothing else       *)
(* writes them, so one number stands for both; with it goes a lease token as *)
(* unique as that number. A run claims one row after the other, and the next *)
(* run goes on in the same way: the runs of a worker are one loop here.       *)
(***************************************************************************)
EXTENDS Naturals, FiniteSets

CONSTANTS
  Deliveries,   \* delivery keys
  Workers,      \* processes that may run the delivery at a time
  MaxAttempts,  \* maxAttempts of mysqlEmailDeliveryRepository.js
  MaxFaults     \* bound: crashes, lost answers, leases outlived

ASSUME EmailAssumption == MaxAttempts \in Nat \ {0} /\ MaxFaults \in Nat

VARIABLES
  row,       \* billing_notification_deliveries
  worker,    \* where each worker is, with which claim
  accepted,  \* history: the claims whose mail the mail server took
  unheard,   \* history: those of them the worker was told had failed
  faults     \* faults so far (bound)

mailVars == <<row, worker, accepted, unheard, faults>>

Final == {"submitted", "dead_letter"}

Row == [status: {"absent", "pending", "leased"} \union Final,
        attempts: Nat, ready: BOOLEAN, lapsed: BOOLEAN]

Claims == [delivery: Deliveries, attempt: Nat]

Worker == [at: {"idle"}] \union [at: {"sending"}, claim: Claims]
            \union [at: {"settling"}, claim: Claims, result: {"submitted", "retryable", "failed"}]

Idle == [at |-> "idle"]

EmailInit ==
  /\ row = [d \in Deliveries |-> [status |-> "absent", attempts |-> 0,
                                  ready |-> FALSE, lapsed |-> FALSE]]
  /\ worker = [w \in Workers |-> Idle]
  /\ accepted = {} /\ unheard = {}
  /\ faults = 0

Fault == faults < MaxFaults /\ faults' = faults + 1

history == <<accepted, unheard>>

------------------------------------------------------------------------------
(* The table *)

(* Mutant: a key that is there already is made pending again. *)
Enqueue_Resets(d) ==
  /\ row' = [row EXCEPT ![d] = [@ EXCEPT !.status = "pending", !.ready = TRUE]]
  /\ UNCHANGED <<worker, history, faults>>

(* A handler asks for the mail in its transaction. For the same key, from    *)
(* another event or another delivery of the same, the row stays as it is.    *)
Enqueue(d) ==
  /\ row[d].status = "absent"
  /\ row' = [row EXCEPT ![d] = [@ EXCEPT !.status = "pending", !.ready = TRUE]]
  /\ UNCHANGED <<worker, history, faults>>

(* available_at passes. *)
BackoffEnds(d) ==
  /\ row[d].status = "pending" /\ ~row[d].ready
  /\ row' = [row EXCEPT ![d].ready = TRUE]
  /\ UNCHANGED <<worker, history, faults>>

(* Worker w is busy with the claim the row is leased under. *)
Holds(w, d) ==
  /\ row[d].status = "leased"
  /\ worker[w].at # "idle"
  /\ worker[w].claim = [delivery |-> d, attempt |-> row[d].attempts]

(* lease_expires_at passes; under a worker that is still busy it is a fault:  *)
(* sending takes longer than leaseSeconds.                                 *)
LeaseEnds(d) ==
  /\ row[d].status = "leased" /\ ~row[d].lapsed
  /\ IF \E w \in Workers : Holds(w, d) THEN Fault ELSE UNCHANGED faults
  /\ row' = [row EXCEPT ![d].lapsed = TRUE]
  /\ UNCHANGED <<worker, history>>

------------------------------------------------------------------------------
(* runOnce *)

(* Mutant: only pending rows are claimed. *)
Claimable_Pending(d) == row[d].status = "pending" /\ row[d].ready

Claimable(d) ==
  \/ row[d].status = "pending" /\ row[d].ready
  \/ row[d].status = "leased" /\ row[d].lapsed

(* claim: rows another claim has locked are skipped, and nothing counts the   *)
(* attempts of a lease that ran out.                                        *)
Claim(w, d) ==
  /\ worker[w].at = "idle"
  /\ Claimable(d)
  /\ row' = [row EXCEPT ![d] = [status |-> "leased", attempts |-> @.attempts + 1,
                                ready |-> FALSE, lapsed |-> FALSE]]
  /\ worker' = [worker EXCEPT ![w] =
       [at |-> "sending", claim |-> [delivery |-> d, attempt |-> row[d].attempts + 1]]]
  /\ UNCHANGED <<history, faults>>

Answered(w, result) ==
  worker' = [worker EXCEPT ![w] = [at |-> "settling", claim |-> @.claim, result |-> result]]

(* The mail server takes the mail. *)
MailAccepted(w) ==
  /\ worker[w].at = "sending"
  /\ accepted' = accepted \union {worker[w].claim}
  /\ Answered(w, "submitted")
  /\ UNCHANGED <<row, unheard, faults>>

(* It takes the mail, and the connection breaks before the answer is read. *)
AnswerLost(w) ==
  /\ worker[w].at = "sending"
  /\ Fault
  /\ accepted' = accepted \union {worker[w].claim}
  /\ unheard' = unheard \union {worker[w].claim}
  /\ Answered(w, "retryable")
  /\ UNCHANGED row

(* It refuses, cannot be reached, or there is nothing to send: no address, a  *)
(* template that cannot be rendered.                                       *)
MailRefused(w) ==
  /\ worker[w].at = "sending"
  /\ \E result \in {"retryable", "failed"} : Answered(w, result)
  /\ UNCHANGED <<row, history, faults>>

(* The row a result makes of r; back to pending with a back-off. *)
Settled(r, result) ==
  [r EXCEPT !.status =
     CASE result = "submitted" -> "submitted"
       [] result = "retryable" /\ r.attempts < MaxAttempts -> "pending"
       [] OTHER -> "dead_letter"]

(* Mutant: whoever sent the mail settles the row, if it is leased at all. *)
Settle_AnyLease(w) ==
  LET d == worker[w].claim.delivery IN
  /\ worker[w].at = "settling"
  /\ row[d].status = "leased"
  /\ row' = [row EXCEPT ![d] = Settled(@, worker[w].result)]
  /\ worker' = [worker EXCEPT ![w] = Idle]
  /\ UNCHANGED <<history, faults>>

(* settle, by the lease and not by the clock: a lease that ran out unclaimed   *)
(* still counts. (If its commit is not acknowledged, the run ends all the     *)
(* same.)                                                                  *)
Settle(w) ==
  LET d == worker[w].claim.delivery IN
  /\ worker[w].at = "settling"
  /\ Holds(w, d)
  /\ row' = [row EXCEPT ![d] = Settled(@, worker[w].result)]
  /\ worker' = [worker EXCEPT ![w] = Idle]
  /\ UNCHANGED <<history, faults>>

(* settle finds the row claimed by another: lease_lost. *)
LeaseLost(w) ==
  /\ worker[w].at = "settling"
  /\ ~Holds(w, worker[w].claim.delivery)
  /\ worker' = [worker EXCEPT ![w] = Idle]
  /\ UNCHANGED <<row, history, faults>>

(* The process dies, or the settling transaction fails and ends the run: the  *)
(* row stays leased.                                                       *)
WorkerDies(w) ==
  /\ worker[w].at # "idle"
  /\ Fault
  /\ worker' = [worker EXCEPT ![w] = Idle]
  /\ UNCHANGED <<row, history>>

WorkerStep(w) ==
  \/ \E d \in Deliveries : Claim(w, d)
  \/ MailAccepted(w) \/ MailRefused(w)
  \/ Settle(w) \/ LeaseLost(w)

EmailNext ==
  \/ \E d \in Deliveries : Enqueue(d) \/ BackoffEnds(d) \/ LeaseEnds(d)
  \/ \E w \in Workers : WorkerStep(w) \/ AnswerLost(w) \/ WorkerDies(w)

(* Somebody keeps running the delivery (the repository ships the run, not its *)
(* schedule), sending returns, and time passes. A lease need not outlive its   *)
(* worker and nothing has to be asked for.                                  *)
EmailFairness ==
  /\ \A w \in Workers : WF_mailVars(WorkerStep(w))
  /\ \A d \in Deliveries :
       /\ WF_mailVars(BackoffEnds(d))
       /\ WF_mailVars(LeaseEnds(d) /\ \A w \in Workers : ~Holds(w, d))

EmailSpec == EmailInit /\ [][EmailNext]_mailVars /\ EmailFairness

------------------------------------------------------------------------------
(* Properties *)

(* The types of the variables (the columns billing_notification_deliveries    *)
(* has, the results of email/mailer.js).                                   *)
MailTypeOK ==
  /\ row \in [Deliveries -> Row]
  /\ worker \in [Workers -> Worker]
  /\ accepted \subseteq Claims /\ unheard \subseteq accepted
  /\ faults \in 0..MaxFaults

Last(d) == [delivery |-> d, attempt |-> row[d].attempts]

(* A row says of its last claim what happened to that claim's mail: it is      *)
(* submitted only if that mail was taken, and pending again or dead only if it *)
(* was not, or nobody heard of it. A worker whose lease was claimed away       *)
(* cannot write its own outcome over its successor's (settle).                *)
StatusIsTrue ==
  \A d \in Deliveries :
    /\ row[d].status = "submitted" => Last(d) \in accepted
    /\ row[d].status \in {"pending", "dead_letter"} => Last(d) \notin accepted \ unheard

(* Every mail but the one of a delivery's last claim is owed to a fault of     *)
(* its own: without a crash, a lost answer or a lease outlived, a mail goes    *)
(* out once however often it is asked for (enqueuePrivate, claim, settle).     *)
SentOncePerFault == Cardinality({c \in accepted : c # Last(c.delivery)}) <= faults

(* A mail that was asked for ends: taken by the mail server, or given up after *)
(* MaxAttempts, however its leases are lost.                                 *)
MailEnds ==
  \A d \in Deliveries : row[d].status = "pending" ~> row[d].status \in Final

==============================================================================
