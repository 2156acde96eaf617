------------------------------ MODULE CallSession ------------------------------
(***************************************************************************)
(* Outbound calls of an organization that pays from a recharged wallet      *)
(* (billingMethod = "recharge_based"), from the reservation made before the *)
(* provider is asked to the call log and the settlement made afterwards.    *)
(*                                                                         *)
(* Two parties report the end of a call, in either order, late, twice or     *)
(* not at all: the media stream, whose finalizeCall() takes what is cached   *)
(* under the call's id and queues the post-call pipeline, and the provider's *)
(* Hangup webhook, which finalizes the session if one has registered, and    *)
(* otherwise waits for a call log and writes one itself. Who logs the call   *)
(* also settles its reservation, if the cached retry context named it.      *)
(*                                                                         *)
(* Sessions, caches, handlers and queued jobs live in one process's memory;  *)
(* the wallet, reservations, call routes and call logs are in the database. *)
(* The workspace has no monthly budget of its own. Webhooks name a call by   *)
(* its CallUUID; its media stream may use another id.                       *)
(***************************************************************************)
EXTENDS Naturals, FiniteSets, Functions

CONSTANTS
  Calls,          \* calls the organization places
  InitialBalance,
  Estimate,       \* what is reserved for a call
  Minimum,        \* the minimum balance needed to place one
  Answerable,     \* those somebody may pick up
  Costs,          \* what a call may turn out to cost
  RechargeAmount,
  MaxRecharges,   \* bound: recharges
  MaxErrors,      \* bound: attempts of the post-call job that fail
  MaxFaults       \* bound: crashes, lost answers, missed deadlines, repeated reports

ASSUME CallSessionAssumption ==
  /\ IsFiniteSet(Calls)
  /\ Costs # {} /\ Costs \subseteq Nat
  /\ {InitialBalance, Estimate, Minimum, RechargeAmount} \subseteq Nat
  /\ {MaxRecharges, MaxErrors, MaxFaults} \subseteq Nat

VARIABLES
  wallet,   \* the organization's recharge balance and reserved amount
  calls,    \* everything there is of each call
  recharges, errors, faults

vars == <<wallet, calls, recharges, errors, faults>>

MaxAttempts == 3

(* The end of a call is reported once, or again. *)
Reports == {1, 2}

(* context, owner: vobizCallRetryContext and vobizCallOrgs have the call;     *)
(* taken, named: what finalizeCall took of them into the post-call job.       *)
(* aliased: its media stream uses an id that is not the CallUUID.             *)
(* faulty: something went wrong with the call that nothing repairs.           *)
Call ==
  [hold: {"none", "reserved", "released", "settled"}, charged: Nat,
   dial: {"new", "authorized", "asking", "accepted", "placed", "failed"},
   route: {"none", "starting", "active", "ended", "failed"}, claimed: BOOLEAN,
   phone: {"none", "ringing", "up", "over"},
   context: BOOLEAN, owner: BOOLEAN, taken: BOOLEAN, named: BOOLEAN,
   session: {"none", "open", "started", "closing", "gone"}, aliased: BOOLEAN,
   job: {"none", "queued", "backoff", "dead", "logged", "done", "lost"},
   attempts: Nat,
   hook: [Reports -> {"idle", "waiting", "polling", "saving", "settling", "done"}],
   known: [Reports -> BOOLEAN],
   logged: BOOLEAN, fallbacks: Nat, faulty: BOOLEAN]

NewCall ==
  [hold |-> "none", charged |-> 0, dial |-> "new", route |-> "none", claimed |-> FALSE,
   phone |-> "none", context |-> FALSE, owner |-> FALSE, taken |-> FALSE, named |-> FALSE,
   session |-> "none", aliased |-> FALSE, job |-> "none", attempts |-> 0, hook |-> [r \in Reports |-> "idle"],
   known |-> [r \in Reports |-> FALSE], logged |-> FALSE, fallbacks |-> 0, faulty |-> FALSE]

CallSessionInit ==
  /\ wallet = [balance |-> InitialBalance, reserved |-> 0]
  /\ calls = [c \in Calls |-> NewCall]
  /\ recharges = 0 /\ errors = 0 /\ faults = 0

Becomes(c, call) == calls' = [calls EXCEPT ![c] = call]

Bad(call) == [call EXCEPT !.faulty = TRUE]
Fault == faults < MaxFaults /\ faults' = faults + 1

Less(a, b) == IF a > b THEN a - b ELSE 0

Routed(call) == call.route # "none"

------------------------------------------------------------------------------
(* The wallet *)

(* releaseReservation *)
ReleasedWallet(call) ==
  IF call.hold # "reserved" THEN wallet
  ELSE [wallet EXCEPT !.reserved = Less(@, Estimate)]

Released(call) == IF call.hold # "reserved" THEN call ELSE [call EXCEPT !.hold = "released"]

(* Mutant: the reservation's status is not looked at. *)
SettledWallet_Unchecked(call, cost) ==
  [balance |-> Less(wallet.balance, cost), reserved |-> Less(wallet.reserved, Estimate)]

(* settleReservation *)
SettledWallet(call, cost) ==
  IF call.hold # "reserved" THEN wallet
  ELSE [balance |-> Less(wallet.balance, cost), reserved |-> Less(wallet.reserved, Estimate)]

Settled(call, cost) ==
  IF call.hold # "reserved" THEN call ELSE [call EXCEPT !.hold = "settled", !.charged = cost]

(* rechargeOrganization *)
RechargeOrganization ==
  /\ recharges < MaxRecharges
  /\ recharges' = recharges + 1
  /\ wallet' = [wallet EXCEPT !.balance = @ + RechargeAmount]
  /\ UNCHANGED <<calls, errors, faults>>

(* Mutant: what other calls have reserved is not taken off. *)
Affordable_BalanceOnly ==
  wallet.balance >= IF Estimate > Minimum THEN Estimate ELSE Minimum

(* What is not reserved covers the estimate and the minimum balance. *)
Affordable ==
  /\ wallet.balance >= wallet.reserved
  /\ wallet.balance - wallet.reserved >= IF Estimate > Minimum THEN Estimate ELSE Minimum

(* authorizeOutboundCall: one transaction that locks the organization. *)
AuthorizeOutboundCall(c) ==
  /\ calls[c].dial = "new"
  /\ IF Affordable
       THEN /\ wallet' = [wallet EXCEPT !.reserved = @ + Estimate]
            /\ Becomes(c, [calls[c] EXCEPT !.dial = "authorized", !.hold = "reserved"])
       ELSE Becomes(c, [calls[c] EXCEPT !.dial = "failed"]) /\ UNCHANGED wallet
  /\ UNCHANGED <<recharges, errors, faults>>

------------------------------------------------------------------------------
(* Placing the call: triggerVobizOutboundCall *)

GivesUp(c, call) ==
  /\ wallet' = ReleasedWallet(call)
  /\ Becomes(c, [Released(call) EXCEPT !.dial = "failed"])

(* With an assigned number the call gets a route first, which also keeps the  *)
(* reservation's id; without one the provider is asked at once.              *)
Ask(c) ==
  /\ calls[c].dial = "authorized"
  /\ \E route \in {"none", "starting"} :
       Becomes(c, [calls[c] EXCEPT !.dial = "asking", !.route = route])
  /\ UNCHANGED <<wallet, recharges, errors, faults>>

(* The number is no longer assigned, or the route cannot be linked. *)
NoRoute(c) ==
  /\ calls[c].dial = "authorized"
  /\ GivesUp(c, calls[c])
  /\ UNCHANGED <<recharges, errors, faults>>

ProviderAccepts(c) ==
  /\ calls[c].dial = "asking" /\ calls[c].phone = "none"
  /\ Becomes(c, [calls[c] EXCEPT !.phone = "ringing"])
  /\ UNCHANGED <<wallet, recharges, errors, faults>>

Refused(call) == [call EXCEPT !.route = IF Routed(call) THEN "failed" ELSE @]

(* The request fails or is refused. *)
ProviderRefuses(c) ==
  /\ calls[c].dial = "asking" /\ calls[c].phone = "none"
  /\ GivesUp(c, Refused(calls[c]))
  /\ UNCHANGED <<recharges, errors, faults>>

(* The release fails, which is ignored. *)
ReleaseFails(c) ==
  /\ calls[c].dial = "authorized" \/ (calls[c].dial = "asking" /\ calls[c].phone = "none")
  /\ Fault
  /\ Becomes(c, Bad([Refused(calls[c]) EXCEPT !.dial = "failed"]))
  /\ UNCHANGED <<wallet, recharges, errors>>

(* The provider has placed the call, but its answer is lost. updateCallRoute-  *)
(* Status leaves a route alone that has ended already.                      *)
AnswerLost(c) ==
  /\ calls[c].dial = "asking" /\ calls[c].phone # "none"
  /\ Fault
  /\ GivesUp(c, Bad(IF calls[c].route = "ended" THEN calls[c] ELSE Refused(calls[c])))
  /\ UNCHANGED <<recharges, errors>>

AnswerArrives(c) ==
  /\ calls[c].dial = "asking" /\ calls[c].phone # "none"
  /\ Becomes(c, [calls[c] EXCEPT !.dial = "accepted"])
  /\ UNCHANGED <<wallet, recharges, errors, faults>>

Activated(call) == [call EXCEPT !.route = IF @ = "starting" THEN "active" ELSE @]

(* attachProviderCall, the route's aliases and activateCallRoute, and then      *)
(* rememberOutboundCall.                                                     *)
Remember(c) ==
  /\ calls[c].dial = "accepted"
  /\ Becomes(c, [Activated(calls[c]) EXCEPT !.dial = "placed", !.context = TRUE, !.owner = TRUE])
  /\ UNCHANGED <<wallet, recharges, errors, faults>>

(* An error on the way: the call is up, nothing is released or remembered. *)
AttachFails(c) ==
  /\ calls[c].dial = "accepted"
  /\ Fault
  /\ Becomes(c, Bad([calls[c] EXCEPT !.dial = "failed"]))
  /\ UNCHANGED <<wallet, recharges, errors>>

------------------------------------------------------------------------------
(* The phone and the media stream *)

(* A call's context is cached before anybody can answer it, unless the         *)
(* provider is faster than two statements.                                 *)
InTime(c) == calls[c].dial \in {"placed", "failed"}

(* /incoming, the answer: a route renews the cached context. A failed route    *)
(* cannot be activated, and the call is not connected.                       *)
PicksUp(c) ==
  LET call == calls[c] IN
  /\ c \in Answerable /\ call.phone = "ringing" /\ call.route # "failed"
  /\ IF InTime(c) THEN UNCHANGED faults ELSE Fault
  /\ Becomes(c, [Activated(call) EXCEPT
       !.phone = "up", !.owner = TRUE, !.context = @ \/ Routed(call),
       !.faulty = @ \/ ~ InTime(c)])
  /\ UNCHANGED <<wallet, recharges, errors>>

PhoneEnds(c) ==
  /\ calls[c].phone \in {"ringing", "up"}
  /\ Becomes(c, [calls[c] EXCEPT !.phone = "over"])
  /\ UNCHANGED <<wallet, recharges, errors, faults>>

(* handleVobizSession *)
StreamOpens(c) ==
  /\ calls[c].phone = "up" /\ calls[c].session = "none"
  /\ Becomes(c, [calls[c] EXCEPT !.session = "open"])
  /\ UNCHANGED <<wallet, recharges, errors, faults>>

(* The fallback no longer waits for somebody else's log of this call. *)
GivenUp(call) == call.fallbacks > 0 \/ \E r \in Reports : call.hook[r] = "saving"

(* The start frame registers finalizeCall, under the id it brings and under the *)
(* CallUUID, if they differ, as an alias. It may come after the call's end, or *)
(* never; that it comes after the fallback's wait is a fault.                *)
StreamStarts(c) ==
  LET late == GivenUp(calls[c]) IN
  /\ calls[c].session = "open"
  /\ IF late THEN Fault ELSE UNCHANGED faults
  /\ \E aliased \in BOOLEAN :
       Becomes(c, [calls[c] EXCEPT !.session = "started", !.owner = TRUE, !.aliased = aliased,
                                   !.faulty = @ \/ late])
  /\ UNCHANGED <<wallet, recharges, errors>>

(* The caches of a call that lasts more than 30 minutes expire. *)
CachesExpire(c) ==
  /\ calls[c].phone = "up" /\ calls[c].dial = "placed"
  /\ Fault
  /\ Becomes(c, Bad([calls[c] EXCEPT !.context = FALSE, !.owner = FALSE]))
  /\ UNCHANGED <<wallet, recharges, errors>>

(* Mutant: the context is left in the cache and not taken. *)
Finalized_NoContext(call) ==
  [call EXCEPT !.session = "closing", !.named = call.owner, !.owner = FALSE]

(* finalizeCall up to its first await; it runs once (isFinalized) and is       *)
(* unregistered here.                                                      *)
Finalized(call) ==
  [call EXCEPT !.session = "closing", !.taken = call.context, !.named = call.owner,
               !.context = FALSE, !.owner = FALSE]

(* The stop frame, the socket's end or the silence watchdog. Without a start    *)
(* frame there is no id to look anything up with, and the job finds nothing *)
(* to do.                                                                 *)
StreamEnds(c) ==
  /\ calls[c].session \in {"open", "started"}
  /\ Becomes(c, IF calls[c].session = "open" THEN [calls[c] EXCEPT !.session = "gone"]
                ELSE Finalized(calls[c]))
  /\ UNCHANGED <<wallet, recharges, errors, faults>>

(* The rest of finalizeCall: the dialer task, the recording, the job. *)
EnqueuePostCall(c) ==
  /\ calls[c].session = "closing"
  /\ Becomes(c, [calls[c] EXCEPT !.session = "gone", !.job = "queued"])
  /\ UNCHANGED <<wallet, recharges, errors, faults>>

------------------------------------------------------------------------------
(* The post-call job: processPostCallData on the in-memory queue *)

(* finalizeCallRecord writes nothing without an organization, and goes on if   *)
(* an earlier attempt has written the row.                                *)
PostCallLogs(c) ==
  /\ calls[c].job = "queued"
  /\ Becomes(c, [calls[c] EXCEPT !.job = "logged", !.logged = @ \/ calls[c].named])
  /\ UNCHANGED <<wallet, recharges, errors, faults>>

PostCallSettles(c) ==
  LET call == [calls[c] EXCEPT !.job = "done"] IN
  /\ calls[c].job = "logged"
  /\ \E cost \in Costs :
       IF calls[c].taken
       THEN Becomes(c, Settled(call, cost)) /\ wallet' = SettledWallet(call, cost)
       ELSE Becomes(c, call) /\ UNCHANGED wallet
  /\ UNCHANGED <<recharges, errors, faults>>

(* The error is logged, and the job counts as done. *)
SettlementFails(c) ==
  /\ calls[c].job = "logged" /\ calls[c].taken
  /\ Fault
  /\ Becomes(c, Bad([calls[c] EXCEPT !.job = "done"]))
  /\ UNCHANGED <<wallet, recharges, errors>>

(* The log cannot be written, or it is written and an error follows. *)
PostCallFails(c) ==
  LET call == calls[c] IN
  /\ call.job = "queued" /\ call.named
  /\ errors < MaxErrors /\ errors' = errors + 1
  /\ \E written \in BOOLEAN :
       Becomes(c, [call EXCEPT !.attempts = @ + 1, !.logged = @ \/ written,
         !.job = IF call.attempts + 1 < MaxAttempts THEN "backoff" ELSE "dead"])
  /\ UNCHANGED <<wallet, recharges, faults>>

BackoffEnds(c) ==
  /\ calls[c].job = "backoff"
  /\ Becomes(c, [calls[c] EXCEPT !.job = "queued"])
  /\ UNCHANGED <<wallet, recharges, errors, faults>>

(* sweepDeadLetters, at night and with nothing running. *)
SweepDeadLetters ==
  /\ \E c \in Calls : calls[c].job = "dead"
  /\ \A c \in Calls : calls[c].job # "logged"
  /\ calls' = [c \in Calls |->
       IF calls[c].job = "dead" THEN [calls[c] EXCEPT !.job = "queued", !.attempts = 0]
       ELSE calls[c]]
  /\ UNCHANGED <<wallet, recharges, errors, faults>>

------------------------------------------------------------------------------
(* The end of the call as the provider reports it: /incoming, Hangup *)

(* finalize() of the registry: a session that has registered takes the call's   *)
(* end over, and otherwise the handler goes on to at.                       *)
Reported(call, r, at) ==
  IF call.session = "started"
  THEN [Finalized(call) EXCEPT !.hook[r] = "done"]
  ELSE [call EXCEPT !.hook[r] = at]

(* A failed route cannot be ended: the webhook is refused. *)
HangUp(c, r) ==
  LET call == calls[c]
      seen == [call EXCEPT !.owner = TRUE, !.context = @ \/ Routed(call),
                           !.route = IF Routed(call) THEN "ended" ELSE @]
  IN /\ call.phone = "over" /\ call.route # "failed"
     /\ call.hook[r] = "idle"
     /\ IF r = 1 THEN UNCHANGED faults ELSE call.hook[1] # "idle" /\ Fault
     /\ Becomes(c, Reported(seen, r, "waiting"))
     /\ UNCHANGED <<wallet, recharges, errors>>

HangUpLost(c) ==
  /\ calls[c].phone = "over" /\ calls[c].hook[1] = "idle"
  /\ Fault
  /\ Becomes(c, Bad([calls[c] EXCEPT !.hook = [r \in Reports |-> "done"]]))
  /\ UNCHANGED <<wallet, recharges, errors>>

(* 2.5 seconds later. *)
AskAgain(c, r) ==
  /\ calls[c].hook[r] = "waiting"
  /\ Becomes(c, Reported(calls[c], r, "polling"))
  /\ UNCHANGED <<wallet, recharges, errors, faults>>

(* The pipeline's row has the id of the media stream. The map from CallUUID to  *)
(* the row's own id does not help an aliased call: it is empty before the     *)
(* start frame, and finalizeCall clears it.                                 *)
Found(c) == calls[c].fallbacks > 0 \/ (calls[c].logged /\ ~ calls[c].aliased)

PollFinds(c, r) ==
  /\ calls[c].hook[r] = "polling" /\ Found(c)
  /\ Becomes(c, [calls[c] EXCEPT !.hook[r] = "done"])
  /\ UNCHANGED <<wallet, recharges, errors, faults>>

(* Nothing that would still log the call is on its way. *)
Nothing(c) ==
  /\ InTime(c)
  /\ calls[c].session \notin {"started", "closing"}
  /\ calls[c].job \notin {"queued", "backoff", "dead"}

(* Mutant: the fallback does not claim the route. *)
PollExpires_NoClaim(c, r) ==
  LET call == calls[c] IN
  /\ call.hook[r] = "polling" /\ ~ Found(c)
  /\ IF Nothing(c) THEN UNCHANGED faults ELSE Fault
  /\ Becomes(c, [call EXCEPT !.hook[r] = "saving", !.known[r] = call.context,
                             !.faulty = @ \/ ~ Nothing(c)])
  /\ UNCHANGED <<wallet, recharges, errors>>

(* Mutant: a call whose stream had connected gets no fallback log. *)
PollExpires_Unconnected(c, r) ==
  LET call == calls[c] IN
  /\ call.hook[r] = "polling" /\ ~ Found(c)
  /\ IF Nothing(c) THEN UNCHANGED faults ELSE Fault
  /\ Becomes(c, [call EXCEPT !.hook[r] = IF call.claimed \/ call.session # "none" THEN "done"
                                         ELSE "saving",
                             !.claimed = Routed(call), !.known[r] = call.context,
                             !.faulty = @ \/ ~ Nothing(c)])
  /\ UNCHANGED <<wallet, recharges, errors>>

(* After 25 seconds; with a route the fallback log is claimed for one handler. *)
PollExpires(c, r) ==
  LET call == calls[c] IN
  /\ call.hook[r] = "polling" /\ ~ Found(c)
  /\ IF Nothing(c) THEN UNCHANGED faults ELSE Fault
  /\ Becomes(c, [call EXCEPT !.hook[r] = IF call.claimed THEN "done" ELSE "saving",
                             !.claimed = Routed(call), !.known[r] = call.context,
                             !.faulty = @ \/ ~ Nothing(c)])
  /\ UNCHANGED <<wallet, recharges, errors>>

FallbackSaved(c, r) ==
  /\ calls[c].hook[r] = "saving"
  /\ Becomes(c, [calls[c] EXCEPT !.fallbacks = @ + 1,
                   !.hook[r] = IF calls[c].known[r] THEN "settling" ELSE "done"])
  /\ UNCHANGED <<wallet, recharges, errors, faults>>

(* The claim is given back, for a later report of the same end. *)
FallbackFails(c, r) ==
  /\ calls[c].hook[r] = "saving"
  /\ Fault
  /\ Becomes(c, Bad([calls[c] EXCEPT !.hook[r] = "done", !.claimed = FALSE]))
  /\ UNCHANGED <<wallet, recharges, errors>>

FallbackSettles(c, r) ==
  LET call == [calls[c] EXCEPT !.hook[r] = "done"] IN
  /\ calls[c].hook[r] = "settling"
  /\ \E cost \in Costs :
       Becomes(c, Settled(call, cost)) /\ wallet' = SettledWallet(call, cost)
  /\ UNCHANGED <<recharges, errors, faults>>

(* The error is logged and nothing more. *)
FallbackUnsettled(c, r) ==
  /\ calls[c].hook[r] = "settling"
  /\ Fault
  /\ Becomes(c, Bad([calls[c] EXCEPT !.hook[r] = "done"]))
  /\ UNCHANGED <<wallet, recharges, errors>>

------------------------------------------------------------------------------
(* The process *)

(* What memory held of a call is gone: its request, session, caches, handlers   *)
(* and job. The phone goes on until somebody hangs up.                      *)
Lost(call) ==
  [call EXCEPT !.dial = IF @ \in {"authorized", "asking", "accepted"} THEN "failed" ELSE @,
               !.context = FALSE, !.owner = FALSE,
               !.session = IF @ = "none" THEN @ ELSE "gone",
               !.job = IF @ \in {"queued", "backoff", "dead", "logged"} THEN "lost" ELSE @,
               !.hook = [r \in Reports |-> IF @[r] = "idle" THEN "idle" ELSE "done"],
               !.faulty = @ \/ call.dial # "new"]

Crash ==
  /\ Fault
  /\ calls' = [c \in Calls |-> Lost(calls[c])]
  /\ UNCHANGED <<wallet, recharges, errors>>

CallSessionNext ==
  \/ RechargeOrganization \/ SweepDeadLetters \/ Crash
  \/ \E c \in Calls :
       \/ AuthorizeOutboundCall(c) \/ Ask(c) \/ NoRoute(c) \/ ProviderAccepts(c)
       \/ ProviderRefuses(c) \/ ReleaseFails(c) \/ AnswerLost(c) \/ AnswerArrives(c) \/ Remember(c)
       \/ AttachFails(c) \/ PicksUp(c) \/ PhoneEnds(c) \/ StreamOpens(c) \/ StreamStarts(c)
       \/ CachesExpire(c) \/ StreamEnds(c) \/ EnqueuePostCall(c)
       \/ PostCallLogs(c) \/ PostCallSettles(c) \/ SettlementFails(c) \/ PostCallFails(c)
       \/ BackoffEnds(c) \/ HangUpLost(c)
       \/ \E r \in Reports :
            \/ HangUp(c, r) \/ AskAgain(c, r) \/ PollFinds(c, r) \/ PollExpires(c, r)
            \/ FallbackSaved(c, r) \/ FallbackFails(c, r) \/ FallbackSettles(c, r)
            \/ FallbackUnsettled(c, r)

(* The request, the handlers, the session's end and the queue run on their own  *)
(* timers; a phone call ends, its media stream with it, and the provider     *)
(* reports the end once. A start frame is not promised.                    *)
CallSessionFairness ==
  /\ WF_vars(SweepDeadLetters)
  /\ \A c \in Calls :
       /\ WF_vars(Ask(c)) /\ WF_vars(ProviderAccepts(c) \/ ProviderRefuses(c))
       /\ WF_vars(AnswerArrives(c)) /\ WF_vars(Remember(c)) /\ WF_vars(PhoneEnds(c))
       /\ WF_vars(calls[c].phone = "over" /\ StreamEnds(c)) /\ WF_vars(EnqueuePostCall(c))
       /\ WF_vars(PostCallLogs(c)) /\ WF_vars(PostCallSettles(c)) /\ WF_vars(BackoffEnds(c))
       /\ WF_vars(HangUp(c, 1))
       /\ \A r \in Reports :
            /\ WF_vars(AskAgain(c, r)) /\ WF_vars(PollFinds(c, r))
            /\ WF_vars(PollExpires(c, r) /\ UNCHANGED faults)
            /\ WF_vars(FallbackSaved(c, r)) /\ WF_vars(FallbackSettles(c, r))

CallSessionSpec == CallSessionInit /\ [][CallSessionNext]_vars /\ CallSessionFairness

------------------------------------------------------------------------------
(* Properties *)

(* Every variable has its type. *)
CallSessionTypeOK ==
  /\ wallet \in [balance : Nat, reserved : Nat]
  /\ calls \in [Calls -> Call]
  /\ {recharges, errors, faults} \subseteq Nat

Held == {c \in Calls : calls[c].hold = "reserved"}

(* What the organization has reserved is what its open reservations were made  *)
(* for, although calls are released, settled by either of two parties, and    *)
(* forgotten.                                                              *)
ReservedMatchesCalls == wallet.reserved = Cardinality(Held) * Estimate

Charged(cs) == SumFunction([c \in cs |-> calls[c].charged])
Overrun(cs) == SumFunction([c \in cs |-> Less(calls[c].charged, Estimate)])

(* Each call is charged once, whoever settles it: while the charges do not      *)
(* exceed what the wallet held at first, the balance is what was paid in      *)
(* less the charges.                                                       *)
ChargedOncePerCall ==
  Charged(Calls) <= InitialBalance
    => wallet.balance + Charged(Calls) = InitialBalance + recharges * RechargeAmount

(* authorizeOutboundCall does not promise the same money twice: what is         *)
(* reserved is in the wallet, except for what finished calls have cost       *)
(* beyond their reservations.                                              *)
ReservedIsBacked == wallet.reserved <= wallet.balance + Overrun(Calls)

Logs(call) == call.fallbacks + IF call.logged THEN 1 ELSE 0

(* However the session's end and the report of it interleave, the fallback logs *)
(* a call once, and not beside the pipeline if both know it by one id; an      *)
(* aliased call may get a log of each. Only a repeated report of a call       *)
(* without a route may add another.                                         *)
OneLogPerCall ==
  \A c \in Calls :
    LET call == calls[c] IN
    /\ Routed(call) \/ call.hook[2] = "idle" => call.fallbacks <= 1
    /\ ~ call.faulty /\ (Routed(call) \/ call.hook[2] = "idle")
         => Logs(call) <= IF call.aliased THEN 2 ELSE 1

(* What the fallback's search by the CallUUID and by the internal id is there   *)
(* for: one log, whatever id the media stream uses.                         *)
OneLogUnderEveryId ==
  \A c \in Calls :
    ~ calls[c].faulty /\ (Routed(calls[c]) \/ calls[c].hook[2] = "idle") => Logs(calls[c]) <= 1

(* Every reservation is released or settled in the end, if nothing beyond the  *)
(* post-call job's errors goes wrong with the call.                        *)
HoldsEnd ==
  \A c \in Calls : (calls[c].hold = "reserved") ~> (calls[c].hold # "reserved" \/ calls[c].faulty)

(* Every call that has ended gets a log. *)
EndedCallsAreLogged ==
  \A c \in Calls : (calls[c].phone = "over") ~> (Logs(calls[c]) > 0 \/ calls[c].faulty)
==============================================================================
