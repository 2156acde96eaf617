--------------------------- MODULE CallSessionProofs ---------------------------
(***************************************************************************)
(* Proofs about CallSession for any finite set of calls, any amounts and any *)
(* bounds: what the wallet has reserved and what the calls were charged, and *)
(* how many logs a call gets.                                               *)
(***************************************************************************)
EXTENDS CallSession, SumTheorems, FiniteSetTheorems, TLAPS

LEMMA CallType ==
  ASSUME CallSessionTypeOK, NEW c \in Calls
  PROVE  calls[c] \in Call
  BY DEF CallSessionTypeOK

LEMMA BecomesType ==
  ASSUME CallSessionTypeOK, NEW c \in Calls, NEW call \in Call, Becomes(c, call)
  PROVE  calls' \in [Calls -> Call]
  BY DEF CallSessionTypeOK, Becomes

(* The steps of one call. *)
CallStep(c) ==
  \/ AuthorizeOutboundCall(c) \/ Ask(c) \/ NoRoute(c) \/ ProviderAccepts(c)
  \/ ProviderRefuses(c) \/ ReleaseFails(c) \/ AnswerLost(c) \/ AnswerArrives(c) \/ Remember(c)
  \/ AttachFails(c) \/ PicksUp(c) \/ PhoneEnds(c) \/ StreamOpens(c) \/ StreamStarts(c)
  \/ CachesExpire(c) \/ StreamEnds(c) \/ EnqueuePostCall(c)
  \/ PostCallLogs(c) \/ PostCallSettles(c) \/ SettlementFails(c) \/ PostCallFails(c)
  \/ BackoffEnds(c) \/ HangUpLost(c)

ReportStep(c, r) ==
  \/ HangUp(c, r) \/ AskAgain(c, r) \/ PollFinds(c, r) \/ PollExpires(c, r)
  \/ FallbackSaved(c, r) \/ FallbackFails(c, r) \/ FallbackSettles(c, r)
  \/ FallbackUnsettled(c, r)

LEMMA HelperTypes ==
  ASSUME NEW call \in Call
  PROVE  /\ Bad(call) \in Call /\ Released(call) \in Call /\ Refused(call) \in Call
         /\ Activated(call) \in Call /\ Finalized(call) \in Call
         /\ \A cost \in Nat : Settled(call, cost) \in Call
<1>1. Bad(call) \in Call
  BY DEF Bad, Call
<1>5. Released(call) \in Call
  BY DEF Released, Call
<1>2. Refused(call) \in Call /\ Activated(call) \in Call
  BY DEF Refused, Activated, Call
<1>3. Finalized(call) \in Call
  BY DEF Finalized, Call
<1>4. \A cost \in Nat : Settled(call, cost) \in Call
  BY ZenonT(60) DEF Settled, Call
<1> QED
  BY <1>1, <1>2, <1>3, <1>4, <1>5

LEMMA SetHook ==
  ASSUME NEW call \in Call, NEW r \in Reports,
         NEW at \in {"idle", "waiting", "polling", "saving", "settling", "done"}
  PROVE  [call EXCEPT !.hook[r] = at] \in Call
<1>1. [call.hook EXCEPT ![r] = at]
        \in [Reports -> {"idle", "waiting", "polling", "saving", "settling", "done"}]
  BY DEF Call
<1>2. [call EXCEPT !.hook = [call.hook EXCEPT ![r] = at]] \in Call
  BY <1>1 DEF Call
<1> QED
  BY <1>2 DEF Call

LEMMA ReportedType ==
  ASSUME NEW call \in Call, NEW r \in Reports, NEW at \in {"waiting", "polling"}
  PROVE  Reported(call, r, at) \in Call
  BY HelperTypes, SetHook DEF Reported

LEMMA TypeCallStep ==
  ASSUME CallSessionTypeOK, NEW c \in Calls, CallStep(c)
  PROVE  calls' \in [Calls -> Call]
<1> DEFINE call == calls[c]
<1>1. call \in Call
  BY CallType
<1>2. CASE AuthorizeOutboundCall(c)
  <2>1. [call EXCEPT !.dial = "authorized", !.hold = "reserved"] \in Call
    BY <1>1 DEF Call
  <2>2. [call EXCEPT !.dial = "failed"] \in Call
    BY <1>1 DEF Call
  <2> QED
    BY <1>2, <2>1, <2>2, BecomesType DEF AuthorizeOutboundCall
<1>3. CASE Ask(c)
  <2>1. \A route \in {"none", "starting"} :
          [call EXCEPT !.dial = "asking", !.route = route] \in Call
    BY ZenonT(60), <1>1 DEF Call
  <2> QED
    BY <1>3, <2>1, BecomesType DEF Ask
<1>4. CASE NoRoute(c)
  <2>1. [Released(call) EXCEPT !.dial = "failed"] \in Call
    <3>1. Released(call) \in Call
      BY <1>1, HelperTypes
    <3> QED
      BY <3>1 DEF Call
  <2> QED
    BY <1>4, <2>1, BecomesType DEF NoRoute, GivesUp
<1>5. CASE ProviderAccepts(c)
  <2>1. [call EXCEPT !.phone = "ringing"] \in Call
    BY <1>1 DEF Call
  <2> QED
    BY <1>5, <2>1, BecomesType DEF ProviderAccepts
<1>6. CASE ProviderRefuses(c)
  <2>1. [Released(Refused(call)) EXCEPT !.dial = "failed"] \in Call
    <3>1. Released(Refused(call)) \in Call
      BY <1>1, HelperTypes
    <3> QED
      BY <3>1 DEF Call
  <2> QED
    BY <1>6, <2>1, BecomesType DEF ProviderRefuses, GivesUp
<1>7. CASE ReleaseFails(c)
  <2>1. Bad([Refused(call) EXCEPT !.dial = "failed"]) \in Call
    <3>1. Refused(call) \in Call
      BY <1>1, HelperTypes
    <3>2. [Refused(call) EXCEPT !.dial = "failed"] \in Call
      BY <3>1 DEF Call
    <3> QED
      BY <3>2, HelperTypes
  <2> QED
    BY <1>7, <2>1, BecomesType DEF ReleaseFails
<1>8. CASE AnswerLost(c)
  <2> DEFINE seen == Bad(IF call.route = "ended" THEN call ELSE Refused(call))
  <2>1. [Released(seen) EXCEPT !.dial = "failed"] \in Call
    <3>1. Released(seen) \in Call
      BY <1>1, HelperTypes
    <3> HIDE DEF seen
    <3> QED
      BY <3>1 DEF Call
  <2> QED
    BY <1>8, <2>1, BecomesType DEF AnswerLost, GivesUp
<1>9. CASE AnswerArrives(c)
  <2>1. [call EXCEPT !.dial = "accepted"] \in Call
    BY <1>1 DEF Call
  <2> QED
    BY <1>9, <2>1, BecomesType DEF AnswerArrives
<1>10. CASE Remember(c)
  <2>1. [Activated(call) EXCEPT !.dial = "placed", !.context = TRUE, !.owner = TRUE] \in Call
    <3>1. Activated(call) \in Call
      BY <1>1, HelperTypes
    <3> QED
      BY <3>1 DEF Call
  <2> QED
    BY <1>10, <2>1, BecomesType DEF Remember
<1>11. CASE AttachFails(c)
  <2>1. [call EXCEPT !.dial = "failed", !.faulty = TRUE] \in Call
    BY <1>1 DEF Call
  <2> QED
    BY <1>11, <2>1, BecomesType DEF AttachFails, Bad
<1>12. CASE PicksUp(c)
  <2> DEFINE context == Activated(call).context \/ Routed(call)
             faulty == Activated(call).faulty \/ ~ InTime(c)
  <2>1. Activated(call) \in Call /\ context \in BOOLEAN /\ faulty \in BOOLEAN
    BY <1>1, HelperTypes
  <2> HIDE DEF context, faulty
  <2>2. [Activated(call) EXCEPT !.phone = "up", !.owner = TRUE,
                                !.context = context, !.faulty = faulty] \in Call
    BY <2>1 DEF Call
  <2> QED
    BY <1>12, <2>2, BecomesType DEF PicksUp, context, faulty
<1>13. CASE PhoneEnds(c)
  <2>1. [call EXCEPT !.phone = "over"] \in Call
    BY <1>1 DEF Call
  <2> QED
    BY <1>13, <2>1, BecomesType DEF PhoneEnds
<1>14. CASE StreamOpens(c)
  <2>1. [call EXCEPT !.session = "open"] \in Call
    BY <1>1 DEF Call
  <2> QED
    BY <1>14, <2>1, BecomesType DEF StreamOpens
<1>15. CASE StreamStarts(c)
  <2> DEFINE faulty == call.faulty \/ GivenUp(call)
  <2>1. faulty \in BOOLEAN
    OBVIOUS
  <2> HIDE DEF faulty
  <2>2. ASSUME NEW aliased \in BOOLEAN
        PROVE  [call EXCEPT !.session = "started", !.owner = TRUE, !.aliased = aliased,
                            !.faulty = faulty] \in Call
    BY <1>1, <2>1, <2>2 DEF Call
  <2> QED
    BY <1>15, <2>2, BecomesType DEF StreamStarts, faulty
<1>16. CASE CachesExpire(c)
  <2>1. [call EXCEPT !.context = FALSE, !.owner = FALSE, !.faulty = TRUE] \in Call
    BY <1>1 DEF Call
  <2> QED
    BY <1>16, <2>1, BecomesType DEF CachesExpire, Bad
<1>17. CASE StreamEnds(c)
  <2>1. [call EXCEPT !.session = "gone"] \in Call
    BY <1>1 DEF Call
  <2>2. Finalized(call) \in Call
    BY <1>1, HelperTypes
  <2> QED
    BY <1>17, <2>1, <2>2, BecomesType DEF StreamEnds
<1>18. CASE EnqueuePostCall(c)
  <2>1. [call EXCEPT !.session = "gone", !.job = "queued"] \in Call
    BY ZenonT(60), <1>1 DEF Call
  <2> QED
    BY <1>18, <2>1, BecomesType DEF EnqueuePostCall
<1>19. CASE PostCallLogs(c)
  <2> DEFINE logged == call.logged \/ call.named
  <2>1. logged \in BOOLEAN
    OBVIOUS
  <2> HIDE DEF logged
  <2>2. [call EXCEPT !.job = "logged", !.logged = logged] \in Call
    BY ZenonT(60), <1>1, <2>1 DEF Call
  <2> QED
    BY <1>19, <2>2, BecomesType DEF PostCallLogs, logged
<1>20. CASE PostCallSettles(c)
  <2>1. [call EXCEPT !.job = "done"] \in Call
    BY <1>1 DEF Call
  <2>2. \A cost \in Costs : Settled([call EXCEPT !.job = "done"], cost) \in Call
    BY <2>1, CallSessionAssumption, HelperTypes
  <2> QED
    BY <1>20, <2>1, <2>2, BecomesType DEF PostCallSettles
<1>21. CASE SettlementFails(c)
  <2>1. [call EXCEPT !.job = "done", !.faulty = TRUE] \in Call
    BY <1>1 DEF Call
  <2> QED
    BY <1>21, <2>1, BecomesType DEF SettlementFails, Bad
<1>22. CASE PostCallFails(c)
  <2>1. \A logged \in BOOLEAN, attempts \in Nat, job \in {"backoff", "dead"} :
          [call EXCEPT !.attempts = attempts, !.logged = logged, !.job = job] \in Call
    BY ZenonT(60), <1>1 DEF Call
  <2>2. call.attempts + 1 \in Nat
    BY <1>1 DEF Call
  <2> QED
    BY <1>22, <2>1, <2>2, BecomesType DEF PostCallFails
<1>23. CASE BackoffEnds(c)
  <2>1. [call EXCEPT !.job = "queued"] \in Call
    BY <1>1 DEF Call
  <2> QED
    BY <1>23, <2>1, BecomesType DEF BackoffEnds
<1>24. CASE HangUpLost(c)
  <2>1. [call EXCEPT !.hook = [r \in Reports |-> "done"], !.faulty = TRUE] \in Call
    BY <1>1 DEF Call
  <2> QED
    BY <1>24, <2>1, BecomesType DEF HangUpLost, Bad
<1> QED
  BY <1>2, <1>3, <1>4, <1>5, <1>6, <1>7, <1>8, <1>9, <1>10, <1>11, <1>12, <1>13, <1>14, <1>15, <1>16, <1>17, <1>18, <1>19, <1>20, <1>21, <1>22, <1>23, <1>24 DEF CallStep

LEMMA TypeReportStep ==
  ASSUME CallSessionTypeOK, NEW c \in Calls, NEW r \in Reports, ReportStep(c, r)
  PROVE  calls' \in [Calls -> Call]
<1> DEFINE call == calls[c]
<1>1. call \in Call /\ [call EXCEPT !.hook[r] = "done"] \in Call
  BY CallType, SetHook
<1>2. CASE HangUp(c, r)
  <2> DEFINE context == call.context \/ Routed(call)
             route == IF Routed(call) THEN "ended" ELSE call.route
             seen == [call EXCEPT !.owner = TRUE, !.context = context, !.route = route]
  <2>1. context \in BOOLEAN /\ route \in {"none", "starting", "active", "ended", "failed"}
    BY <1>1 DEF Call
  <2> HIDE DEF context, route
  <2>2. seen \in Call
    BY ZenonT(60), <1>1, <2>1 DEF Call
  <2> HIDE DEF seen
  <2>3. Reported(seen, r, "waiting") \in Call
    BY <2>2, ReportedType
  <2> QED
    BY <1>2, <2>3, BecomesType DEF HangUp, seen, context, route
<1>3. CASE AskAgain(c, r)
  BY <1>1, <1>3, ReportedType, BecomesType DEF AskAgain
<1>4. CASE PollFinds(c, r)
  BY <1>1, <1>4, BecomesType DEF PollFinds
<1>5. CASE PollExpires(c, r)
  <2> DEFINE at == IF call.claimed THEN "done" ELSE "saving"
             claimed == Routed(call)
             faulty == call.faulty \/ ~ Nothing(c)
             base == [call EXCEPT !.hook[r] = at]
  <2>1. at \in {"done", "saving"} /\ claimed \in BOOLEAN /\ faulty \in BOOLEAN
        /\ call.context \in BOOLEAN
    BY <1>1 DEF Call, Routed
  <2> HIDE DEF at, claimed, faulty
  <2>2. base \in Call
    BY <1>1, <2>1, SetHook
  <2>3. [base.known EXCEPT ![r] = call.context] \in [Reports -> BOOLEAN]
    BY <2>1, <2>2 DEF Call
  <2>4. [base EXCEPT !.claimed = claimed, !.known = [base.known EXCEPT ![r] = call.context],
                     !.faulty = faulty] \in Call
    <3> HIDE DEF base
    <3> QED
      BY <2>1, <2>2, <2>3 DEF Call
  <2>5. [call EXCEPT !.hook[r] = at, !.claimed = claimed, !.known[r] = call.context,
                     !.faulty = faulty] \in Call
    BY <1>1, <2>4 DEF Call
  <2> QED
    BY <1>5, <2>5, BecomesType DEF PollExpires, at, claimed, faulty
<1>6. CASE FallbackSaved(c, r)
  <2> DEFINE at == IF call.known[r] THEN "settling" ELSE "done"
             base == [call EXCEPT !.hook[r] = at]
  <2>1. at \in {"settling", "done"}
    OBVIOUS
  <2> HIDE DEF at
  <2>4. base \in Call
    BY <1>1, <2>1, SetHook
  <2>2. [base EXCEPT !.fallbacks = base.fallbacks + 1] \in Call
    <3> HIDE DEF base
    <3> QED
      BY <2>4 DEF Call
  <2>3. [call EXCEPT !.fallbacks = @ + 1, !.hook[r] = at] \in Call
    BY <1>1, <2>2 DEF Call
  <2> QED
    BY <1>6, <2>3, BecomesType DEF FallbackSaved, at
<1>7. CASE FallbackFails(c, r)
  <2> DEFINE base == [call EXCEPT !.hook[r] = "done"]
  <2>1. [base EXCEPT !.claimed = FALSE, !.faulty = TRUE] \in Call
    <3> HIDE DEF base
    <3> QED
      BY <1>1 DEF Call, base
  <2>2. Bad([call EXCEPT !.hook[r] = "done", !.claimed = FALSE]) \in Call
    BY <1>1, <2>1 DEF Call, Bad
  <2> QED
    BY <1>7, <2>2, BecomesType DEF FallbackFails
<1>8. CASE FallbackSettles(c, r)
  <2>1. \A cost \in Costs : Settled([call EXCEPT !.hook[r] = "done"], cost) \in Call
    BY <1>1, HelperTypes, CallSessionAssumption
  <2> QED
    BY <1>8, <2>1, BecomesType DEF FallbackSettles
<1>9. CASE FallbackUnsettled(c, r)
  BY <1>1, <1>9, HelperTypes, BecomesType DEF FallbackUnsettled
<1> QED
  BY <1>2, <1>3, <1>4, <1>5, <1>6, <1>7, <1>8, <1>9 DEF ReportStep

LEMMA TypeLost ==
  ASSUME NEW call \in Call
  PROVE  Lost(call) \in Call
<1> DEFINE dial == IF call.dial \in {"authorized", "asking", "accepted"} THEN "failed" ELSE call.dial
           session == IF call.session = "none" THEN call.session ELSE "gone"
           job == IF call.job \in {"queued", "backoff", "dead", "logged"} THEN "lost" ELSE call.job
           hook == [r \in Reports |-> IF call.hook[r] = "idle" THEN "idle" ELSE "done"]
           faulty == call.faulty \/ call.dial # "new"
<1>1. /\ dial \in {"new", "authorized", "asking", "accepted", "placed", "failed"}
      /\ session \in {"none", "open", "started", "closing", "gone"}
  BY DEF Call
<1>2. job \in {"none", "queued", "backoff", "dead", "logged", "done", "lost"}
  BY DEF Call
<1>3. /\ hook \in [Reports -> {"idle", "waiting", "polling", "saving", "settling", "done"}]
      /\ faulty \in BOOLEAN
  OBVIOUS
<1> HIDE DEF dial, session, job, hook, faulty
<1> DEFINE x == [call EXCEPT !.dial = dial, !.context = FALSE, !.owner = FALSE]
           y == [x EXCEPT !.session = session]
           z == [y EXCEPT !.job = job]
<1>4. x \in Call
  BY <1>1 DEF Call
<1>5. y \in Call
  <2> HIDE DEF x
  <2> QED
    BY <1>1, <1>4 DEF Call
<1>6. z \in Call
  <2> HIDE DEF y
  <2> QED
    BY <1>2, <1>5 DEF Call
<1>7. [z EXCEPT !.hook = hook, !.faulty = faulty] \in Call
  <2> HIDE DEF z
  <2> QED
    BY <1>3, <1>6 DEF Call
<1>8. [call EXCEPT !.dial = dial, !.context = FALSE, !.owner = FALSE, !.session = session,
                   !.job = job, !.hook = hook, !.faulty = faulty]
        = [z EXCEPT !.hook = hook, !.faulty = faulty]
  BY DEF Call
<1> QED
  BY <1>7, <1>8 DEF Lost, dial, session, job, hook, faulty

LEMMA Steps ==
  ASSUME CallSessionNext
  PROVE  \/ RechargeOrganization \/ SweepDeadLetters \/ Crash
         \/ \E c \in Calls : CallStep(c)
         \/ \E c \in Calls, r \in Reports : ReportStep(c, r)
  BY DEF CallSessionNext, CallStep, ReportStep

LEMMA LessType ==
  ASSUME NEW a \in Nat, NEW b \in Nat
  PROVE  Less(a, b) \in Nat /\ (a >= b => Less(a, b) = a - b)
  BY DEF Less

------------------------------------------------------------------------------
(* What a step does to the wallet and to the calls' reservations *)

(* The reservation of c stays, is made, or ends: it is released, or settled     *)
(* for what the call has cost. Other calls do not change.                   *)
KeepsHold(c) ==
  /\ calls'[c].hold = calls[c].hold /\ calls'[c].charged = calls[c].charged
  /\ wallet' = wallet

MakesHold(c) ==
  /\ calls[c].dial = "new" /\ calls'[c].hold = "reserved"
  /\ calls'[c].charged = calls[c].charged
  /\ Affordable
  /\ wallet'.reserved = wallet.reserved + Estimate /\ wallet'.balance = wallet.balance

EndsHold(c) ==
  /\ calls[c].hold = "reserved" /\ calls'[c].hold # "reserved"
  /\ wallet'.reserved = Less(wallet.reserved, Estimate)
  /\ \/ /\ calls'[c].hold = "released" /\ calls'[c].charged = calls[c].charged
        /\ wallet'.balance = wallet.balance
     \/ /\ calls'[c].hold = "settled" /\ calls'[c].charged \in Nat
        /\ wallet'.balance = Less(wallet.balance, calls'[c].charged)

HoldStep(c) ==
  /\ wallet' \in [balance : Nat, reserved : Nat]
  /\ \A d \in Calls \ {c} : calls'[d] = calls[d]
  /\ calls'[c].dial = "new" =>
       calls[c].dial = "new" /\ (calls'[c].hold = "reserved" => calls[c].hold = "reserved")
  /\ KeepsHold(c) \/ MakesHold(c) \/ EndsHold(c)

LEMMA ReleaseHold ==
  ASSUME CallSessionTypeOK, NEW c \in Calls, NEW seen \in Call, seen.hold = calls[c].hold,
         seen.charged = calls[c].charged, GivesUp(c, seen)
  PROVE  HoldStep(c)
<1>1. calls \in [Calls -> Call] /\ wallet \in [balance : Nat, reserved : Nat] /\ calls[c] \in Call
  BY DEF CallSessionTypeOK
<1>2. wallet' \in [balance : Nat, reserved : Nat]
  BY <1>1, LessType, CallSessionAssumption DEF GivesUp, ReleasedWallet
<1>3. calls' = [calls EXCEPT ![c] = [Released(seen) EXCEPT !.dial = "failed"]]
  BY DEF GivesUp, Becomes
<1>4. Released(seen) \in Call
  BY HelperTypes
<1>5. /\ calls'[c].dial = "failed" /\ calls'[c].hold = Released(seen).hold
      /\ calls'[c].charged = Released(seen).charged
  BY <1>1, <1>3, <1>4 DEF Call
<1>6. /\ IF seen.hold # "reserved" THEN Released(seen).hold = seen.hold
                                ELSE Released(seen).hold = "released"
      /\ Released(seen).charged = seen.charged
  BY DEF Released, Call
<1>7. \A d \in Calls \ {c} : calls'[d] = calls[d]
  BY <1>1, <1>3
<1>8. wallet' = IF seen.hold # "reserved" THEN wallet ELSE [wallet EXCEPT !.reserved = Less(@, Estimate)]
  BY DEF GivesUp, ReleasedWallet
<1> QED
  BY <1>1, <1>2, <1>5, <1>6, <1>7, <1>8 DEF HoldStep, KeepsHold, EndsHold

LEMMA SettleHold ==
  ASSUME CallSessionTypeOK, NEW c \in Calls, NEW seen \in Call,
         seen.hold = calls[c].hold, seen.dial = calls[c].dial,
         seen.charged = calls[c].charged,
         NEW cost \in Nat, Becomes(c, Settled(seen, cost)), wallet' = SettledWallet(seen, cost)
  PROVE  HoldStep(c)
<1>1. calls \in [Calls -> Call] /\ wallet \in [balance : Nat, reserved : Nat] /\ calls[c] \in Call
  BY DEF CallSessionTypeOK
<1>2. wallet' \in [balance : Nat, reserved : Nat]
  BY <1>1, LessType, CallSessionAssumption DEF SettledWallet
<1>3. calls' = [calls EXCEPT ![c] = Settled(seen, cost)]
  BY DEF Becomes
<1>5. calls'[c] = Settled(seen, cost)
  BY <1>1, <1>3
<1>6. /\ seen.hold # "reserved" => Settled(seen, cost) = seen
      /\ seen.hold = "reserved" =>
           /\ Settled(seen, cost).hold = "settled" /\ Settled(seen, cost).dial = seen.dial
           /\ Settled(seen, cost).charged = cost
  BY DEF Settled, Call
<1>7. \A d \in Calls \ {c} : calls'[d] = calls[d]
  BY <1>1, <1>3
<1>8. /\ seen.hold # "reserved" => wallet' = wallet
      /\ seen.hold = "reserved" => /\ wallet'.reserved = Less(wallet.reserved, Estimate)
                                    /\ wallet'.balance = Less(wallet.balance, cost)
  BY DEF SettledWallet
<1>9. CASE seen.hold # "reserved"
  <2>1. calls'[c] = seen /\ wallet' = wallet
    BY <1>5, <1>6, <1>8, <1>9
  <2> QED
    BY <1>2, <1>7, <2>1 DEF HoldStep, KeepsHold
<1>10. CASE seen.hold = "reserved"
  <2>1. /\ calls'[c].hold = "settled" /\ calls'[c].dial = calls[c].dial
        /\ calls'[c].charged = cost
    BY <1>5, <1>6, <1>10
  <2>2. EndsHold(c)
    BY <1>8, <1>10, <2>1 DEF EndsHold
  <2> QED
    BY <1>2, <1>7, <2>1, <2>2 DEF HoldStep
<1> QED
  BY <1>9, <1>10

LEMMA SameHold ==
  ASSUME CallSessionTypeOK, NEW c \in Calls, NEW call, Becomes(c, call), UNCHANGED wallet,
         call.hold = calls[c].hold, call.charged = calls[c].charged,
         call.dial = "new" => calls[c].dial = "new"
  PROVE  HoldStep(c)
  BY DEF CallSessionTypeOK, Becomes, HoldStep, KeepsHold

LEMMA RefusedHold ==
  ASSUME NEW call \in Call
  PROVE  /\ Refused(call) \in Call /\ Refused(call).hold = call.hold
         /\ Refused(call).charged = call.charged
<1>1. Refused(call) \in Call
  BY HelperTypes
<1> DEFINE route == IF Routed(call) THEN "failed" ELSE call.route
<1>2. Refused(call) = [call EXCEPT !.route = route]
  BY DEF Refused
<1> HIDE DEF route
<1>3. [call EXCEPT !.route = route].hold = call.hold /\ [call EXCEPT !.route = route].charged = call.charged
  BY DEF Call
<1> QED
  BY <1>1, <1>2, <1>3

LEMMA HoldCallStep ==
  ASSUME CallSessionTypeOK, NEW c \in Calls, CallStep(c)
  PROVE  HoldStep(c)
<1> DEFINE call == calls[c]
<1>1. calls \in [Calls -> Call] /\ wallet \in [balance : Nat, reserved : Nat] /\ call \in Call
  BY DEF CallSessionTypeOK
<1>2. CASE AuthorizeOutboundCall(c)
  <2>1. CASE Affordable
    <3>1. wallet' = [wallet EXCEPT !.reserved = @ + Estimate]
      BY <1>2, <2>1 DEF AuthorizeOutboundCall
    <3>2. /\ wallet' \in [balance : Nat, reserved : Nat]
          /\ wallet'.reserved = wallet.reserved + Estimate /\ wallet'.balance = wallet.balance
      BY <1>1, <3>1, CallSessionAssumption
    <3>3. calls' = [calls EXCEPT ![c] = [call EXCEPT !.dial = "authorized", !.hold = "reserved"]]
      BY <1>2, <2>1 DEF AuthorizeOutboundCall, Becomes
    <3>4. /\ calls'[c].hold = "reserved" /\ calls'[c].dial = "authorized"
          /\ calls'[c].charged = call.charged
          /\ \A d \in Calls \ {c} : calls'[d] = calls[d]
      BY <1>1, <3>3 DEF Call
    <3> QED
      BY <1>2, <2>1, <3>2, <3>4 DEF HoldStep, MakesHold, AuthorizeOutboundCall
  <2>2. CASE ~ Affordable
    BY <1>1, <1>2, <2>2 DEF AuthorizeOutboundCall, Becomes, HoldStep, KeepsHold, Call
  <2> QED
    BY <2>1, <2>2
<1>3. CASE NoRoute(c)
  BY <1>1, <1>3, ReleaseHold DEF NoRoute
<1>4. CASE ProviderRefuses(c)
  <2>1. /\ Refused(call) \in Call /\ Refused(call).hold = call.hold
        /\ Refused(call).charged = call.charged
    BY <1>1, RefusedHold
  <2>2. GivesUp(c, Refused(call)) /\ call.dial = "asking"
    BY <1>4 DEF ProviderRefuses
  <2> QED
    BY <2>1, <2>2, ReleaseHold
<1>5. CASE AnswerLost(c)
  <2> DEFINE seen == Bad(IF call.route = "ended" THEN call ELSE Refused(call))
  <2>1. /\ Refused(call) \in Call /\ Refused(call).hold = call.hold
        /\ Refused(call).charged = call.charged
    BY <1>1, RefusedHold
  <2>2. seen \in Call
    BY <1>1, <2>1, HelperTypes
  <2>3. seen.hold = call.hold /\ seen.charged = call.charged
    BY <1>1, <2>1 DEF Bad, Call
  <2>4. GivesUp(c, seen) /\ call.dial = "asking"
    BY <1>5 DEF AnswerLost
  <2> HIDE DEF seen
  <2> QED
    BY <2>2, <2>3, <2>4, ReleaseHold
<1>6. CASE PostCallSettles(c)
  <2> DEFINE seen == [call EXCEPT !.job = "done"]
  <2>1. /\ seen \in Call /\ seen.hold = call.hold /\ seen.dial = call.dial
        /\ seen.charged = call.charged
    BY ZenonT(60), <1>1 DEF Call
  <2>2. CASE call.taken
    BY <1>6, <2>1, <2>2, SettleHold, CallSessionAssumption DEF PostCallSettles
  <2>3. CASE ~ call.taken
    BY <1>1, <1>6, <2>1, <2>3 DEF PostCallSettles, Becomes, HoldStep, KeepsHold
  <2> QED
    BY <2>2, <2>3
<1>7. CASE Ask(c)
  BY <1>1, <1>7, SameHold DEF Ask, Call
<1>8. CASE ProviderAccepts(c)
  BY <1>1, <1>8, SameHold DEF ProviderAccepts, Call
<1>9. CASE ReleaseFails(c)
  BY <1>1, <1>9, SameHold DEF ReleaseFails, Refused, Bad, Call
<1>10. CASE AnswerArrives(c)
  BY <1>1, <1>10, SameHold DEF AnswerArrives, Call
<1>11. CASE Remember(c)
  BY <1>1, <1>11, SameHold DEF Remember, Activated, Call
<1>12. CASE AttachFails(c)
  BY <1>1, <1>12, SameHold DEF AttachFails, Bad, Call
<1>13. CASE PicksUp(c)
  BY ZenonT(60), <1>1, <1>13, SameHold DEF PicksUp, Activated, Call
<1>14. CASE PhoneEnds(c)
  BY <1>1, <1>14, SameHold DEF PhoneEnds, Call
<1>15. CASE StreamOpens(c)
  BY <1>1, <1>15, SameHold DEF StreamOpens, Call
<1>16. CASE StreamStarts(c)
  BY <1>1, <1>16, SameHold DEF StreamStarts, Call
<1>17. CASE CachesExpire(c)
  BY <1>1, <1>17, SameHold DEF CachesExpire, Bad, Call
<1>18. CASE StreamEnds(c)
  BY <1>1, <1>18, SameHold DEF StreamEnds, Finalized, Call
<1>19. CASE EnqueuePostCall(c)
  BY <1>1, <1>19, SameHold DEF EnqueuePostCall, Call
<1>20. CASE PostCallLogs(c)
  BY <1>1, <1>20, SameHold DEF PostCallLogs, Call
<1>21. CASE SettlementFails(c)
  BY <1>1, <1>21, SameHold DEF SettlementFails, Bad, Call
<1>22. CASE PostCallFails(c)
  BY <1>1, <1>22, SameHold DEF PostCallFails, Call
<1>23. CASE BackoffEnds(c)
  BY <1>1, <1>23, SameHold DEF BackoffEnds, Call
<1>24. CASE HangUpLost(c)
  BY <1>1, <1>24, SameHold DEF HangUpLost, Bad, Call
<1> QED
  BY <1>2, <1>3, <1>4, <1>5, <1>6, <1>7, <1>8, <1>9, <1>10, <1>11, <1>12, <1>13, <1>14, <1>15, <1>16, <1>17, <1>18, <1>19, <1>20, <1>21, <1>22, <1>23, <1>24 DEF CallStep

LEMMA HoldReportStep ==
  ASSUME CallSessionTypeOK, NEW c \in Calls, NEW r \in Reports, ReportStep(c, r)
  PROVE  HoldStep(c)
<1> DEFINE call == calls[c]
<1>1. call \in Call /\ [call EXCEPT !.hook[r] = "done"] \in Call
  BY CallType, SetHook
<1>2. CASE HangUp(c, r)
  <2> DEFINE seen == [call EXCEPT !.owner = TRUE, !.context = @ \/ Routed(call),
                                  !.route = IF Routed(call) THEN "ended" ELSE @]
  <2>1. seen.hold = call.hold /\ seen.dial = call.dial /\ seen.charged = call.charged
    BY <1>1 DEF Call
  <2>2. DOMAIN seen = DOMAIN call /\ {"hold", "charged", "dial", "hook"} \subseteq DOMAIN call
    BY <1>1 DEF Call
  <2> HIDE DEF seen
  <2>3. Reported(seen, r, "waiting").hold = call.hold
        /\ Reported(seen, r, "waiting").dial = call.dial
        /\ Reported(seen, r, "waiting").charged = call.charged
    BY <2>1, <2>2 DEF Reported, Finalized
  <2> QED
    BY <1>2, <2>3, SameHold DEF HangUp, seen
<1>3. CASE AskAgain(c, r)
  <2>1. Reported(call, r, "polling").hold = call.hold
        /\ Reported(call, r, "polling").dial = call.dial
        /\ Reported(call, r, "polling").charged = call.charged
    BY <1>1 DEF Reported, Finalized, Call
  <2> QED
    BY <1>3, <2>1, SameHold DEF AskAgain
<1>4. CASE PollFinds(c, r)
  BY <1>1, <1>4, SameHold DEF PollFinds, Call
<1>5. CASE PollExpires(c, r)
  <2> DEFINE new == [call EXCEPT !.hook[r] = IF call.claimed THEN "done" ELSE "saving",
                             !.claimed = Routed(call), !.known[r] = call.context,
                             !.faulty = @ \/ ~ Nothing(c)]
  <2>1. new.hold = call.hold /\ new.dial = call.dial /\ new.charged = call.charged
    BY <1>1 DEF Call
  <2> QED
    BY <1>5, <2>1, SameHold DEF PollExpires
<1>6. CASE FallbackSaved(c, r)
  <2> DEFINE new == [call EXCEPT !.fallbacks = @ + 1,
                   !.hook[r] = IF call.known[r] THEN "settling" ELSE "done"]
  <2>1. new.hold = call.hold /\ new.dial = call.dial /\ new.charged = call.charged
    BY <1>1 DEF Call
  <2> QED
    BY <1>6, <2>1, SameHold DEF FallbackSaved
<1>7. CASE FallbackFails(c, r)
  <2> DEFINE new == [call EXCEPT !.hook[r] = "done", !.claimed = FALSE]
  <2>1. /\ Bad(new).hold = call.hold /\ Bad(new).dial = call.dial
        /\ Bad(new).charged = call.charged
    BY <1>1 DEF Call, Bad
  <2> QED
    BY <1>7, <2>1, SameHold DEF FallbackFails
<1>8. CASE FallbackSettles(c, r)
  <2> DEFINE seen == [call EXCEPT !.hook[r] = "done"]
  <2>1. /\ seen.hold = call.hold /\ seen.dial = call.dial /\ seen \in Call
        /\ seen.charged = call.charged
    BY <1>1 DEF Call
  <2>2. PICK cost \in Costs : Becomes(c, Settled(seen, cost)) /\ wallet' = SettledWallet(seen, cost)
    BY <1>8 DEF FallbackSettles
  <2>3. cost \in Nat
    BY CallSessionAssumption
  <2> HIDE DEF seen
  <2> QED
    BY <2>1, <2>2, <2>3, SettleHold
<1>9. CASE FallbackUnsettled(c, r)
  <2> DEFINE seen == [call EXCEPT !.hook[r] = "done"]
  <2>1. /\ Bad(seen).hold = call.hold /\ Bad(seen).dial = call.dial
        /\ Bad(seen).charged = call.charged
    BY <1>1 DEF Call, Bad
  <2> QED
    BY <1>9, <2>1, SameHold DEF FallbackUnsettled
<1> QED
  BY <1>2, <1>3, <1>4, <1>5, <1>6, <1>7, <1>8, <1>9 DEF ReportStep

------------------------------------------------------------------------------
(* Types *)

LEMMA TypeInit == CallSessionInit => CallSessionTypeOK
<1>1. NewCall \in Call
  BY DEF NewCall, Call
<1> QED
  BY <1>1, CallSessionAssumption DEF CallSessionInit, CallSessionTypeOK

LEMMA TypeSweep ==
  ASSUME CallSessionTypeOK, SweepDeadLetters
  PROVE  calls' \in [Calls -> Call]
<1>1. ASSUME NEW c \in Calls
      PROVE  [calls[c] EXCEPT !.job = "queued", !.attempts = 0] \in Call
  <2>1. calls[c] \in Call
    BY CallType
  <2> QED
    BY <2>1 DEF Call
<1> QED
  BY <1>1, CallType DEF SweepDeadLetters

LEMMA TypeNext == CallSessionTypeOK /\ [CallSessionNext]_vars => CallSessionTypeOK'
<1> SUFFICES ASSUME CallSessionTypeOK, [CallSessionNext]_vars
             PROVE  CallSessionTypeOK'
  OBVIOUS
<1>1. calls \in [Calls -> Call] /\ wallet \in [balance : Nat, reserved : Nat]
      /\ recharges \in Nat /\ errors \in Nat /\ faults \in Nat
  BY DEF CallSessionTypeOK
<1>2. ASSUME CallSessionNext
      PROVE  calls' \in [Calls -> Call] /\ wallet' \in [balance : Nat, reserved : Nat]
  <2>1. CASE RechargeOrganization
    BY <1>1, <2>1, CallSessionAssumption DEF RechargeOrganization
  <2>2. CASE SweepDeadLetters
    BY <1>1, <2>2, TypeSweep DEF SweepDeadLetters
  <2>3. CASE Crash
    BY <1>1, <2>3, TypeLost DEF Crash
  <2>4. CASE \E c \in Calls : CallStep(c)
    BY <2>4, TypeCallStep, HoldCallStep DEF HoldStep
  <2>5. CASE \E c \in Calls, r \in Reports : ReportStep(c, r)
    BY <2>5, TypeReportStep, HoldReportStep DEF HoldStep
  <2> QED
    BY <1>2, <2>1, <2>2, <2>3, <2>4, <2>5, Steps
<1>3. ASSUME CallSessionNext
      PROVE  recharges' \in Nat /\ errors' \in Nat /\ faults' \in Nat
  <2>1. CASE RechargeOrganization
    BY <1>1, <2>1 DEF RechargeOrganization
  <2>4. CASE SweepDeadLetters
    BY <1>1, <2>4, Zenon DEF SweepDeadLetters
  <2>5. CASE Crash
    <3>1. Fault /\ UNCHANGED <<recharges, errors>>
      BY <2>5, Zenon DEF Crash
    <3> QED
      BY <1>1, <3>1 DEF Fault
  <2>2. ASSUME NEW c \in Calls, CallStep(c)
        PROVE  recharges' \in Nat /\ errors' \in Nat /\ faults' \in Nat
    <3>1. recharges' = recharges /\ errors' \in {errors, errors + 1}
          /\ (faults' = faults \/ Fault)
      BY <2>2, Zenon DEF CallStep, AuthorizeOutboundCall, Ask, NoRoute, ProviderAccepts,
         ProviderRefuses, ReleaseFails, AnswerLost, AnswerArrives, Remember, AttachFails, PicksUp,
         PhoneEnds, StreamOpens, StreamStarts, CachesExpire, StreamEnds, EnqueuePostCall,
         PostCallLogs, PostCallSettles, SettlementFails, PostCallFails, BackoffEnds, HangUpLost
    <3> QED
      BY <1>1, <3>1 DEF Fault
  <2>3. ASSUME NEW c \in Calls, NEW r \in Reports, ReportStep(c, r)
        PROVE  recharges' \in Nat /\ errors' \in Nat /\ faults' \in Nat
    BY <1>1, <2>3 DEF ReportStep, HangUp, AskAgain, PollFinds, PollExpires, FallbackSaved,
       FallbackFails, FallbackSettles, FallbackUnsettled, Fault
  <2> QED
    BY <1>3, <2>1, <2>2, <2>3, <2>4, <2>5, Steps
<1> QED
  BY <1>1, <1>2, <1>3 DEF CallSessionTypeOK, vars

(* Every variable keeps its type: in particular a wallet's balance and its      *)
(* reserved amount never fall below zero.                                   *)
THEOREM SpecTypeOK == CallSessionSpec => []CallSessionTypeOK
  BY TypeInit, TypeNext, PTL DEF CallSessionSpec

------------------------------------------------------------------------------
(* What is reserved is what the open reservations were made for *)

(* A call that has not been authorized has no reservation. *)
HoldInv ==
  /\ CallSessionTypeOK
  /\ ReservedMatchesCalls
  /\ \A c \in Calls : calls[c].dial = "new" => calls[c].hold # "reserved"

LEMMA HeldIsFinite == IsFiniteSet(Held) /\ Cardinality(Held) \in Nat
  BY CallSessionAssumption, FS_Subset, FS_CardinalityType DEF Held

LEMMA HoldInit == CallSessionInit => HoldInv
<1> SUFFICES ASSUME CallSessionInit PROVE HoldInv
  OBVIOUS
<1>1. Held = {}
  BY DEF CallSessionInit, NewCall, Held
<1>2. wallet.reserved = 0 /\ 0 * Estimate = 0
  BY CallSessionAssumption DEF CallSessionInit
<1> QED
  BY <1>1, <1>2, FS_EmptySet, TypeInit DEF CallSessionInit, NewCall, HoldInv, ReservedMatchesCalls

LEMMA OneMore ==
  ASSUME NEW n \in Nat, NEW e \in Nat
  PROVE  (n + 1) * e = n * e + e /\ n * e \in Nat
  OBVIOUS

LEMMA HoldPreserved ==
  ASSUME HoldInv, NEW c \in Calls, HoldStep(c), CallSessionTypeOK'
  PROVE  HoldInv'
<1>1. \A d \in Calls : calls'[d].dial = "new" => calls'[d].hold # "reserved"
  BY DEF HoldInv, HoldStep
<1>2. ReservedMatchesCalls'
  <2>1. wallet.reserved = Cardinality(Held) * Estimate /\ Cardinality(Held) \in Nat
        /\ IsFiniteSet(Held) /\ Estimate \in Nat
    BY HeldIsFinite, CallSessionAssumption DEF HoldInv, ReservedMatchesCalls
  <2>2. CASE KeepsHold(c)
    <3>1. Held' = Held
      BY <2>2 DEF KeepsHold, HoldStep, Held
    <3> QED
      BY <2>1, <2>2, <3>1 DEF KeepsHold, ReservedMatchesCalls
  <2>3. CASE MakesHold(c)
    <3>1. Held' = Held \cup {c} /\ c \notin Held
      BY <2>3 DEF MakesHold, HoldStep, HoldInv, Held
    <3>2. Cardinality(Held') = Cardinality(Held) + 1
      BY <2>1, <3>1, FS_AddElement
    <3> QED
      BY <2>1, <2>3, <3>2, OneMore DEF MakesHold, ReservedMatchesCalls
  <2>4. CASE EndsHold(c)
    <3>1. Held' = Held \ {c} /\ c \in Held
      BY <2>4 DEF EndsHold, HoldStep, Held
    <3>2. Cardinality(Held') = Cardinality(Held) - 1 /\ Cardinality(Held) - 1 \in Nat
      <4>1. Cardinality(Held \ {c}) = Cardinality(Held) - 1
        BY <2>1, <3>1, FS_RemoveElement
      <4>2. IsFiniteSet(Held \ {c})
        BY <2>1, FS_Subset
      <4> QED
        BY <3>1, <4>1, <4>2, FS_CardinalityType
    <3>3. wallet.reserved = (Cardinality(Held) - 1) * Estimate + Estimate
          /\ (Cardinality(Held) - 1) * Estimate \in Nat
      BY <2>1, <3>2, OneMore
    <3>4. Less(wallet.reserved, Estimate) = (Cardinality(Held) - 1) * Estimate
      BY <2>1, <3>3, LessType
    <3> QED
      BY <2>4, <3>2, <3>4 DEF EndsHold, ReservedMatchesCalls
  <2> QED
    BY <2>2, <2>3, <2>4 DEF HoldStep
<1> QED
  BY <1>1, <1>2 DEF HoldInv

LEMMA HoldNext == HoldInv /\ [CallSessionNext]_vars => HoldInv'
<1> SUFFICES ASSUME HoldInv, [CallSessionNext]_vars
             PROVE  HoldInv'
  OBVIOUS
<1>1. CallSessionTypeOK /\ CallSessionTypeOK'
  BY TypeNext DEF HoldInv
<1>2. ASSUME wallet'.reserved = wallet.reserved,
             \A c \in Calls : /\ calls'[c].hold = calls[c].hold
                              /\ calls'[c].dial = "new" => calls[c].dial = "new"
      PROVE  HoldInv'
  <2>1. Held' = Held
    BY <1>2 DEF Held
  <2> QED
    BY <1>1, <1>2, <2>1 DEF HoldInv, ReservedMatchesCalls
<1>3. CASE RechargeOrganization
  BY <1>1, <1>2, <1>3 DEF RechargeOrganization, CallSessionTypeOK
<1>4. CASE SweepDeadLetters
  <2>1. ASSUME NEW c \in Calls
        PROVE  calls'[c].hold = calls[c].hold /\ calls'[c].dial = calls[c].dial
    <3>1. calls[c] \in Call
      BY <1>1, CallType
    <3> QED
      BY <1>4, <3>1 DEF SweepDeadLetters, Call
  <2>2. wallet' = wallet
    BY <1>4 DEF SweepDeadLetters
  <2> QED
    BY <1>2, <2>1, <2>2
<1>5. CASE Crash
  <2>1. \A c \in Calls : calls'[c] = Lost(calls[c])
    BY <1>5 DEF Crash
  <2>2. \A call \in Call : Lost(call).hold = call.hold /\ (Lost(call).dial = "new" => call.dial = "new")
    BY DEF Lost, Call
  <2> QED
    BY <1>1, <1>2, <1>5, <2>1, <2>2, CallType DEF Crash
<1>6. CASE UNCHANGED vars
  BY <1>2, <1>6 DEF vars
<1>7. ASSUME NEW c \in Calls, CallStep(c) \/ \E r \in Reports : ReportStep(c, r)
      PROVE  HoldInv'
  BY <1>1, <1>7, HoldCallStep, HoldReportStep, HoldPreserved
<1> QED
  BY <1>3, <1>4, <1>5, <1>6, <1>7, Steps

(* What the organization has reserved is always what its open reservations     *)
(* were made for.                                                          *)
THEOREM SpecReservedMatchesCalls == CallSessionSpec => []ReservedMatchesCalls
<1>1. HoldInv => ReservedMatchesCalls
  BY DEF HoldInv
<1> QED
  BY <1>1, HoldInit, HoldNext, PTL DEF CallSessionSpec

------------------------------------------------------------------------------
(* What the calls were charged, and what is reserved for the others *)

Charges == [c \in Calls |-> calls[c].charged]
Excess == [c \in Calls |-> Less(calls[c].charged, Estimate)]

(* The two sums are over all calls, and are natural numbers.                *)
LEMMA SumsOfCharges ==
  ASSUME CallSessionTypeOK
  PROVE  /\ Charged(Calls) = SumFunctionOnSet(Charges, Calls)
         /\ Overrun(Calls) = SumFunctionOnSet(Excess, Calls)
         /\ Charged(Calls) \in Nat /\ Overrun(Calls) \in Nat
         /\ \A c \in Calls : Charges[c] \in Nat /\ Excess[c] \in Nat
<1>1. Charged(Calls) = SumFunctionOnSet(Charges, Calls)
  BY DEF Charged, SumFunction, Charges
<1>2. Overrun(Calls) = SumFunctionOnSet(Excess, Calls)
  BY DEF Overrun, SumFunction, Excess
<1>3. \A c \in Calls : Charges[c] \in Nat /\ Excess[c] \in Nat
  <2>1. ASSUME NEW c \in Calls PROVE calls[c].charged \in Nat /\ Estimate \in Nat
    BY CallType, CallSessionAssumption DEF Call
  <2> QED
    BY <2>1, LessType DEF Charges, Excess
<1>4. IsFiniteSet(Calls)
  BY CallSessionAssumption
<1> QED
  BY <1>1, <1>2, <1>3, <1>4, SumNat

(* One call's charge changes.                                               *)
LEMMA ChargeOfOne ==
  ASSUME CallSessionTypeOK, CallSessionTypeOK', NEW c \in Calls,
         \A d \in Calls \ {c} : calls'[d] = calls[d]
  PROVE  /\ Charged(Calls)' = Charged(Calls) - calls[c].charged + calls'[c].charged
         /\ Overrun(Calls)' = Overrun(Calls) - Less(calls[c].charged, Estimate)
                                             + Less(calls'[c].charged, Estimate)
<1> DEFINE f == Charges
           g == Charges'
           h == Excess
           k == Excess'
<1>1. /\ Charged(Calls) = SumFunctionOnSet(f, Calls)
      /\ Overrun(Calls) = SumFunctionOnSet(h, Calls)
      /\ \A d \in Calls : f[d] \in Int /\ h[d] \in Int
  BY SumsOfCharges
<1>2. /\ Charged(Calls)' = SumFunctionOnSet(g, Calls)
      /\ Overrun(Calls)' = SumFunctionOnSet(k, Calls)
      /\ \A d \in Calls : g[d] \in Int /\ k[d] \in Int
  <2>1. /\ Charged(Calls)' = SumFunctionOnSet(Charges', Calls)
        /\ Overrun(Calls)' = SumFunctionOnSet(Excess', Calls)
    BY DEF Charged, Overrun, SumFunction, Charges, Excess
  <2>2. ASSUME NEW d \in Calls PROVE Charges'[d] \in Int /\ Excess'[d] \in Int
    <3>1. calls'[d].charged \in Nat /\ Estimate \in Nat
      BY CallSessionAssumption DEF CallSessionTypeOK, Call
    <3>2. Less(calls'[d].charged, Estimate) \in Int
      BY <3>1 DEF Less
    <3>3. /\ Charges'[d] = calls'[d].charged
          /\ Excess'[d] = Less(calls'[d].charged, Estimate)
      BY DEF Charges, Excess
    <3> QED
      BY <3>1, <3>2, <3>3
  <2> QED
    BY <2>1, <2>2
<1>3. /\ \A d \in Calls \ {c} : g[d] = f[d] /\ k[d] = h[d]
      /\ f[c] = calls[c].charged /\ g[c] = calls'[c].charged
      /\ h[c] = Less(calls[c].charged, Estimate) /\ k[c] = Less(calls'[c].charged, Estimate)
  BY DEF Charges, Excess
<1>4. IsFiniteSet(Calls)
  BY CallSessionAssumption
<1> HIDE DEF f, g, h, k
<1>5. SumFunctionOnSet(g, Calls) = SumFunctionOnSet(f, Calls) - f[c] + g[c]
  BY <1>1, <1>2, <1>3, <1>4, SumChanged
<1>6. SumFunctionOnSet(k, Calls) = SumFunctionOnSet(h, Calls) - h[c] + k[c]
  BY <1>1, <1>2, <1>3, <1>4, SumChanged
<1> QED
  BY <1>1, <1>2, <1>3, <1>5, <1>6

(* A call is charged when its reservation is settled, and then only.        *)
MoneyInv ==
  /\ ChargedOncePerCall
  /\ ReservedIsBacked
  /\ \A c \in Calls :
       calls[c].hold # "settled" \/ calls[c].dial = "new" => calls[c].charged = 0

(* A step of one call that charges it at most once keeps the accounts.       *)
LEMMA MoneyPreserved ==
  ASSUME HoldInv, CallSessionTypeOK', MoneyInv, NEW c \in Calls, HoldStep(c),
         UNCHANGED recharges
  PROVE  MoneyInv'
<1>0. CallSessionTypeOK /\ IsFiniteSet(Calls)
  BY CallSessionAssumption DEF HoldInv
<1>1. \A d \in Calls \ {c} : calls'[d] = calls[d]
  BY DEF HoldStep
<1> DEFINE charged == Charged(Calls)
           overrun == Overrun(Calls)
           old == calls[c].charged
           new == calls'[c].charged
           balance == wallet.balance
           reserved == wallet.reserved
           paid == InitialBalance + recharges * RechargeAmount
<1>2. /\ Charged(Calls)' = charged - old + new
      /\ Overrun(Calls)' = overrun - Less(old, Estimate) + Less(new, Estimate)
      /\ charged \in Nat /\ overrun \in Nat
  BY <1>0, <1>1, ChargeOfOne, SumsOfCharges
<1>3. /\ old \in Nat /\ new \in Nat /\ Estimate \in Nat
      /\ balance \in Nat /\ reserved \in Nat
      /\ wallet'.balance \in Nat /\ wallet'.reserved \in Nat
      /\ InitialBalance \in Nat
  BY <1>0, CallSessionAssumption DEF CallSessionTypeOK, Call
<1>4. paid \in Nat /\ paid >= InitialBalance
  <2>1. recharges \in Nat /\ RechargeAmount \in Nat
    BY <1>0, CallSessionAssumption DEF CallSessionTypeOK
  <2>2. recharges * RechargeAmount \in Nat
    BY <2>1
  <2> HIDE <2>1
  <2> QED
    BY <1>3, <2>2
<1>5. /\ charged <= InitialBalance => balance + charged = paid
      /\ reserved <= balance + overrun
      /\ calls[c].hold # "settled" \/ calls[c].dial = "new" => old = 0
  BY DEF MoneyInv, ChargedOncePerCall, ReservedIsBacked
<1>6. ASSUME Charged(Calls)' <= InitialBalance => wallet'.balance + Charged(Calls)' = paid,
             wallet'.reserved <= wallet'.balance + Overrun(Calls)',
             calls'[c].hold # "settled" \/ calls'[c].dial = "new" => new = 0
      PROVE  MoneyInv'
  <2>1. ChargedOncePerCall'
    BY <1>6 DEF ChargedOncePerCall
  <2>2. ReservedIsBacked'
    BY <1>6 DEF ReservedIsBacked
  <2>3. \A d \in Calls : calls'[d].hold # "settled" \/ calls'[d].dial = "new"
                            => calls'[d].charged = 0
    BY <1>1, <1>6 DEF MoneyInv
  <2> QED
    BY <2>1, <2>2, <2>3 DEF MoneyInv
<1>10. calls'[c].dial = "new" => calls[c].dial = "new"
  BY DEF HoldStep
<1>7. CASE KeepsHold(c)
  <2>1. wallet' = wallet /\ new = old /\ calls'[c].hold = calls[c].hold
    BY <1>7 DEF KeepsHold
  <2>2. Charged(Calls)' = charged /\ Overrun(Calls)' = overrun
    <3>1. Less(old, Estimate) \in Nat
      BY <1>3, LessType
    <3> HIDE DEF charged, overrun, old, new
    <3> QED
      BY <1>2, <1>3, <2>1, <3>1
  <2> QED
    BY <1>5, <1>6, <1>10, <2>1, <2>2
<1>8. CASE MakesHold(c)
  <2>1. /\ wallet'.balance = balance /\ wallet'.reserved = reserved + Estimate
        /\ new = old /\ calls'[c].hold = "reserved" /\ Affordable
        /\ calls[c].hold # "reserved" /\ calls[c].dial = "new"
    BY <1>8 DEF MakesHold, HoldInv
  <2>2. Charged(Calls)' = charged /\ Overrun(Calls)' = overrun
    <3>1. Less(old, Estimate) \in Nat
      BY <1>3, LessType
    <3> HIDE DEF charged, overrun, old, new
    <3> QED
      BY <1>2, <1>3, <2>1, <3>1
  <2>3. reserved + Estimate <= balance
    BY <1>3, <2>1, CallSessionAssumption DEF Affordable
  <2>4. wallet'.reserved <= wallet'.balance + Overrun(Calls)'
    <3> HIDE DEF overrun, balance, reserved
    <3> QED
      BY <1>2, <1>3, <2>1, <2>2, <2>3
  <2>5. Charged(Calls)' <= InitialBalance => wallet'.balance + Charged(Calls)' = paid
    BY <1>5, <2>1, <2>2
  <2>6. new = 0
    BY <1>5, <2>1
  <2> HIDE DEF paid, new
  <2> QED
    BY <1>6, <2>4, <2>5, <2>6
<1>9. CASE EndsHold(c)
  <2>1. /\ wallet'.reserved = Less(reserved, Estimate) /\ calls[c].hold = "reserved"
        /\ old = 0 /\ calls'[c].dial # "new"
    BY <1>5, <1>9, <1>10 DEF EndsHold, HoldInv
  <2>2. CASE /\ calls'[c].hold = "released" /\ new = old /\ wallet'.balance = balance
    <3>1. Charged(Calls)' = charged /\ Overrun(Calls)' = overrun
      <4>1. Less(old, Estimate) \in Nat
        BY <1>3, LessType
      <4> HIDE DEF charged, overrun, old, new
      <4> QED
        BY <1>2, <1>3, <2>2, <4>1
    <3>2. wallet'.reserved <= wallet'.balance + Overrun(Calls)'
      <4> HIDE DEF overrun, balance, reserved
      <4> QED
        BY <1>2, <1>3, <1>5, <2>1, <2>2, <3>1 DEF Less
    <3> QED
      BY <1>5, <1>6, <2>1, <2>2, <3>1, <3>2
  <2>3. CASE /\ calls'[c].hold = "settled" /\ wallet'.balance = Less(balance, new)
    <3> HIDE DEF charged, overrun, old, new, balance, reserved, paid
    <3>1. /\ Charged(Calls)' = charged + new
          /\ Overrun(Calls)' = overrun + Less(new, Estimate)
      BY <1>2, <1>3, <2>1 DEF Less
    <3>2. Charged(Calls)' <= InitialBalance => wallet'.balance + Charged(Calls)' = paid
      BY <1>2, <1>3, <1>4, <1>5, <2>3, <3>1 DEF Less
    <3>3. wallet'.reserved <= wallet'.balance + Overrun(Calls)'
      BY <1>2, <1>3, <1>5, <2>1, <2>3, <3>1 DEF Less
    <3> QED
      BY <1>6, <2>1, <2>3, <3>2, <3>3
  <2> QED
    BY <1>9, <2>2, <2>3 DEF EndsHold
<1> QED
  BY <1>7, <1>8, <1>9 DEF HoldStep

(* Only a recharge counts as one.                                           *)
LEMMA NoRecharge ==
  ASSUME NEW c \in Calls
  PROVE  /\ CallStep(c) => UNCHANGED recharges
         /\ \A r \in Reports : ReportStep(c, r) => UNCHANGED recharges
<1>1. CallStep(c) => UNCHANGED recharges
  BY DEF CallStep, AuthorizeOutboundCall, Ask, NoRoute, ProviderAccepts, ProviderRefuses,
         ReleaseFails, AnswerLost, AnswerArrives, Remember, AttachFails, PicksUp,
         PhoneEnds, StreamOpens, StreamStarts, CachesExpire, StreamEnds, EnqueuePostCall,
         PostCallLogs, PostCallSettles, SettlementFails, PostCallFails, BackoffEnds,
         HangUpLost
<1>2. ASSUME NEW r \in Reports, ReportStep(c, r) PROVE UNCHANGED recharges
  BY <1>2 DEF ReportStep, HangUp, AskAgain, PollFinds, PollExpires, FallbackSaved,
              FallbackFails, FallbackSettles, FallbackUnsettled
<1> QED
  BY <1>1, <1>2

(* Nothing is charged at first.                                             *)
LEMMA MoneyInit == CallSessionInit => MoneyInv
<1> SUFFICES ASSUME CallSessionInit PROVE MoneyInv
  OBVIOUS
<1>1. /\ CallSessionTypeOK /\ IsFiniteSet(Calls)
      /\ wallet.balance = InitialBalance /\ wallet.reserved = 0 /\ recharges = 0
  BY TypeInit, CallSessionAssumption DEF CallSessionInit
<1>2. \A c \in Calls : calls[c].charged = 0
  BY DEF CallSessionInit, NewCall
<1>3. \A c \in Calls : Charges[c] = 0 /\ Excess[c] = 0
  BY <1>2, CallSessionAssumption DEF Charges, Excess, Less
<1>4. Charged(Calls) = 0 /\ Overrun(Calls) = 0
  BY <1>1, <1>3, SumsOfCharges, SumZero
<1>5. InitialBalance \in Nat /\ 0 * RechargeAmount = 0
  BY CallSessionAssumption
<1> QED
  BY <1>1, <1>2, <1>4, <1>5 DEF MoneyInv, ChargedOncePerCall, ReservedIsBacked

(* Every step keeps the accounts.                                            *)
LEMMA MoneyNext ==
  HoldInv /\ HoldInv' /\ MoneyInv /\ [CallSessionNext]_vars => MoneyInv'
<1> SUFFICES ASSUME HoldInv, HoldInv', MoneyInv, [CallSessionNext]_vars
             PROVE  MoneyInv'
  OBVIOUS
<1>1. CallSessionTypeOK /\ CallSessionTypeOK'
  BY DEF HoldInv
<1>2. ASSUME \A c \in Calls : /\ calls'[c].hold = calls[c].hold
                              /\ calls'[c].charged = calls[c].charged
                              /\ calls'[c].dial = "new" => calls[c].dial = "new"
      PROVE  /\ Charged(Calls)' = Charged(Calls) /\ Overrun(Calls)' = Overrun(Calls)
             /\ \A c \in Calls : calls'[c].hold # "settled" \/ calls'[c].dial = "new"
                                    => calls'[c].charged = 0
  <2>1. Charged(Calls)' = Charged(Calls)
    BY <1>2 DEF Charged
  <2>2. Overrun(Calls)' = Overrun(Calls)
    BY <1>2 DEF Overrun
  <2> QED
    BY <1>2, <2>1, <2>2 DEF MoneyInv
<1>3. ASSUME UNCHANGED <<wallet, recharges>>,
             \A c \in Calls : /\ calls'[c].hold = calls[c].hold
                              /\ calls'[c].charged = calls[c].charged
                              /\ calls'[c].dial = "new" => calls[c].dial = "new"
      PROVE  MoneyInv'
  BY <1>2, <1>3 DEF MoneyInv, ChargedOncePerCall, ReservedIsBacked
<1>4. CASE RechargeOrganization
  <2>1. /\ recharges' = recharges + 1 /\ calls' = calls
        /\ wallet' = [wallet EXCEPT !.balance = @ + RechargeAmount]
    BY <1>4 DEF RechargeOrganization
  <2>2. /\ wallet'.balance = wallet.balance + RechargeAmount
        /\ wallet'.reserved = wallet.reserved
        /\ wallet.balance \in Nat /\ wallet.reserved \in Nat /\ recharges \in Nat
        /\ RechargeAmount \in Nat /\ InitialBalance \in Nat
    BY <1>1, <2>1, CallSessionAssumption DEF CallSessionTypeOK
  <2>3. /\ Charged(Calls)' = Charged(Calls) /\ Overrun(Calls)' = Overrun(Calls)
        /\ \A c \in Calls : calls'[c].hold # "settled" \/ calls'[c].dial = "new"
                               => calls'[c].charged = 0
    BY <1>2, <2>1
  <2>4. Charged(Calls) \in Nat /\ Overrun(Calls) \in Nat
    BY <1>1, SumsOfCharges
  <2>5. /\ (recharges + 1) * RechargeAmount = recharges * RechargeAmount + RechargeAmount
        /\ recharges * RechargeAmount \in Nat
    BY <2>2, OneMore
  <2>6. ChargedOncePerCall'
    <3> DEFINE paid == recharges * RechargeAmount
               charged == Charged(Calls)
    <3>1. /\ charged <= InitialBalance => wallet.balance + charged = InitialBalance + paid
          /\ paid \in Nat /\ charged \in Nat
      BY <2>4, <2>5 DEF MoneyInv, ChargedOncePerCall
    <3> HIDE DEF paid, charged
    <3>2. charged <= InitialBalance =>
            wallet'.balance + charged = InitialBalance + (paid + RechargeAmount)
      BY <2>2, <3>1
    <3> QED
      BY <2>1, <2>3, <2>5, <3>2 DEF ChargedOncePerCall, paid, charged
  <2>7. ReservedIsBacked'
    BY <2>2, <2>3, <2>4 DEF MoneyInv, ReservedIsBacked
  <2> QED
    BY <2>3, <2>6, <2>7 DEF MoneyInv
<1>5. CASE SweepDeadLetters
  <2>1. ASSUME NEW c \in Calls
        PROVE  /\ calls'[c].hold = calls[c].hold /\ calls'[c].charged = calls[c].charged
               /\ calls'[c].dial = calls[c].dial
    <3>1. calls[c] \in Call
      BY <1>1, CallType
    <3> QED
      BY <1>5, <3>1 DEF SweepDeadLetters, Call
  <2> QED
    BY <1>3, <1>5, <2>1 DEF SweepDeadLetters
<1>6. CASE Crash
  <2>1. \A c \in Calls : calls'[c] = Lost(calls[c])
    BY <1>6 DEF Crash
  <2>2. \A call \in Call : /\ Lost(call).hold = call.hold /\ Lost(call).charged = call.charged
                           /\ Lost(call).dial = "new" => call.dial = "new"
    BY DEF Lost, Call
  <2>3. UNCHANGED <<wallet, recharges>>
    BY <1>6 DEF Crash
  <2>4. \A c \in Calls : /\ calls'[c].hold = calls[c].hold
                         /\ calls'[c].charged = calls[c].charged
                         /\ calls'[c].dial = "new" => calls[c].dial = "new"
    <3>1. ASSUME NEW c \in Calls
          PROVE  /\ calls'[c].hold = calls[c].hold /\ calls'[c].charged = calls[c].charged
                 /\ calls'[c].dial = "new" => calls[c].dial = "new"
      <4>1. calls[c] \in Call /\ calls'[c] = Lost(calls[c])
        BY <1>1, <2>1, CallType
      <4> QED
        BY <2>2, <4>1
    <3> QED
      BY <3>1
  <2> QED
    BY <1>3, <2>3, <2>4
<1>7. CASE UNCHANGED vars
  BY <1>3, <1>7 DEF vars
<1>8. ASSUME NEW c \in Calls, CallStep(c) \/ \E r \in Reports : ReportStep(c, r)
      PROVE  MoneyInv'
  <2>1. HoldStep(c) /\ UNCHANGED recharges
    BY <1>1, <1>8, HoldCallStep, HoldReportStep, NoRecharge
  <2> QED
    BY <1>1, <2>1, MoneyPreserved
<1> QED
  BY <1>4, <1>5, <1>6, <1>7, <1>8, Steps

(* So they are kept always.                                                  *)
LEMMA MoneyInvariance == CallSessionSpec => []MoneyInv
<1>1. CallSessionSpec => []HoldInv
  BY HoldInit, HoldNext, PTL DEF CallSessionSpec
<1> QED
  BY <1>1, MoneyInit, MoneyNext, PTL DEF CallSessionSpec

(* Whichever of the two parties settles a call, and however often its end is   *)
(* reported, the wallet pays for it once: while the charges do not exceed     *)
(* what it held at first, the balance is what was paid in less the charges.  *)
THEOREM SpecChargedOncePerCall == CallSessionSpec => []ChargedOncePerCall
<1>1. MoneyInv => ChargedOncePerCall
  BY DEF MoneyInv
<1> QED
  BY <1>1, MoneyInvariance, PTL

(* The same money is not promised twice: what is reserved is in the wallet,    *)
(* except for what finished calls have cost beyond their reservations.       *)
THEOREM SpecReservedIsBacked == CallSessionSpec => []ReservedIsBacked
<1>1. MoneyInv => ReservedIsBacked
  BY DEF MoneyInv
<1> QED
  BY <1>1, MoneyInvariance, PTL

------------------------------------------------------------------------------
(* One log per call *)

(* Nobody reports or logs a call that is not over. *)
Early(call) ==
  /\ call.dial \in {"new", "authorized"} => call.phone = "none"
  /\ call.phone # "over" =>
       /\ call.fallbacks = 0 /\ ~ call.claimed
       /\ call.hook[1] = "idle" /\ call.hook[2] = "idle"
  /\ call.hook[1] = "idle" => call.hook[2] = "idle"

(* A route's fallback is claimed by the one who writes it. *)
Claim(call) ==
  Routed(call) =>
    /\ call.claimed =>
         /\ call.fallbacks <= 1
         /\ ~ (call.hook[1] = "saving" /\ call.hook[2] = "saving")
         /\ call.hook[1] = "saving" \/ call.hook[2] = "saving" => call.fallbacks = 0
    /\ ~ call.claimed =>
         call.fallbacks = 0 /\ call.hook[1] # "saving" /\ call.hook[2] # "saving"

(* Without a route a single report writes a single fallback. *)
OneReport(call) ==
  call.hook[2] = "idle" =>
    /\ call.fallbacks <= 1
    /\ call.hook[1] \in {"idle", "waiting", "polling", "saving"} => call.fallbacks = 0

(* Once the fallback has given up on the pipeline, the pipeline is over, and has *)
(* logged nothing unless under another id.                                 *)
Pipeline(call) ==
  ~ call.faulty /\ GivenUp(call) =>
    /\ call.session \notin {"started", "closing"}
    /\ call.job \notin {"queued", "backoff", "dead"}
    /\ call.logged => call.aliased

CallLog(call) == Early(call) /\ Claim(call) /\ OneReport(call) /\ Pipeline(call)

LogInv == CallSessionTypeOK /\ \A c \in Calls : CallLog(calls[c])

(* What is said of a call's logs does not depend on the rest of the call. *)
Quiet(call, new) ==
  /\ new.phone = call.phone /\ Routed(new) = Routed(call) /\ new.claimed = call.claimed
  /\ new.hook = call.hook /\ new.fallbacks = call.fallbacks /\ new.logged = call.logged
  /\ new.aliased = call.aliased
  /\ new.dial \in {"new", "authorized"} => call.dial \in {"new", "authorized"}
  /\ call.faulty => new.faulty
  /\ new.session \in {"started", "closing"} => call.session \in {"started", "closing"}
  /\ new.job \in {"queued", "backoff", "dead"}
       => call.session = "closing" \/ call.job \in {"queued", "backoff", "dead"}

LEMMA QuietLog ==
  ASSUME NEW call \in Call, NEW new \in Call, CallLog(call), Quiet(call, new)
  PROVE  CallLog(new)
<1>1. Early(new)
  BY DEF CallLog, Quiet, Early, Call
<1>2. Claim(new)
  BY DEF CallLog, Quiet, Claim, Call
<1>3. OneReport(new)
  BY DEF CallLog, Quiet, OneReport, Call
<1>4. GivenUp(new) = GivenUp(call)
  BY DEF Quiet, GivenUp
<1>5. Pipeline(new)
  BY <1>4 DEF CallLog, Quiet, Pipeline, Call
<1> QED
  BY <1>1, <1>2, <1>3, <1>5 DEF CallLog

Kept(call, new) ==
  /\ new.phone = call.phone /\ Routed(new) = Routed(call) /\ new.claimed = call.claimed
  /\ new.hook = call.hook /\ new.fallbacks = call.fallbacks /\ new.logged = call.logged
  /\ new.aliased = call.aliased
  /\ new.session = call.session /\ new.job = call.job
  /\ new.dial \in {"new", "authorized"} => call.dial \in {"new", "authorized"}
  /\ call.faulty => new.faulty

LEMMA KeptTwice ==
  ASSUME NEW a, NEW b, NEW c, Kept(a, b), Kept(b, c)
  PROVE  Kept(a, c) /\ Quiet(a, c)
  BY DEF Kept, Quiet

LEMMA KeptHelpers ==
  ASSUME NEW call \in Call
  PROVE  /\ Kept(call, call) /\ Kept(call, Bad(call)) /\ Kept(call, Released(call))
         /\ Kept(call, Refused(call)) /\ Kept(call, Activated(call))
         /\ \A cost \in Nat : Kept(call, Settled(call, cost))
         /\ Kept(call, [call EXCEPT !.dial = "failed"])
<1>1. Kept(call, Bad(call)) /\ Kept(call, call)
  BY DEF Bad, Kept, Routed, Call
<1>2. Kept(call, Released(call))
  BY DEF Released, Kept, Routed, Call
<1>3. Kept(call, Refused(call))
  BY DEF Refused, Kept, Routed, Call
<1>4. Kept(call, Activated(call))
  BY DEF Activated, Kept, Routed, Call
<1>5. \A cost \in Nat : Kept(call, Settled(call, cost))
  BY DEF Settled, Kept, Routed, Call
<1>6. Kept(call, [call EXCEPT !.dial = "failed"])
  BY DEF Kept, Routed, Call
<1> QED
  BY <1>1, <1>2, <1>3, <1>4, <1>5, <1>6

LEMMA QuietStep ==
  ASSUME LogInv, CallSessionTypeOK', NEW c \in Calls, NEW new, Becomes(c, new), Quiet(calls[c], new)
  PROVE  CallLog(calls'[c])
<1>1. calls[c] \in Call /\ calls'[c] = new /\ calls'[c] \in Call
  BY DEF LogInv, CallSessionTypeOK, Becomes
<1> QED
  BY <1>1, QuietLog DEF LogInv

LEMMA LogCallStep ==
  ASSUME LogInv, CallSessionTypeOK', NEW c \in Calls, CallStep(c)
  PROVE  CallLog(calls'[c])
<1> DEFINE call == calls[c]
           new == calls'[c]
<1>1. call \in Call /\ new \in Call /\ calls \in [Calls -> Call] /\ CallLog(call)
  BY DEF LogInv, CallSessionTypeOK
<1>2. CASE AuthorizeOutboundCall(c)
  <2>1. Quiet(call, [call EXCEPT !.dial = "authorized", !.hold = "reserved"])
    BY <1>1, <1>2 DEF Quiet, Routed, Call, AuthorizeOutboundCall
  <2>2. Quiet(call, [call EXCEPT !.dial = "failed"])
    BY <1>1 DEF Quiet, Routed, Call
  <2> QED
    BY <1>2, <2>1, <2>2, QuietStep DEF AuthorizeOutboundCall
<1>3. CASE NoRoute(c) \/ ProviderRefuses(c) \/ ReleaseFails(c) \/ AnswerLost(c)
  <2> DEFINE failed(a) == [a EXCEPT !.dial = "failed"]
  <2>1. ASSUME NEW a \in Call, Kept(call, a)
        PROVE  Quiet(call, Bad(failed(a))) /\ Quiet(call, failed(Released(a)))
    <3>1. failed(a) \in Call /\ Released(a) \in Call
      BY <2>1, HelperTypes DEF Call
    <3>2. Kept(a, failed(a)) /\ Kept(failed(a), Bad(failed(a)))
          /\ Kept(a, Released(a)) /\ Kept(Released(a), failed(Released(a)))
      BY <2>1, <3>1, KeptHelpers
    <3> HIDE DEF failed
    <3> QED
      BY <2>1, <3>2, KeptTwice
  <2>2. Kept(call, call) /\ Kept(call, Refused(call)) /\ Refused(call) \in Call
    BY <1>1, KeptHelpers, HelperTypes
  <2>3. CASE NoRoute(c)
    BY <1>1, <2>1, <2>2, <2>3, QuietStep DEF NoRoute, GivesUp
  <2>4. CASE ProviderRefuses(c)
    BY <2>1, <2>2, <2>4, QuietStep DEF ProviderRefuses, GivesUp
  <2>5. CASE ReleaseFails(c)
    BY <2>1, <2>2, <2>5, QuietStep DEF ReleaseFails
  <2>6. CASE AnswerLost(c)
    <3> DEFINE seen == IF call.route = "ended" THEN call ELSE Refused(call)
    <3>1. seen \in Call /\ Kept(call, seen)
      BY <1>1, <2>2
    <3> HIDE DEF seen
    <3>2. Bad(seen) \in Call /\ Kept(call, Bad(seen))
      BY <3>1, HelperTypes, KeptHelpers, KeptTwice
    <3>3. Quiet(call, failed(Released(Bad(seen))))
      BY <3>2, <2>1
    <3> QED
      BY <2>6, <3>3, QuietStep DEF AnswerLost, GivesUp, seen
  <2> QED
    BY <1>3, <2>3, <2>4, <2>5, <2>6
<1>4. CASE AnswerArrives(c)
  BY ZenonT(60), <1>1, <1>4, QuietStep DEF AnswerArrives, Quiet, Routed, Call
<1>5. CASE Remember(c)
  <2>1. Activated(call) \in Call /\ Kept(call, Activated(call))
    BY <1>1, HelperTypes, KeptHelpers
  <2> DEFINE a == Activated(call)
             b == [a EXCEPT !.dial = "placed", !.context = TRUE, !.owner = TRUE]
  <2>2. Kept(a, b)
    <3> HIDE DEF a
    <3> QED
      BY <2>1 DEF Kept, Routed, Call, a
  <2> QED
    BY <1>5, <2>1, <2>2, KeptTwice, QuietStep DEF Remember
<1>6. CASE AttachFails(c)
  <2>1. Quiet(call, Bad([call EXCEPT !.dial = "failed"]))
    BY <1>1, <1>6 DEF AttachFails, Quiet, Routed, Call, Bad
  <2> QED
    BY <1>6, <2>1, QuietStep DEF AttachFails
<1>7. CASE StreamOpens(c)
  BY <1>1, <1>7, QuietStep DEF StreamOpens, Quiet, Routed, Call
<1>8. CASE CachesExpire(c)
  BY ZenonT(60), <1>1, <1>8, QuietStep DEF CachesExpire, Quiet, Routed, Call, Bad
<1>9. CASE StreamEnds(c)
  <2>1. call.session = "started" => Quiet(call, Finalized(call))
    BY <1>1 DEF Finalized, Quiet, Routed, Call
  <2>2. Quiet(call, [call EXCEPT !.session = "gone"])
    BY <1>1 DEF Quiet, Routed, Call
  <2> QED
    BY <1>9, <2>1, <2>2, QuietStep DEF StreamEnds
<1>10. CASE EnqueuePostCall(c)
  <2>1. Quiet(call, [call EXCEPT !.session = "gone", !.job = "queued"])
    BY <1>1, <1>10 DEF EnqueuePostCall, Quiet, Routed, Call
  <2> QED
    BY <1>10, <2>1, QuietStep DEF EnqueuePostCall
<1>11. CASE PostCallSettles(c)
  <2> DEFINE a == [call EXCEPT !.job = "done"]
  <2>1. a \in Call /\ Quiet(call, a)
    <3>1. a \in Call
      <4>1. call \in Call
        BY <1>1
      <4> QED
        BY <4>1 DEF Call
    <3>2. Quiet(call, a)
      BY <1>1 DEF Quiet, Routed, Call
    <3> QED
      BY <3>1, <3>2
  <2>2. \A cost \in Costs : Kept(a, Settled(a, cost))
    BY <2>1, KeptHelpers, CallSessionAssumption
  <2> HIDE DEF a
  <2>3. \A cost \in Costs : Quiet(call, Settled(a, cost))
    BY <2>1, <2>2 DEF Quiet, Kept
  <2> QED
    BY <1>11, <2>1, <2>3, QuietStep DEF PostCallSettles, a
<1>12. CASE SettlementFails(c)
  BY ZenonT(60), <1>1, <1>12, QuietStep DEF SettlementFails, Quiet, Routed, Call, Bad
<1>13. CASE BackoffEnds(c)
  BY <1>1, <1>13, QuietStep DEF BackoffEnds, Quiet, Routed, Call
<1>14. CASE Ask(c)
  <2>1. PICK route \in {"none", "starting"} : new = [call EXCEPT !.dial = "asking", !.route = route]
    BY <1>1, <1>14 DEF Ask, Becomes
  <2> QED
    BY <1>1, <1>14, <2>1 DEF Ask, CallLog, Early, Claim, OneReport, Pipeline, GivenUp, Routed, Reports, Call
<1>15. CASE ProviderAccepts(c)
  <2>1. new = [call EXCEPT !.phone = "ringing"]
    BY <1>1, <1>15 DEF ProviderAccepts, Becomes
  <2> QED
    BY <1>1, <1>15, <2>1 DEF ProviderAccepts, CallLog, Early, Claim, OneReport, Pipeline, GivenUp, Routed, Reports, Call
<1>16. CASE PicksUp(c)
  <2> DEFINE a == Activated(call)
             b == [a EXCEPT !.phone = "up", !.owner = TRUE, !.context = @ \/ Routed(call),
                            !.faulty = @ \/ ~ InTime(c)]
  <2>1. a \in Call /\ Kept(call, a)
    BY <1>1, HelperTypes, KeptHelpers
  <2>2. CallLog(a)
    BY <1>1, <2>1, QuietLog DEF Kept, Quiet
  <2>3. new = b /\ call.phone = "ringing"
    BY <1>1, <1>16 DEF PicksUp, Becomes
  <2>4. a.phone = "ringing"
    BY <2>1, <2>3 DEF Kept
  <2> HIDE DEF a
  <2>5. /\ b.phone = "up" /\ b.dial = a.dial /\ b.route = a.route /\ b.claimed = a.claimed
        /\ b.hook = a.hook /\ b.fallbacks = a.fallbacks /\ b.logged = a.logged /\ b.aliased = a.aliased
        /\ b.session = a.session /\ b.job = a.job /\ (a.faulty => b.faulty)
    BY <2>1 DEF Call
  <2> HIDE DEF b
  <2> QED
    BY <2>2, <2>3, <2>4, <2>5 DEF CallLog, Early, Claim, OneReport, Pipeline, GivenUp, Routed
<1>17. CASE PhoneEnds(c)
  <2>1. new = [call EXCEPT !.phone = "over"]
    BY <1>1, <1>17 DEF PhoneEnds, Becomes
  <2> QED
    BY <1>1, <1>17, <2>1 DEF PhoneEnds, CallLog, Early, Claim, OneReport, Pipeline, GivenUp, Routed, Reports, Call
<1>18. CASE StreamStarts(c)
  <2> DEFINE b == [call EXCEPT !.session = "started", !.owner = TRUE, !.aliased = new.aliased,
                               !.faulty = @ \/ GivenUp(call)]
  <2>1. new = b
    <3>1. PICK aliased \in BOOLEAN :
            new = [call EXCEPT !.session = "started", !.owner = TRUE, !.aliased = aliased,
                               !.faulty = @ \/ GivenUp(call)]
      BY <1>1, <1>18 DEF StreamStarts, Becomes
    <3>2. new.aliased = aliased
      BY <1>1, <3>1 DEF Call
    <3> QED
      BY <3>1, <3>2
  <2>2. /\ b.phone = call.phone /\ b.dial = call.dial /\ b.route = call.route
        /\ b.claimed = call.claimed /\ b.hook = call.hook /\ b.fallbacks = call.fallbacks
        /\ b.faulty = (call.faulty \/ GivenUp(call))
    BY <1>1 DEF Call
  <2> HIDE DEF b
  <2>3. Early(b) /\ Claim(b) /\ OneReport(b)
    BY <1>1, <2>2 DEF CallLog, Early, Claim, OneReport, Routed
  <2>4. GivenUp(b) = GivenUp(call)
    BY <2>2 DEF GivenUp
  <2>5. Pipeline(b)
    BY <2>2, <2>4 DEF Pipeline
  <2> QED
    BY <2>1, <2>3, <2>5 DEF CallLog
<1>19. CASE PostCallLogs(c)
  <2>1. new = [call EXCEPT !.job = "logged", !.logged = @ \/ call.named]
    BY <1>1, <1>19 DEF PostCallLogs, Becomes
  <2> QED
    BY <1>1, <1>19, <2>1 DEF PostCallLogs, CallLog, Early, Claim, OneReport, Pipeline, GivenUp, Routed, Reports, Call
<1>20. CASE PostCallFails(c)
  <2>1. PICK written \in BOOLEAN :
          new = [call EXCEPT !.attempts = @ + 1, !.logged = @ \/ written,
                   !.job = IF call.attempts + 1 < MaxAttempts THEN "backoff" ELSE "dead"]
    BY <1>1, <1>20 DEF PostCallFails, Becomes
  <2> QED
    BY <1>1, <1>20, <2>1 DEF PostCallFails, CallLog, Early, Claim, OneReport, Pipeline, GivenUp, Routed, Reports, Call
<1>21. CASE HangUpLost(c)
  <2>1. new = [call EXCEPT !.hook = [r \in Reports |-> "done"], !.faulty = TRUE]
    BY <1>1, <1>21 DEF HangUpLost, Becomes, Bad
  <2> QED
    BY <1>1, <1>21, <2>1 DEF HangUpLost, CallLog, Early, Claim, OneReport, Pipeline, GivenUp, Routed, Reports, Call
<1> QED
  BY <1>2, <1>3, <1>4, <1>5, <1>6, <1>7, <1>8, <1>9, <1>10, <1>11, <1>12, <1>13, <1>14, <1>15, <1>16, <1>17, <1>18, <1>19, <1>20, <1>21 DEF CallStep

LEMMA LogReportStep ==
  ASSUME LogInv, CallSessionTypeOK', NEW c \in Calls, NEW r \in Reports,
         ReportStep(c, r)
  PROVE  CallLog(calls'[c])
<1> DEFINE call == calls[c]
           new == calls'[c]
<1>1. call \in Call /\ new \in Call /\ calls \in [Calls -> Call] /\ CallLog(call)
  BY DEF LogInv, CallSessionTypeOK
<1>2. r \in {1, 2}
  BY DEF Reports
(* A report that moves on, without claiming or writing anything. *)
<1>3. ASSUME NEW a, NEW at \in {"waiting", "polling", "settling", "done"}, Quiet(call, a),
             new.phone = a.phone, Routed(new) = Routed(a), new.claimed = a.claimed,
             new.fallbacks = a.fallbacks, new.logged = a.logged,
             new.aliased = a.aliased, new.dial = a.dial,
             a.faulty => new.faulty, new.session = a.session, new.job = a.job,
             new.hook = [call.hook EXCEPT ![r] = at], call.phone = "over",
             r = 2 => call.hook[1] # "idle",
             call.hook[r] \in {"idle", "waiting", "polling", "settling"},
             call.hook[r] = "settling" => at = "done"
      PROVE  CallLog(new)
  <2>1. /\ new.phone = call.phone /\ Routed(new) = Routed(call) /\ new.claimed = call.claimed
        /\ new.fallbacks = call.fallbacks /\ new.logged = call.logged
        /\ new.aliased = call.aliased
        /\ new.hook[r] = at /\ (new.hook[1] = call.hook[1] \/ r = 1)
        /\ (new.hook[2] = call.hook[2] \/ r = 2)
    BY <1>1, <1>2, <1>3 DEF Quiet, Call, Reports
  <2>2. Early(new)
    BY <1>1, <1>2, <1>3, <2>1 DEF CallLog, Early, Quiet
  <2>3. Claim(new)
    BY <1>1, <1>2, <1>3, <2>1 DEF CallLog, Claim
  <2>4. OneReport(new)
    BY <1>1, <1>2, <1>3, <2>1 DEF CallLog, OneReport
  <2>5. GivenUp(new) => GivenUp(call)
    BY <1>2, <1>3, <2>1 DEF GivenUp, Reports
  <2>6. Pipeline(new)
    BY <1>1, <1>3, <2>1, <2>5 DEF CallLog, Pipeline, Quiet
  <2> QED
    BY <2>2, <2>3, <2>4, <2>6 DEF CallLog
<1>4. call.hook[r] # "idle" => call.phone = "over" /\ (r = 2 => call.hook[1] # "idle")
  BY <1>1, <1>2 DEF CallLog, Early
<1>5. ASSUME NEW a \in Call, Quiet(call, a), a.session = call.session, a.hook = call.hook,
             NEW at \in {"waiting", "polling"}, new = Reported(a, r, at),
             call.phone = "over", r = 2 => call.hook[1] # "idle",
             call.hook[r] \in {"idle", "waiting"}
      PROVE  CallLog(new)
  <2>1. CASE a.session = "started"
    <3> DEFINE f == Finalized(a)
    <3>1. f \in Call /\ f.phone = a.phone /\ f.route = a.route /\ f.claimed = a.claimed
          /\ f.fallbacks = a.fallbacks /\ f.logged = a.logged /\ f.aliased = a.aliased /\ f.dial = a.dial
          /\ f.faulty = a.faulty /\ f.session = "closing" /\ f.job = a.job /\ f.hook = a.hook
      <4>1. f \in Call
        BY <1>5, HelperTypes
      <4> QED
        BY <1>5, <4>1 DEF Finalized, Call
    <3>2. Quiet(call, f)
      BY <1>5, <2>1, <3>1 DEF Quiet, Routed
    <3>3. new = [f EXCEPT !.hook[r] = "done"]
      BY <1>5, <2>1 DEF Reported
    <3> HIDE DEF f
    <3>4. /\ new.phone = f.phone /\ new.route = f.route /\ new.claimed = f.claimed
          /\ new.fallbacks = f.fallbacks /\ new.logged = f.logged /\ new.aliased = f.aliased /\ new.dial = f.dial
          /\ new.faulty = f.faulty /\ new.session = f.session /\ new.job = f.job
          /\ new.hook = [call.hook EXCEPT ![r] = "done"]
      BY <1>5, <3>1, <3>3 DEF Call
    <3> QED
      BY <1>3, <1>5, <3>2, <3>4 DEF Routed
  <2>2. CASE a.session # "started"
    <3>1. new = [a EXCEPT !.hook[r] = at]
      BY <1>5, <2>2 DEF Reported
    <3>2. /\ new.phone = a.phone /\ new.route = a.route /\ new.claimed = a.claimed
          /\ new.fallbacks = a.fallbacks /\ new.logged = a.logged /\ new.aliased = a.aliased /\ new.dial = a.dial
          /\ new.faulty = a.faulty /\ new.session = a.session /\ new.job = a.job
          /\ new.hook = [call.hook EXCEPT ![r] = at]
      BY <1>5, <3>1 DEF Call
    <3> QED
      BY <1>3, <1>5, <3>2 DEF Routed
  <2> QED
    BY <2>1, <2>2
<1>6. CASE HangUp(c, r)
  <2> DEFINE seen == [call EXCEPT !.owner = TRUE, !.context = @ \/ Routed(call),
                                  !.route = IF Routed(call) THEN "ended" ELSE @]
  <2>1. seen \in Call
    <3> DEFINE context == call.context \/ Routed(call)
               route == IF Routed(call) THEN "ended" ELSE call.route
    <3>1. context \in BOOLEAN /\ route \in {"none", "starting", "active", "ended", "failed"}
      BY <1>1 DEF Call
    <3> HIDE DEF context, route
    <3>2. call \in Call
      BY <1>1
    <3>3. [call EXCEPT !.owner = TRUE, !.context = context, !.route = route] \in Call
      BY <3>1, <3>2 DEF Call
    <3> QED
      BY <3>3 DEF context, route
  <2>2. Quiet(call, seen) /\ seen.session = call.session /\ seen.hook = call.hook
    BY <1>1 DEF Quiet, Routed, Call
  <2>3. new = Reported(seen, r, "waiting") /\ call.phone = "over" /\ call.hook[r] = "idle"
        /\ (r = 2 => call.hook[1] # "idle")
    BY <1>1, <1>2, <1>6 DEF HangUp, Becomes
  <2> HIDE DEF seen
  <2> QED
    BY <1>5, <2>1, <2>2, <2>3
<1>7. CASE AskAgain(c, r)
  <2>1. Quiet(call, call)
    BY DEF Quiet
  <2>2. new = Reported(call, r, "polling") /\ call.hook[r] = "waiting"
    BY <1>1, <1>7 DEF AskAgain, Becomes
  <2> QED
    BY <1>1, <1>4, <1>5, <2>1, <2>2
<1>8. CASE PollFinds(c, r) \/ FallbackUnsettled(c, r) \/ FallbackSettles(c, r)
  <2> DEFINE a == [call EXCEPT !.hook[r] = "done"]
  <2>1. call.hook[r] \in {"polling", "settling"}
    BY <1>8 DEF PollFinds, FallbackUnsettled, FallbackSettles
  <2>2. a \in Call
    BY <1>1, SetHook
  <2>3. \E b \in {a, Bad(a)} \cup {Settled(a, cost) : cost \in Costs} : new = b
    BY <1>1, <1>8 DEF PollFinds, FallbackUnsettled, FallbackSettles, Becomes
  <2>4. Kept(a, new)
    BY <2>2, <2>3, KeptHelpers, CallSessionAssumption
  <2>5. /\ a.phone = call.phone /\ a.route = call.route /\ a.claimed = call.claimed
        /\ a.fallbacks = call.fallbacks /\ a.logged = call.logged /\ a.aliased = call.aliased /\ a.dial = call.dial
        /\ a.faulty = call.faulty /\ a.session = call.session /\ a.job = call.job
        /\ a.hook = [call.hook EXCEPT ![r] = "done"]
    BY <1>1 DEF Call
  <2>6. CallLog(a)
    BY <1>1, <1>2, <1>4, <2>1, <2>5 DEF CallLog, Early, Claim, OneReport, Pipeline, GivenUp,
       Routed, Reports, Call
  <2> HIDE DEF a
  <2> QED
    BY <1>1, <2>2, <2>4, <2>6, QuietLog DEF Kept, Quiet
<1>9. CASE PollExpires(c, r)
  <2> DEFINE b == [call EXCEPT !.hook[r] = IF call.claimed THEN "done" ELSE "saving",
                             !.claimed = Routed(call), !.known[r] = call.context,
                             !.faulty = @ \/ ~ Nothing(c)]
  <2>1. new = b /\ call.hook[r] = "polling" /\ ~ Found(c)
    BY <1>1, <1>9 DEF PollExpires, Becomes
  <2>2. /\ b.phone = call.phone /\ b.route = call.route /\ b.claimed = Routed(call)
        /\ b.fallbacks = call.fallbacks /\ b.logged = call.logged /\ b.aliased = call.aliased /\ b.dial = call.dial
        /\ b.faulty = (call.faulty \/ ~ Nothing(c)) /\ b.session = call.session
        /\ b.job = call.job
    BY <1>1 DEF Call
  <2>3. b.hook = [call.hook EXCEPT ![r] = IF call.claimed THEN "done" ELSE "saving"]
    BY <1>1 DEF Call
  <2>4. b.hook[r] = (IF call.claimed THEN "done" ELSE "saving")
        /\ \A t \in Reports : t # r => b.hook[t] = call.hook[t]
    BY <1>1, <2>3 DEF Call
  <2>5. 1 \in Reports /\ 2 \in Reports
    BY DEF Reports
  <2>6. (call.logged => call.aliased) /\ call.fallbacks = 0
    <3>1. call.logged \in BOOLEAN /\ call.aliased \in BOOLEAN /\ call.fallbacks \in Nat
      BY <1>1 DEF Call
    <3>2. ~ (call.fallbacks > 0) /\ ~ (call.logged /\ ~ call.aliased)
      BY <2>1 DEF Found
    <3> QED
      BY <1>1, <3>1, <3>2
  <2> HIDE DEF b
  <2>7. Early(b)
    BY <1>1, <1>2, <1>4, <2>1, <2>2, <2>4, <2>5 DEF CallLog, Early
  <2>8. Claim(b)
    <3>1. Routed(call) => ~ (b.hook[1] = "saving" /\ b.hook[2] = "saving")
      <4>1. Claim(call) /\ call.claimed \in BOOLEAN
        BY <1>1 DEF CallLog, Call
      <4> QED
        BY <1>2, <2>1, <2>4, <2>5, <4>1 DEF Claim, Routed
    <3>2. Routed(b) => Routed(call) /\ b.claimed = TRUE
      BY <2>2 DEF Routed
    <3>3. b.fallbacks = 0
      BY <2>2, <2>6
    <3> QED
      BY <3>1, <3>2, <3>3 DEF Claim
  <2>9. OneReport(b)
    BY <1>1, <2>2, <2>6 DEF OneReport
  <2>10. Pipeline(b)
    BY <2>2, <2>6 DEF Pipeline, Nothing
  <2> QED
    BY <2>1, <2>7, <2>8, <2>9, <2>10 DEF CallLog
<1>10. CASE FallbackSaved(c, r)
  <2> DEFINE b == [call EXCEPT !.fallbacks = @ + 1,
                               !.hook[r] = IF call.known[r] THEN "settling" ELSE "done"]
  <2>1. new = b /\ call.hook[r] = "saving"
    BY <1>1, <1>10 DEF FallbackSaved, Becomes
  <2>2. /\ b.phone = call.phone /\ b.route = call.route /\ b.claimed = call.claimed
        /\ b.fallbacks = call.fallbacks + 1 /\ b.logged = call.logged /\ b.aliased = call.aliased /\ b.dial = call.dial
        /\ b.faulty = call.faulty /\ b.session = call.session /\ b.job = call.job
    BY <1>1 DEF Call
  <2>3. b.hook = [call.hook EXCEPT ![r] = IF call.known[r] THEN "settling" ELSE "done"]
    BY <1>1 DEF Call
  <2>4. b.hook[r] \in {"settling", "done"}
        /\ \A t \in Reports : t # r => b.hook[t] = call.hook[t]
    BY <1>1, <2>3 DEF Call
  <2>5. 1 \in Reports /\ 2 \in Reports /\ call.fallbacks \in Nat
    BY <1>1 DEF Reports, Call
  <2> HIDE DEF b
  <2>7. Early(b)
    BY <1>1, <1>2, <1>4, <2>1, <2>2, <2>4, <2>5 DEF CallLog, Early
  <2>8. Claim(b)
    <3>1. (b.hook[1] # "saving" /\ b.hook[2] # "saving") \/ ~ Routed(call)
      <4>1. Claim(call)
        BY <1>1 DEF CallLog
      <4> QED
        BY <1>2, <2>1, <2>4, <2>5, <4>1 DEF Claim, Routed
    <3>2. Routed(call) => call.claimed /\ call.fallbacks = 0
      <4>1. Claim(call)
        BY <1>1 DEF CallLog
      <4> QED
        BY <1>2, <2>1, <4>1 DEF Claim, Routed
    <3> QED
      BY <2>2, <2>5, <3>1, <3>2 DEF Claim, Routed
  <2>9. OneReport(b)
    BY <1>1, <1>2, <1>4, <2>1, <2>2, <2>4, <2>5 DEF CallLog, OneReport
  <2>10. Pipeline(b)
    <3>1. GivenUp(call)
      BY <2>1 DEF GivenUp
    <3> QED
      BY <1>1, <2>2, <3>1 DEF CallLog, Pipeline
  <2> QED
    BY <2>1, <2>7, <2>8, <2>9, <2>10 DEF CallLog
<1>11. CASE FallbackFails(c, r)
  <2> DEFINE b == Bad([call EXCEPT !.hook[r] = "done", !.claimed = FALSE])
  <2>1. new = b /\ call.hook[r] = "saving"
    BY <1>1, <1>11 DEF FallbackFails, Becomes
  <2>2. /\ b.phone = call.phone /\ b.route = call.route /\ ~ b.claimed
        /\ b.fallbacks = call.fallbacks /\ b.dial = call.dial /\ b.faulty
    BY <1>1 DEF Call, Bad
  <2>3. b.hook = [call.hook EXCEPT ![r] = "done"]
    BY <1>1 DEF Call, Bad
  <2>4. b.hook[r] = "done" /\ \A t \in Reports : t # r => b.hook[t] = call.hook[t]
    BY <1>1, <2>3 DEF Call
  <2>5. 1 \in Reports /\ 2 \in Reports /\ call.fallbacks \in Nat
    BY <1>1 DEF Reports, Call
  <2> HIDE DEF b
  <2>7. Early(b)
    BY <1>1, <1>2, <1>4, <2>1, <2>2, <2>4, <2>5 DEF CallLog, Early
  <2>8. Claim(b)
    <3>1. (b.hook[1] # "saving" /\ b.hook[2] # "saving") \/ ~ Routed(call)
      <4>1. Claim(call)
        BY <1>1 DEF CallLog
      <4> QED
        BY <1>2, <2>1, <2>4, <2>5, <4>1 DEF Claim, Routed
    <3>2. Routed(call) => call.claimed /\ call.fallbacks = 0
      <4>1. Claim(call)
        BY <1>1 DEF CallLog
      <4> QED
        BY <1>2, <2>1, <4>1 DEF Claim, Routed
    <3> QED
      BY <2>2, <2>5, <3>1, <3>2 DEF Claim, Routed
  <2>9. OneReport(b)
    BY <1>1, <1>2, <2>1, <2>2, <2>4, <2>5 DEF CallLog, OneReport
  <2>10. Pipeline(b)
    BY <2>2 DEF Pipeline
  <2> QED
    BY <2>1, <2>7, <2>8, <2>9, <2>10 DEF CallLog
<1> QED
  BY <1>6, <1>7, <1>8, <1>9, <1>10, <1>11 DEF ReportStep

LEMMA LogSweep ==
  ASSUME LogInv, CallSessionTypeOK', SweepDeadLetters, NEW c \in Calls
  PROVE  CallLog(calls'[c])
<1>1. calls[c] \in Call /\ calls'[c] \in Call
  BY DEF LogInv, CallSessionTypeOK
<1>2. calls'[c] = IF calls[c].job = "dead" THEN [calls[c] EXCEPT !.job = "queued", !.attempts = 0]
                  ELSE calls[c]
  BY DEF SweepDeadLetters
<1>3. Quiet(calls[c], calls'[c])
  BY <1>1, <1>2 DEF Quiet, Routed, Call
<1> QED
  BY <1>1, <1>3, QuietLog DEF LogInv

LEMMA LogCrash ==
  ASSUME LogInv, CallSessionTypeOK', Crash, NEW c \in Calls
  PROVE  CallLog(calls'[c])
<1> DEFINE call == calls[c]
           new == calls'[c]
<1>1. call \in Call /\ new = Lost(call) /\ CallLog(call)
  BY DEF LogInv, CallSessionTypeOK, Crash
<1>2. /\ new.phone = call.phone /\ new.route = call.route /\ new.claimed = call.claimed
      /\ new.fallbacks = call.fallbacks /\ new.logged = call.logged
      /\ new.aliased = call.aliased
      /\ new.faulty = (call.faulty \/ call.dial # "new")
      /\ new.dial \in {"new", "authorized"} => call.dial = "new"
  BY <1>1 DEF Lost, Call
<1>3. /\ new.hook[1] = (IF call.hook[1] = "idle" THEN "idle" ELSE "done")
      /\ new.hook[2] = (IF call.hook[2] = "idle" THEN "idle" ELSE "done")
  BY <1>1 DEF Lost, Call, Reports
<1>4. Early(new)
  BY <1>1, <1>2, <1>3 DEF CallLog, Early
<1>5. Claim(new)
  BY <1>1, <1>2, <1>3 DEF CallLog, Claim, Routed
<1>6. OneReport(new)
  BY <1>1, <1>2, <1>3 DEF CallLog, OneReport
<1>7. Pipeline(new)
  <2>1. CASE call.dial = "new"
    <3>1. call.phone # "over"
      BY <1>1, <2>1 DEF CallLog, Early
    <3>2. new.hook[1] = "idle" /\ new.hook[2] = "idle" /\ new.fallbacks = 0
      BY <1>1, <1>2, <1>3, <3>1 DEF CallLog, Early
    <3>3. ~ GivenUp(new)
      BY <3>2 DEF GivenUp, Reports
    <3> QED
      BY <3>3 DEF Pipeline
  <2>2. CASE call.dial # "new"
    BY <1>2, <2>2 DEF Pipeline
  <2> QED
    BY <2>1, <2>2
<1> QED
  BY <1>4, <1>5, <1>6, <1>7 DEF CallLog

LEMMA LogInit == CallSessionInit => LogInv
<1> SUFFICES ASSUME CallSessionInit, NEW c \in Calls
             PROVE  CallLog(calls[c])
  BY TypeInit DEF LogInv
<1>1. calls[c] = NewCall
  BY DEF CallSessionInit
<1> QED
  BY <1>1 DEF NewCall, CallLog, Early, Claim, OneReport, Pipeline, GivenUp, Routed, Reports

LEMMA LogNext == LogInv /\ [CallSessionNext]_vars => LogInv'
<1> SUFFICES ASSUME LogInv, [CallSessionNext]_vars
             PROVE  LogInv'
  OBVIOUS
<1>1. CallSessionTypeOK /\ CallSessionTypeOK'
  BY TypeNext DEF LogInv
<1>2. ASSUME NEW c \in Calls, CallLog(calls'[c]), HoldStep(c)
      PROVE  LogInv'
  BY <1>1, <1>2 DEF LogInv, HoldStep
<1>3. CASE UNCHANGED calls
  BY <1>1, <1>3 DEF LogInv
<1>4. CASE SweepDeadLetters
  BY <1>1, <1>4, LogSweep DEF LogInv
<1>5. CASE Crash
  BY <1>1, <1>5, LogCrash DEF LogInv
<1>6. ASSUME NEW c \in Calls, CallStep(c)
      PROVE  LogInv'
  BY <1>1, <1>2, <1>6, HoldCallStep, LogCallStep
<1>7. ASSUME NEW c \in Calls, NEW r \in Reports, ReportStep(c, r)
      PROVE  LogInv'
  BY <1>1, <1>2, <1>7, HoldReportStep, LogReportStep
<1>8. RechargeOrganization \/ UNCHANGED vars => UNCHANGED calls
  BY DEF RechargeOrganization, vars
<1> QED
  BY <1>3, <1>4, <1>5, <1>6, <1>7, <1>8, Steps

LEMMA LogInvImplies == LogInv => OneLogPerCall
<1> SUFFICES ASSUME LogInv, NEW c \in Calls
             PROVE  /\ (Routed(calls[c]) \/ calls[c].hook[2] = "idle") => calls[c].fallbacks <= 1
                    /\ (~ calls[c].faulty /\ (Routed(calls[c]) \/ calls[c].hook[2] = "idle"))
                         => Logs(calls[c]) <= IF calls[c].aliased THEN 2 ELSE 1
  BY DEF OneLogPerCall
<1> DEFINE call == calls[c]
<1>1. call \in Call /\ CallLog(call)
  BY DEF LogInv, CallSessionTypeOK
<1>2. /\ call.fallbacks \in Nat /\ call.claimed \in BOOLEAN
      /\ call.logged \in BOOLEAN /\ call.aliased \in BOOLEAN
  BY <1>1 DEF Call
<1>3. Routed(call) => call.fallbacks <= 1
  BY <1>1, <1>2 DEF CallLog, Claim
<1>4. call.hook[2] = "idle" => call.fallbacks <= 1
  BY <1>1 DEF CallLog, OneReport
<1>5. (~ call.faulty /\ call.logged /\ ~ call.aliased) => call.fallbacks = 0
  BY <1>1, <1>2 DEF CallLog, Pipeline, GivenUp
<1> HIDE DEF call
<1>6. (~ call.faulty /\ (Routed(call) \/ call.hook[2] = "idle"))
        => Logs(call) <= IF call.aliased THEN 2 ELSE 1
  BY <1>2, <1>3, <1>4, <1>5 DEF Logs
<1> QED
  BY <1>3, <1>4, <1>6 DEF call

(* However a call's stream's end, the provider's reports, retries and crashes     *)
(* interleave, the fallback logs it once, and beside the pipeline only if the  *)
(* media stream used another id.                                            *)
THEOREM SpecOneLogPerCall == CallSessionSpec => []OneLogPerCall
<1> QED
  BY LogNext, LogInit, LogInvImplies, PTL DEF CallSessionSpec
==============================================================================
