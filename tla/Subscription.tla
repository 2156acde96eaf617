------------------------------ MODULE Subscription ------------------------------
(***************************************************************************)
(* The subscription of one organization: quotes, payment requests and      *)
(* their review, the periods that approved payments buy, the credits of a  *)
(* period, access and its deadline, grace, and the two scheduled jobs that *)
(* start periods and end access.                                           *)
(*                                                                         *)
(* Every command runs in one serialized transaction of the organization    *)
(* (module UnitOfWork), so it is one action.  What interleaves is what the *)
(* command or the job read BEFORE its transaction: the clock, the version  *)
(* on the form a reviewer filled in, the state a renewal was offered for,  *)
(* the candidates a job scanned.  Time is counted in weeks.                *)
(***************************************************************************)
EXTENDS Integers, Sequences, FiniteSets

CONSTANTS
  Term,          \* length of a paid period (a month)
  Notice,        \* renewal opens so long before the end (renewalNoticeDays)
  QuoteLife,     \* a quote is payable for so long (quoteTtlSeconds)
  GraceAfter,    \* access continues so long after the end (postExpiryGraceDays)
  GraceMax,      \* the longest extension of one grace (maxDaysPerPeriod)
  TrialLengths,  \* lengths of a free trial
  MaxTime,       \* bound: the weeks explored
  MaxQuotes,     \* bound: quotes created
  MaxRequests,   \* bound: payment requests created
  MaxReviews,    \* bound: versions of all payment requests together
  MaxGraces,     \* bound: grace requests created
  MaxGrace       \* bound: the latest deadline a platform grace sets

ASSUME SubscriptionAssumption ==
  /\ Term \in Nat \ {0} /\ Notice \in Nat /\ QuoteLife \in Nat
  /\ GraceAfter \in Nat /\ GraceMax \in Nat
  /\ TrialLengths \subseteq Nat \ {0}
  /\ MaxTime \in Nat /\ MaxQuotes \in Nat /\ MaxRequests \in Nat
  /\ MaxReviews \in Nat /\ MaxGraces \in Nat /\ MaxGrace \in Nat

VARIABLES
  now,          \* the clock
  sub,          \* the row of organization_subscriptions
  periods,      \* billing_periods, in the order of their creation
  quotes,       \* billing_quotes, each with its subscription period link
  requests,     \* billing_payment_requests
  grants,       \* billing_credit_grants: the period, and from when until when
  grace,        \* billing_subscription_grace_requests
  renewing,     \* the moment an open createRenewalQuote() read the state
  activation,   \* the run of activateDuePeriods()
  enforcement,  \* the run of enforceExpiredAccess()
  enforced      \* deadlines whose enforcement operation is stored

vars == <<now, sub, periods, quotes, requests, grants, grace, renewing,
          activation, enforcement, enforced>>
jobVars == <<activation, enforcement>>

NoDeadline == -1
Nothing == -1

Idle == [at |-> 0, todo |-> {}]
NoCandidate == [at |-> 0, deadline |-> NoDeadline]

Larger(a, b) == IF a > b THEN a ELSE b

SubscriptionInit ==
  /\ now = 0
  /\ sub = [lifecycle |-> "none", current |-> 0, access |-> "none",
            cause |-> "none", deadline |-> NoDeadline]
  /\ periods = <<>> /\ quotes = <<>> /\ requests = <<>> /\ grants = <<>>
  /\ grace = <<>>
  /\ renewing = Nothing
  /\ activation = Idle
  /\ enforcement = NoCandidate
  /\ enforced = {}

-----------------------------------------------------------------------------
(* What a command reads                                                      *)

\* clock.now() is read before the transaction: it may have waited for the
\* organization's lock while a boundary passed.
Recent == {t \in {now - 1, now} : t >= 0}

\* validateQuoteForSubmission: draft or accepted, unpaid and not expired.
Payable(q, at) ==
  /\ quotes[q].status \in {"draft", "accepted"}
  /\ quotes[q].until > at

UnderReview(q) ==
  \E r \in DOMAIN requests :
    /\ requests[r].quote = q
    /\ requests[r].status \in {"pending_verification", "needs_clarification"}

\* getCurrentPeriodForUpdate
CurrentAt(at) ==
  {p \in DOMAIN periods : periods[p].start <= at /\ at < periods[p].end}

\* The period that state() of the renewal shows: the active one that ends last.
Shown ==
  {p \in DOMAIN periods :
     /\ periods[p].status = "active"
     /\ \A o \in DOMAIN periods :
          periods[o].status = "active" => periods[o].end <= periods[p].end}

LatestRenewal ==
  {q \in DOMAIN quotes :
     /\ quotes[q].type = "renewal"
     /\ \A o \in DOMAIN quotes : quotes[o].type = "renewal" => o <= q}

AddQuote(type, until) ==
  /\ Len(quotes) < MaxQuotes
  /\ quotes' = Append(quotes, [type |-> type, status |-> "draft",
                               until |-> until, link |-> "awaiting_payment",
                               period |-> 0])

-----------------------------------------------------------------------------
(* Provisioning                                                              *)

\* provision(): the first quote creates the subscription in recovery; another
\* request key adds a quote as long as no period has started.
ProvisionInitialQuote ==
  /\ sub.lifecycle \in {"none", "onboarding"}
  /\ sub' = [lifecycle |-> "onboarding", current |-> 0,
             access |-> "billing_recovery",
             cause |-> "initial_subscription_unpaid",
             deadline |-> NoDeadline]
  /\ AddQuote("purchase", now + QuoteLife)
  /\ UNCHANGED <<now, periods, requests, grants, grace, renewing, enforced,
                 jobVars>>

\* provisionFreeTrial(): the trial is inserted as an active period with its
\* own credits, and access ends with it.
ProvisionFreeTrial(length) ==
  /\ sub.lifecycle = "none"
  /\ periods' = <<[start |-> now, end |-> now + length, status |-> "active",
                   trial |-> TRUE, payment |-> 0]>>
  /\ sub' = [lifecycle |-> "active", current |-> 1, access |-> "operational",
             cause |-> "none", deadline |-> now + length]
  /\ grants' = <<[period |-> 1, from |-> now, until |-> now + length]>>
  /\ UNCHANGED <<now, quotes, requests, grace, renewing, enforced, jobVars>>

-----------------------------------------------------------------------------
(* Renewal quotes                                                            *)

\* createRenewalQuote() before its transaction: a period in its notice window
\* or ended, and the latest renewal quote neither under review nor payable.
ReadRenewal ==
  /\ renewing = Nothing
  /\ \E p \in Shown : now >= periods[p].end - Notice
  /\ \A q \in LatestRenewal : ~UnderReview(q) /\ ~Payable(q, now)
  /\ renewing' = now
  /\ UNCHANGED <<now, sub, periods, quotes, requests, grants, grace, enforced,
                 jobVars>>

\* In the transaction: a renewal link that is funded, or still payable.
PriorRenewal(at) ==
  \E q \in DOMAIN quotes :
    /\ quotes[q].type = "renewal"
    /\ \/ quotes[q].link = "scheduled"
       \/ quotes[q].link = "awaiting_payment" /\ quotes[q].until > at

CreateRenewalQuote ==
  /\ renewing # Nothing
  /\ ~PriorRenewal(renewing)
  /\ AddQuote("renewal", renewing + QuoteLife)
  /\ renewing' = Nothing
  /\ UNCHANGED <<now, sub, periods, requests, grants, grace, enforced, jobVars>>

\* The transaction refuses, or the request is never finished.
RenewalNotCreated ==
  /\ renewing # Nothing
  /\ renewing' = Nothing
  /\ UNCHANGED <<now, sub, periods, quotes, requests, grants, grace, enforced,
                 jobVars>>

-----------------------------------------------------------------------------
(* Payment proofs and their review                                           *)

\* Submissions and decisions so far (only a bound).
Reviews ==
  LET total[n \in Nat] ==
        IF n = 0 THEN 0 ELSE total[n - 1] + requests[n].version
  IN total[Len(requests)]

\* create(): one open request for a quote; the draft becomes accepted.
SubmitPayment(q) ==
  \E at \in Recent :
    /\ Len(requests) < MaxRequests /\ Reviews < MaxReviews
    /\ Payable(q, at)
    /\ ~UnderReview(q)
    /\ quotes' = [quotes EXCEPT ![q].status = "accepted"]
    /\ requests' = Append(requests, [quote |-> q, version |-> 1, proof |-> 1,
                                     status |-> "pending_verification",
                                     judged |-> 0, period |-> 0])
    /\ UNCHANGED <<now, sub, periods, grants, grace, renewing, enforced,
                   jobVars>>

\* resubmit(): a new proof for a request that asked for clarification; the
\* quote is validated again, its expiry included.
Resubmit(r) ==
  \E at \in Recent :
    /\ requests[r].status = "needs_clarification"
    /\ Reviews < MaxReviews
    /\ Payable(requests[r].quote, at)
    /\ requests' = [requests EXCEPT ![r].status = "pending_verification",
                                    ![r].version = @ + 1,
                                    ![r].proof = requests[r].version + 1]
    /\ UNCHANGED <<now, sub, periods, quotes, grants, grace, renewing,
                   enforced, jobVars>>

\* decide(): the reviewer's form names the version it was shown.
Decidable(r, seen) ==
  /\ requests[r].version = seen
  /\ requests[r].status = "pending_verification"

\* saveDecision; "judged" records the version the decision was made about.
Decided(r, seen, status, period) ==
  [requests EXCEPT ![r].status = status, ![r].version = @ + 1,
                   ![r].judged = seen, ![r].period = period]

\* Reject, or ask for clarification: only the request changes.
Refuse(r, seen, status) ==
  /\ Reviews < MaxReviews
  /\ Decidable(r, seen)
  /\ requests' = Decided(r, seen, status, 0)
  /\ UNCHANGED <<now, sub, periods, quotes, grants, grace, renewing, enforced,
                 jobVars>>

\* previewSubscriptionPeriod: behind the period that runs at the approval.
ScheduledStart(at) ==
  IF CurrentAt(at) = {} THEN at
  ELSE periods[CHOOSE p \in CurrentAt(at) : TRUE].end

(* Mutant: only the first moment of the new period is tested. *)
Overlaps_StartOnly(start, end) ==
  \E p \in DOMAIN periods : periods[p].start <= start /\ periods[p].end > start

\* insertScheduledPeriod
Overlaps(start, end) ==
  \E p \in DOMAIN periods : periods[p].start < end /\ periods[p].end > start

TrialConversion(at) ==
  \E p \in CurrentAt(at) : periods[p].trial /\ periods[p].status = "active"

(* Mutant: the term of early credits is counted from the approval. *)
CreditsAtApproval_FromApproval(p, at, start) ==
  IF TrialConversion(at) /\ start > at
  THEN Append(grants, [period |-> p, from |-> at, until |-> at + Term])
  ELSE grants

\* The credits of a trial's conversion are issued with the approval.
CreditsAtApproval(p, at, start) ==
  IF TrialConversion(at) /\ start > at
  THEN Append(grants, [period |-> p, from |-> at, until |-> start + Term])
  ELSE grants

(* Mutant: the link is funded and the quote is left as it was. *)
QuotePaid_LinkOnly(q, p) ==
  [quotes EXCEPT ![q].link = "scheduled", ![q].period = p]

\* markQuotePaid, and fundPeriodLinkForQuote.
QuotePaid(q, p) ==
  [quotes EXCEPT ![q].status = "paid", ![q].link = "scheduled",
                 ![q].period = p]

\* Approve: request, quote, link, period and early credits in one transaction.
\* The expiry of the quote is not checked again.
Approve(r, seen) ==
  \E at \in Recent :
    LET q == requests[r].quote
        p == Len(periods) + 1
        start == ScheduledStart(at)
    IN /\ Reviews < MaxReviews
       /\ Decidable(r, seen)
       /\ quotes[q].status = "accepted"
       /\ Cardinality(CurrentAt(at)) <= 1
       /\ ~Overlaps(start, start + Term)
       /\ requests' = Decided(r, seen, "approved", p)
       /\ quotes' = QuotePaid(q, p)
       /\ periods' = Append(periods, [start |-> start, end |-> start + Term,
                                      status |-> "scheduled", trial |-> FALSE,
                                      payment |-> r])
       /\ grants' = CreditsAtApproval(p, at, start)
       /\ UNCHANGED <<now, sub, grace, renewing, enforced, jobVars>>

-----------------------------------------------------------------------------
(* Activation of due periods                                                 *)

Funded(p) ==
  \E r \in DOMAIN requests :
    /\ r = periods[p].payment
    /\ requests[r].status = "approved" /\ requests[r].period = p

\* listDueActivations: read without lock.
DueActivations(at) ==
  {p \in CurrentAt(at) : periods[p].status = "scheduled" /\ Funded(p)}

\* A run's scan; a run without candidates changes nothing.
StartActivation ==
  /\ activation = Idle /\ DueActivations(now) # {}
  /\ activation' = [at |-> now, todo |-> DueActivations(now)]
  /\ UNCHANGED <<now, sub, periods, quotes, requests, grants, grace, renewing,
                 enforcement, enforced>>

Granted(p) == \E i \in DOMAIN grants : grants[i].period = p

\* Credits issued with the approval must be those of this period.
GrantMatches(p) ==
  \A i \in DOMAIN grants :
    grants[i].period = p =>
      grants[i].from <= periods[p].start /\ grants[i].until = periods[p].end

\* activatePeriod and evaluatePeriodActivation, with the clock of the scan.
Activatable(p, at) ==
  /\ periods[p].status = "scheduled" /\ Funded(p)
  /\ p \in CurrentAt(at)
  /\ \A o \in DOMAIN periods \ {p} :
       periods[o].end <= periods[p].start \/ periods[p].end <= periods[o].start
  /\ GrantMatches(p)

(* Mutant: the deadline of the period before stays. *)
Restored_OldDeadline(p) ==
  [lifecycle |-> "active", current |-> p, access |-> "operational",
   cause |-> "none", deadline |-> sub.deadline]

\* activateLinkedPeriod: the period becomes current, access is restored and
\* its deadline is that of this period.
Restored(p) ==
  [lifecycle |-> "active", current |-> p, access |-> "operational",
   cause |-> "none", deadline |-> periods[p].end + GraceAfter]

(* Mutant: credits are issued whether or not the approval issued them. *)
CreditsAtActivation_Again(p) ==
  Append(grants, [period |-> p, from |-> periods[p].start,
                  until |-> periods[p].end])

CreditsAtActivation(p) ==
  IF Granted(p) THEN grants
  ELSE Append(grants, [period |-> p, from |-> periods[p].start,
                       until |-> periods[p].end])

\* The run has processed p: another candidate, or the end of the run.
ActivationAfter(p) ==
  IF activation.todo = {p} THEN Idle ELSE [activation EXCEPT !.todo = @ \ {p}]

\* One candidate, in its own transaction; an error that is not retryable
\* leaves it blocked and the run goes on.
ActivateNext ==
  \E p \in activation.todo :
    /\ \A o \in activation.todo : periods[p].start <= periods[o].start
    /\ activation' = ActivationAfter(p)
    /\ IF Activatable(p, activation.at)
       THEN /\ periods' = [periods EXCEPT ![p].status = "active"]
            /\ quotes' = [q \in DOMAIN quotes |->
                            IF quotes[q].period = p
                            THEN [quotes[q] EXCEPT !.link = "active"]
                            ELSE quotes[q]]
            /\ sub' = Restored(p)
            /\ grants' = CreditsAtActivation(p)
       ELSE UNCHANGED <<periods, quotes, sub, grants>>
    /\ UNCHANGED <<now, requests, grace, renewing, enforcement, enforced>>

\* A retryable error ends the run; the next one, within the week, scans again.
ActivationAborts ==
  /\ activation # Idle /\ activation.at = now
  /\ activation' = Idle
  /\ UNCHANGED <<now, sub, periods, quotes, requests, grants, grace, renewing,
                 enforcement, enforced>>

-----------------------------------------------------------------------------
(* Enforcement of expired access                                             *)

\* listDueAccessRestrictions, and the same test under the row's lock.
RestrictionDue(at) ==
  /\ sub.deadline # NoDeadline /\ sub.deadline <= at
  /\ sub.access \in {"operational", "billing_recovery"}

StartEnforcement ==
  /\ enforcement = NoCandidate /\ RestrictionDue(now)
  /\ enforcement' = [at |-> now, deadline |-> sub.deadline]
  /\ UNCHANGED <<now, sub, periods, quotes, requests, grants, grace, renewing,
                 activation, enforced>>

(* Mutant: one operation per organization, not per deadline. *)
EnforceExpiredAccess_Once ==
  /\ enforcement # NoCandidate
  /\ sub' = IF enforced = {} /\ RestrictionDue(enforcement.at)
            THEN [sub EXCEPT !.access = "billing_suspended",
                             !.cause = "subscription_expired"]
            ELSE sub
  /\ enforced' = enforced \cup {enforcement.deadline}
  /\ enforcement' = NoCandidate
  /\ UNCHANGED <<now, periods, quotes, requests, grants, grace, renewing,
                 activation>>

\* One operation per deadline, stored with whatever it did; the row is read
\* again under its lock and compared with the clock of the scan.
EnforceExpiredAccess ==
  /\ enforcement # NoCandidate
  /\ sub' = IF enforcement.deadline \notin enforced
               /\ RestrictionDue(enforcement.at)
            THEN [sub EXCEPT !.access = "billing_suspended",
                             !.cause = "subscription_expired"]
            ELSE sub
  /\ enforced' = enforced \cup {enforcement.deadline}
  /\ enforcement' = NoCandidate
  /\ UNCHANGED <<now, periods, quotes, requests, grants, grace, renewing,
                 activation>>

EnforcementAborts ==
  /\ enforcement # NoCandidate /\ enforcement.at = now
  /\ enforcement' = NoCandidate
  /\ UNCHANGED <<now, sub, periods, quotes, requests, grants, grace, renewing,
                 activation, enforced>>

-----------------------------------------------------------------------------
(* Grace                                                                     *)

\* The later of the end of a period and the present deadline.
GraceBase(p) == Larger(periods[p].end, sub.deadline)

\* assertRequestedUntil
GraceUntil(p, at) ==
  {t \in (GraceBase(p) + 1)..(GraceBase(p) + GraceMax) : t > at}

\* createRequest(): for the current period, once (a unique key of the table).
RequestGrace ==
  /\ sub.current # 0 /\ Len(grace) < MaxGraces
  /\ \A g \in DOMAIN grace : grace[g].period # sub.current
  /\ \E until \in GraceUntil(sub.current, now) :
       grace' = Append(grace, [period |-> sub.current, until |-> until,
                               status |-> "requested"])
  /\ UNCHANGED <<now, sub, periods, quotes, requests, grants, renewing,
                 enforced, jobVars>>

\* decide(approve): no more than was asked, beyond the deadline of today.
ApproveGrace(g) ==
  /\ grace[g].status = "requested"
  /\ \E at \in Recent : \E until \in GraceUntil(grace[g].period, at) :
       /\ until <= grace[g].until
       /\ sub' = [sub EXCEPT
                    !.access = IF @ = "billing_suspended" THEN "operational"
                               ELSE @,
                    !.cause = IF sub.access = "billing_suspended" THEN "none"
                              ELSE @,
                    !.deadline = until]
  /\ grace' = [grace EXCEPT ![g].status = "approved"]
  /\ UNCHANGED <<now, periods, quotes, requests, grants, renewing, enforced,
                 jobVars>>

DenyGrace(g) ==
  /\ grace[g].status = "requested"
  /\ grace' = [grace EXCEPT ![g].status = "denied"]
  /\ UNCHANGED <<now, sub, periods, quotes, requests, grants, renewing,
                 enforced, jobVars>>

\* grantPlatformGrace(): as often as the platform likes.
GrantPlatformGrace(days) ==
  LET base == Larger(now, GraceBase(sub.current)) IN
  /\ sub.current # 0
  /\ base + days <= MaxGrace
  /\ sub' = [sub EXCEPT !.access = "operational", !.cause = "none",
                        !.deadline = base + days]
  /\ UNCHANGED <<now, periods, quotes, requests, grants, grace, renewing,
                 enforced, jobVars>>

-----------------------------------------------------------------------------
(* Time.  The jobs are scheduled every five minutes: within a week they      *)
(* have found and done all there is, or are about to.  What was read before  *)
(* a boundary is used, if at all, shortly after it.                          *)

Tick ==
  /\ now < MaxTime
  /\ IF activation = Idle THEN DueActivations(now) = {} ELSE activation.at = now
  /\ IF enforcement = NoCandidate THEN ~RestrictionDue(now)
     ELSE enforcement.at = now
  /\ renewing \in {Nothing, now}
  /\ now' = now + 1
  /\ UNCHANGED <<sub, periods, quotes, requests, grants, grace, renewing,
                 enforced, jobVars>>

ReviewStep ==
  \E r \in DOMAIN requests, seen \in 1..MaxReviews :
    \/ Approve(r, seen)
    \/ \E status \in {"rejected", "needs_clarification"} : Refuse(r, seen, status)

PaymentStep ==
  \/ \E q \in DOMAIN quotes : SubmitPayment(q)
  \/ \E r \in DOMAIN requests : Resubmit(r)

RenewalStep == ReadRenewal \/ CreateRenewalQuote \/ RenewalNotCreated

ActivationStep == StartActivation \/ ActivateNext

EnforcementStep == StartEnforcement \/ EnforceExpiredAccess

GraceStep ==
  \/ RequestGrace
  \/ \E g \in DOMAIN grace : ApproveGrace(g) \/ DenyGrace(g)
  \/ \E days \in 1..GraceMax : GrantPlatformGrace(days)

SubscriptionNext ==
  \/ ProvisionInitialQuote
  \/ \E length \in TrialLengths : ProvisionFreeTrial(length)
  \/ RenewalStep
  \/ PaymentStep
  \/ ReviewStep
  \/ ActivationStep
  \/ ActivationAborts
  \/ EnforcementStep
  \/ EnforcementAborts
  \/ GraceStep
  \/ Tick

\* The scheduler starts both jobs again and again, and a retryable error does
\* not meet the same run for ever.
SubscriptionSpec ==
  /\ SubscriptionInit /\ [][SubscriptionNext]_vars
  /\ WF_vars(StartActivation) /\ SF_vars(ActivateNext)
  /\ WF_vars(StartEnforcement) /\ SF_vars(EnforceExpiredAccess)

-----------------------------------------------------------------------------
(* Properties                                                                *)

Periods ==
  [start : Nat, end : Nat, status : {"scheduled", "active"}, trial : BOOLEAN,
   payment : Nat]
Quotes ==
  [type : {"purchase", "renewal"}, status : {"draft", "accepted", "paid"},
   until : Nat, link : {"awaiting_payment", "scheduled", "active"},
   period : Nat]
PaymentRequests ==
  [quote : Nat, version : Nat, proof : Nat,
   status : {"pending_verification", "needs_clarification", "approved",
             "rejected"},
   judged : Nat, period : Nat]
Grants == [period : Nat, from : Nat, until : Nat]
GraceRequests ==
  [period : Nat, until : Nat, status : {"requested", "approved", "denied"}]

\* Every reference from one row to another, and from a run of the activation
\* job to its candidates, is to a row that exists (0 where there is none).
ReferencesExist ==
  /\ sub.current <= Len(periods)
  /\ \A p \in DOMAIN periods : periods[p].payment <= Len(requests)
  /\ \A q \in DOMAIN quotes : quotes[q].period <= Len(periods)
  /\ \A r \in DOMAIN requests :
       /\ requests[r].quote \in DOMAIN quotes
       /\ requests[r].period <= Len(periods)
  /\ \A i \in DOMAIN grants : grants[i].period \in DOMAIN periods
  /\ \A g \in DOMAIN grace : grace[g].period \in DOMAIN periods
  /\ activation.todo \subseteq DOMAIN periods

\* Every variable keeps its type, and every reference is to a row that exists.
TypeOK ==
  /\ now \in Nat
  /\ sub \in [lifecycle : {"none", "onboarding", "active"}, current : Nat,
              access : {"none", "operational", "billing_recovery",
                        "billing_suspended"},
              cause : {"none", "initial_subscription_unpaid",
                       "subscription_expired"},
              deadline : Int]
  /\ periods \in Seq(Periods) /\ quotes \in Seq(Quotes)
  /\ requests \in Seq(PaymentRequests)
  /\ grants \in Seq(Grants) /\ grace \in Seq(GraceRequests)
  /\ renewing \in {Nothing} \cup Nat
  /\ activation \in [at : Nat, todo : SUBSET Nat]
  /\ enforcement \in [at : Nat, deadline : Int]
  /\ ReferencesExist

\* No two periods of the organization share a moment, whichever quotes were
\* bought, approved late or approved together (insertScheduledPeriod).
PeriodsAreDisjoint ==
  \A p, o \in DOMAIN periods :
    p # o => \/ periods[p].end <= periods[o].start
             \/ periods[o].end <= periods[p].start

\* Each approved payment bought exactly one period and each paid quote exactly
\* one payment; a period has a paid link, and no rejected payment has one.
PaymentFundsOnePeriod ==
  /\ \A r \in DOMAIN requests :
       requests[r].status = "approved" <=>
         \E p \in DOMAIN periods :
           periods[p].payment = r /\ requests[r].period = p
  /\ \A p \in DOMAIN periods : ~periods[p].trial => Funded(p)
  /\ \A q \in DOMAIN quotes :
       quotes[q].status = "paid" <=>
         \E r \in DOMAIN requests :
           /\ requests[r].quote = q /\ requests[r].status = "approved"
           /\ quotes[q].period = requests[r].period
           /\ \A o \in DOMAIN requests :
                requests[o].quote = q /\ requests[o].status = "approved" => o = r

\* The credits of a period are issued once, by the approval that converts a
\* trial or by the activation, and expire with their period.
CreditsIssuedOnce ==
  /\ \A i, j \in DOMAIN grants : grants[i].period = grants[j].period => i = j
  /\ \A i \in DOMAIN grants : grants[i].until = periods[grants[i].period].end
  /\ \A p \in DOMAIN periods : periods[p].status = "active" => Granted(p)

\* A decision stands for the proof its reviewer saw: a proof uploaded since,
\* after another reviewer asked for clarification, makes the form stale.
JudgedAsSeen ==
  \A r \in DOMAIN requests :
    requests[r].status \in {"approved", "rejected"} =>
      requests[r].judged = requests[r].proof

\* Access is never suspended before its deadline, although the job scans
\* without lock and payments and grace are granted before it writes.
NotSuspendedEarly ==
  sub.access = "billing_suspended" =>
    sub.deadline # NoDeadline /\ sub.deadline <= now

\* enforceSubscriptionAccess of the request boundary
GateOpen ==
  /\ sub.access = "operational"
  /\ sub.deadline = NoDeadline \/ sub.deadline > now

\* While an activated period runs, the organization is let in.
RunningPeriodIsOpen ==
  \A p \in CurrentAt(now) : periods[p].status = "active" => GateOpen

\* A paid period that is due is started, and none runs out unserved.
PaidPeriodStarts ==
  \A p \in 1..MaxRequests :
    (p \in DOMAIN periods /\ periods[p].start <= now) ~>
      (p \in DOMAIN periods /\ periods[p].status = "active")

\* Access whose deadline passes is suspended or extended in the end.
LapsedAccessEnds ==
  RestrictionDue(now) ~> ~RestrictionDue(now)

\* docs/subscription-lifecycle-tasks.md:13 "Renewal becomes available seven
\* days before the paid period ends and remains available while overdue": in
\* that time an open payment of the latest renewal quote, which keeps every new
\* renewal out, can be decided by the platform or answered by the customer.
RenewalStaysAvailable ==
  \A p \in Shown :
    now >= periods[p].end - Notice =>
      \A r \in DOMAIN requests :
        requests[r].quote \in LatestRenewal =>
          \/ requests[r].status # "needs_clarification"
          \/ Payable(requests[r].quote, now)

==============================================================================
