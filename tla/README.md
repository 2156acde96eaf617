# Formal models of the CRM / calling backend

TLA+ specifications of the parts of this backend in which a mistake costs money
or loses work: the transactions that charge, hold and return credits, and the
queues that carry what happened to whoever must act on it. Each module is a
translation of the code it names; `PROJECT.json` gives, for every definition,
the file and the lines it stands for (`map`), and for every hazard in the code
the properties that watch it (`hazards`).

Paths below are relative to the repository, `src/src/...` being its `src/`
directory. Check a configuration with `tlc -workers 2 -config X.cfg M`, a proof
with `tlapm M.tla`.

## 1. The system

A Node.js service for call centres: organizations with workspaces, leads and
AI-driven telephone campaigns, paid for from prepaid credit grants, from
subscription allowances or on a postpaid account. It runs as several processes
(API, scheduler, callback scheduler, workers) over one MySQL database. The
database is the only shared state; a process keeps timers, caches, an in-memory
queue and a connection pool of its own.

| component | state it keeps | operations | talks to |
|---|---|---|---|
| **Billing unit of work** `billing/adapters/mysql/unitOfWork.js`, `commandOperationRepository.js`, `db/pool.js` | account row, one operation row per idempotency key, pooled connections | `runFinancial`, `runLifecycle`: connect, lock the account, look the key up, run the callback, store its answer, commit, retry on deadlock | every financial command is its callback |
| **Usage funding and settlement** `billing/application/*`, `modules/funding`, `modules/credits`, `modules/postpaid` | grants, positions, reservations and their lines, usage events, settlements, journal, exposure of the postpaid period | reserve, extend, release, record usage, settle (consume, overrun, correct), expire grants | callback of the unit of work; called by the telephony and AI usage adapters; its events go to the outbox |
| **Outbox, inbox, job worker** `billing/adapters/mysql/outboxStore.js`, `inboxConsumer.js`, `consumerRunner.js`, `adapters/jobs/worker.js` | `billing_outbox` rows with status, attempts, lease and fencing token; inbox rows; the worker's cursor | enqueue, list ready organizations, claim, handle, acknowledge, fail, reject | filled by the commands of the unit of work, started by the scheduler |
| **Email delivery** `billing/adapters/delivery/*` | delivery rows with status, attempts, lease and fencing token | enqueue, claim, send, settle | filled by the outbox's handlers; calls the mail server |
| **Subscription lifecycle, periods, access, grace** `billing/modules/subscriptions/*` | subscription, periods, grace requests, access restriction | purchase, renew, change, activate periods, restrict and restore access | payments, credit grants, scheduler |
| **Payments** `billing/modules/payments/*` | payment requests, their proofs and decisions | submit, resubmit, ask for clarification, approve, reject | grants credits, opens periods, pays invoices |
| **Credit allocations** `billing/modules/allocations/*` | organization and workspace positions, allocation runs | allocate, return, automatic allocation after a payment | positions of usage funding |
| **Postpaid invoices** `billing/modules/postpaid/*` | periods, invoices, credit notes, payments | close a period, adjust late, credit, pay | exposure of usage funding |
| **Reservation recovery** `billing/adapters/jobs/recovery/*` | none of its own | release reservations that are due | calls `releaseUsage`; no schedule of the repository starts it |
| **Catalog, terms, quotes, rating** `billing/modules/catalog/*`, `adapters/usage/rating.js` | versions of plans and prices | publish, quote, rate | read by funding and subscriptions |
| **Auto-dial and redial** `crm/autoDialEngine.js`, `crm/dialerRetryEngine.js`, claims in `db/repository.js` | dialer tasks and their current lead, call logs with retry status | pick a lead, claim, dial, schedule a retry, recover stale claims | scheduler, job queue, telephony |
| **Job queue, circuit breaker** `queue/*` | pending jobs and timers in memory, breaker state | add, run, retry, trip, try again | dialer, post-call processing |
| **Scheduler** `scheduler/*` | one running flag per schedule and process | tick | starts the jobs of all the others |
| **Telephony sessions** `telephony/vobiz/*`, `telephony/callFinalizer.js` | live sessions and caches in memory, call routes and call logs in the database | authorize, dial, stream, finalize, Hangup webhook | wallet, job queue, auto-dial, redial |
| **Older wallet billing** `crm/rechargeBilling.js` | balance and reserved amount of an organization, one reservation per call | authorize, reserve, release, settle, recharge | telephony sessions |
| **Everything else** routes, authorization, agents, channels, provisioning, retention, read models | rows read and written by single statements | CRUD, calls to external services | listed in `PROJECT.json` with the reason each is left out |

What makes them hard, and what must hold:

* *Unit of work.* Two API processes, a client that repeats a request, a
  `COMMIT` whose answer is lost, a deadlock in the middle, an operator placing
  the account on hold meanwhile. A key must take effect once, every successful
  answer must be the stored one, what was read under the lock must stay true,
  and no path may keep a connection.
* *Funding and settlement.* A call is funded ahead over several grants that
  expire at different times and then postpaid; its usage arrives later, in
  cumulative revisions that may go up or down, possibly after the grants have
  expired and been swept. No credit may be lost or made, no hold may exceed what
  backs it, limits must hold in every order of commands.
* *Outbox.* Workers die between the handler's commit and the acknowledgement,
  or outlive their lease and go on. An event must have its effect once, must
  end up settled, a stale worker must not settle what another one has claimed,
  and no tenant's backlog may starve the others.
* *Email delivery.* The same leases over an effect that cannot be rolled back: a
  worker dies between sending and settling, or settles after somebody else has
  claimed the row. A row must not lie about its mail, a second mail needs a
  fault, every mail must end.
* *Subscriptions and payments.* Jobs that scan without a lock and act later,
  reviewers who decide on a form that has changed since, clocks read before the
  transaction. Periods must not overlap, a payment must buy exactly one of them,
  its credits must be issued once, and an organization whose period runs must be
  let in.
* *Postpaid invoices.* Corrections, payments and credit notes reduce the same
  debt, each by rules of its own, while the period is closed again and again; one
  invoice is for all workspaces of an organization, the debt is kept for each.
  Nothing may be taken off twice or off another one's debt, and what is payable
  should be accepted: only corrections stand in the way of that.
* *Auto-dial and redial.* Claims by guarded `UPDATE`s from several scheduler
  instances, leases that are returned although the work may still run, and many
  unguarded patches from rows read earlier. No call may be placed twice, no
  result may be lost, and no campaign may hang.
* *Telephony sessions.* Two sources report the end of one call, in either order,
  late, twice or not at all, and the caches that tie them together expire. One
  log, one settlement, and no reservation that is forgotten.

## 2. Modules

| module | models | depends on |
|---|---|---|
| `IdempotentCommand` | abstract: what an idempotency key promises | |
| `UnitOfWork` | the unit of work, for one organization | refines `IdempotentCommand` |
| `UsageFunding` | usage funding and settlement of one workspace; its commands are callbacks of `UnitOfWork` | |
| `SumTheorems` | lemmas about sums over finite sets, for the proofs | |
| `UsageFundingProofs` | theorems of `UsageFunding` | `UsageFunding`, `SumTheorems` |
| `EventDelivery` | abstract: what the outbox promises of an event | |
| `OutboxDelivery` | outbox, worker, consumer transaction, inbox | refines `EventDelivery` |
| `OutboxDeliveryProofs` | theorems of `OutboxDelivery` and of `FairClaims` | `OutboxDelivery`, `FairClaims`, `SumTheorems` |
| `FairClaims` | whose event is claimed next | |
| `Redial` | automatic redial of calls nobody answered | |
| `RedialProofs` | theorems of `Redial` | `Redial`, `SumTheorems` |
| `AutoDial` | one background campaign and all writers of its row | |
| `AutoDialProofs` | theorems of `AutoDial` | `AutoDial`, `SumTheorems` |
| `CallSession` | outbound calls paid from a wallet, from the reservation to log and settlement | |
| `CallSessionProofs` | theorems of `CallSession` | `CallSession`, `SumTheorems` |
| `Subscription` | the subscription of one organization, its payments, periods, access and jobs | |
| `SubscriptionProofs` | theorems of `Subscription` | `Subscription` |
| `Invoices` | postpaid debt, invoices, payments and credit notes of one period | |
| `EmailDelivery` | billing mail: leases, sending, settling | |
| `BillingProofs` | theorems of `UnitOfWork`, `Invoices` and `EmailDelivery` | `UnitOfWork`, `Invoices`, `EmailDelivery`, `SumTheorems` |
| `MC...` | values of the constants for the model checker | |

### UnitOfWork

One organization (organizations share no row of these tables). A *caller* is an
asynchronous call of `runFinancial` or `runLifecycle`, in one of several
processes each with a pool of its own. `pc[c]` is the statement the caller is
about to send; one action per statement: `Connect` / `QueueFull`
(`pool.connect`), `LockAccount` (`SELECT ... FOR UPDATE`), `RefuseAccount`,
`FindCompleted` and `RefusePrior` (`findForUpdate` and what it decides),
`StartCommand`, `RunCallback` / `CallbackFails`, `CompleteCommand`, `Commit`,
`CommitReplay`. Errors are actions too: `Deadlock`, `Retry`, `DeadlockLast`
(the retry budget), `ConnectionLost`, `CommitAckLost` (the commit took effect and nobody
was told), `Crash` of a process with all its callers; `WriteAccount` is the
operator. An open transaction's writes are in `draft` and reach `command` and
`applied` at its commit. `applied` is a history variable: how often the callback
of a key took effect. The callback itself is abstract: it returns some result or
throws.

### UsageFunding

One workspace, one postpaid period. `ledger` holds what is committed: positions
of the grants, reservations and their lines, usage events, settlements, journal,
postpaid exposure. A command runs as one transaction on `tx.draft`, one step per
iteration of the code's loops, and commits or throws it away. Commands of an
organization do not interleave: that is `LockSerializes` of `UnitOfWork`, proved
there, and the reason there is one `tx`. `now` is taken before the transaction
gets its lock, as in the code, so it may be `MaxWait` instants old.

`BeginReserve` and `BeginExtend` fund step by step (`HoldCredits` from the
grants in the planner's order, `HoldPostpaid` past them), `ReleaseLine` returns
a line, `BeginSettle` computes the difference to the previous revision and then
consumes (`ConsumeLine`), runs over (`Overrun`) or reverses (`RestoreCredits`,
`ForfeitCredits` for a grant that has expired meanwhile, `ReversePostpaid`), a
final settlement releases the rest; `ExpireGrant` is the expiry job,
`RecordEvent` the provider adapter: revisions are recorded in any order and at any
time, and settled in any other, since the two are transactions of their own. What a
settlement takes as predecessor is the latest revision *recorded* before it
(`Previous`), settled or not. `unposted` and `outOfTurn` are histories: the settlements that
left no journal entry, and the components of which a revision was settled before the
one recorded before it or after a later one (`InTurn`). Guards of the accounting layer
(`planAvailableMovement`, `planHold`, `reserveExposure` and the like) are conditions of the
steps: a step that the code refuses rolls the command back.

### OutboxDelivery

`outbox[e]` is the event's row: status, attempts, fencing token, and whether its
times have passed (`ready` for `available_at`, `lapsed` for
`lease_expires_at`). A worker's tick claims up to `BatchSize` events, one
transaction each (`ClaimEvent`), then works through `claims[w]` in order:
`StartHandler` takes the inbox row, `HandlerCommits` makes effect and marker
durable together, `Duplicate` finds the marker already there, then `Ack`, or
`DeliveryFails`, `Deadlock` and its retries, `Fail` with back-off or dead
letter, `Reject` for a type without handler. `SettleRefused` is an
acknowledgement the row does not accept any more, `SettleLost` one whose
statement fails. `CommitAckLost`, `Crash` and the lapse of a lease that is still
in use are the faults. `effects[e]` counts committed executions of the handler (history).

### FairClaims

The fairness of `claimFairBatch`: the candidate page of organizations behind the
worker's cursor, wrap-around, one event each per round, the batch limit, and
where the cursor is put. Rows are counted per organization only. `KeepsWorker`
says whether the worker object, and with it the cursor, lives longer than a
tick. `ClaimedElsewhere` is the environment: at any moment of a tick another
worker may take events, so a page can be stale when it is worked off. It stands
for any number of other workers and does more than they could. `missed` and
`waited` are history variables for the properties.

### Redial

One number in one campaign; chains of calls of other campaigns or numbers
ignore each other. `logs` is `call_logs` in the order of `created_at`: "a newer
call exists" is "not the last row". A call is dialled (`Dial`, or the job's
`TriggerOutboundCall`) and at its end writes its log and retires the pending
logs it outranks (`FinishCall`: `resolvePostCallOutcome`, the insert, and
`supersedeConflictingPendingCallLogs`; a failure between the last two leaves
older rows to the sweep, which finds the newer one). `stage[s]` and `work[s]` are
scheduler `s` in `processDueRetries`: `RecoverStaleRetryClaims`,
`GetCallsDueForRetry`, then for each row of that copy `CheckNewer`,
`ClaimCallForRetry`, `Supersede`, `Enqueue`, or by way of `RowFails` `Exhaust`;
`PatchSwallowed` is a patch whose error is caught and dropped. `jobs` is the bag of queued
`placeRedial` jobs with the step each has reached in
`handlePlaceRedialJobScoped`. `placed` of a row counts the calls placed for it, and
`called` is the attempt number of the call it was written for (history). Faults: a crash with the queue it takes along, failing statements,
a provider's answer that is lost, a lease that ends while its claim is in use.

### AutoDial

`task` is the `dialer_tasks` row: enabled, status, the results per lead, the
current lead with its claim (`started`: none, set, or older than 30 minutes) and
call, and whether `next_dial_at` has come. `sched[s]` is a sweep with the row it has
read (`Scan`), `calls` the placement jobs with the phone call each of them
started, `stop` a stop request under way. Only `Claim` is a guarded `UPDATE`;
`RecordFinished`, `GiveUp`, `Complete`, `AwaitCallbacks`, `CommitCall`, `RecordRefusal`,
`RecordOutcome`, `MarkEnded`, `WebhookPatch`, `StopPatch` patch columns from what they
read a step or more earlier, and that is what the properties are about. A job
goes through `CheckTask`, `PlaceCall`, `Recheck`, `CommitCall`; the end of the call is
written by the media session (`MarkRead`, `MarkEnded`), by the post-call pipeline
(`WriteLog`, `RecordRead`, `RecordOutcome`) or found by a sweep (`LookUpCall`).
`autoDialRunId` and `autoDialBlockedReason` are not columns of the row (section
6), so conditions on them are those of a task that has neither.

### CallSession

`wallet` is the balance and the reserved amount of one organization, `calls[c]`
one record of everything there is of a call: its reservation (`hold`), the dial
request, the call route, the phone, what is cached of it in memory (context,
owner, whether the context was taken, whether it names the reservation), the
media session, the post-call job, the two possible reports of its end (`hook`)
and its logs. `AuthorizeOutboundCall` reserves, `Ask` .. `Remember` place the call,
`StreamStarts` and `StreamEnds` are the session, `EnqueuePostCall`, `PostCallLogs`,
`PostCallSettles`, `PostCallFails`, `BackoffEnds`, `SweepDeadLetters` the job on the
in-memory queue, and `HangUp`, `AskAgain`, `PollFinds`, `PollExpires`, `Fallback...` the
webhook that waits for a log and writes one itself. The start frame chooses
whether the stream has an id of its own beside the provider's (`aliased`); the
webhook, which comes after the alias is gone, then does not find what the pipeline
logged (`Found`). A call that a fault has
touched is marked `faulty` for the properties.

### Subscription

One organization. Its commands are callbacks of one serialized transaction, so
each is one action; what interleaves is what was read before the transaction: the
clock (`Recent`), the version on a reviewer's form (`seen`), the state a renewal
was offered for (`ReadRenewal`, then `CreateRenewalQuote`), the candidates a job
scanned (`StartActivation`, then `ActivateNext` one by one; `StartEnforcement`,
then `EnforceExpiredAccess`). Both jobs may die half-way (`...Aborts`). `Approve`
is the whole decision: the request, the quote, its link, the new period, the end
of a trial with its credits, access. Time is counted in weeks. A payment request
has the version at which its present proof was uploaded (`proof`) and the version its
decision was made about (`judged`); both are history variables.

### Invoices

One organization with its workspaces, one billing period. `settled` is the debt by
total: one of each workspace, and one of the organization for usage to which an
organization limit applies (`totals` of a journal entry and of an invoice line, as the
line's snapshot has it). Commands are
serialized callbacks again, one action each, and those that throw are no action;
a payment waits for its review between two of them. `ChargeUsage` and
`CorrectUsage` come from settlements, `ClosePeriod` issues an invoice or appends late
entries to the open one (`IssueInvoice`, `AppendLate`), `SubmitPayment` ..
`ApprovePayment` and `IssueCreditNote` take units off invoice lines and off the debt
together: line by line, each share (`Share`) from the totals the line counts in
(`TakenFrom`), and if one of them has less the command is refused (`Applicable`). A
line's open units know of payments and credit notes but not of corrections, as in
`applyPayment`. One credit line stands for the credit lines a note writes per reduced
line. `unmet` (history) counts, by total, units of corrections that found no debt.

### EmailDelivery

`row[d]` is the delivery row: status, attempts, and whether its times have passed
(`ready` for the back-off, `lapsed` for the lease). A claim raises `attempts` and the
fencing token together and nothing else writes them, so one number stands for
both. A run claims one row after the other and the next run goes on in the same
way: a worker is one loop. `Claim`, then `MailAccepted`, `AnswerLost` (taken, but the
worker sees an error) or `MailRefused`, then `Settle`, or `LeaseLost` when the row
belongs to somebody else by then. `accepted` and `unheard` are histories: the claims
whose mail was taken, and those of them the worker believes failed.
`skipped_unconfigured` does not occur: `checkEmailDeliveryConfig` refuses a run without
mail settings.

## 3. Runs

| run | bounds | states | question |
|---|---|---|---|
| `unit_of_work` | 2 processes, 3 callers (two share a pool of 1), 1 key, 2 fingerprints, 2 results, 1 deadlock retry, 1 call each | 139,752 | one effect per key, true answers, stable reads, holds, connections, the end of every call, refinement of `IdempotentCommand` |
| `usage_funding` | 2 grants (a subscription unit expiring at 1, a top-up unit that does not), 2 calls with a component each, postpaid limit 1, cycle cap 2, one revision | 457,955 | holds against lines and against expiry, when two calls compete |
| `usage_revisions` | same grants, 1 call changed 4 times, 3 revisions in any order, no cap, 2 instants, one instant of waiting | 2,664,606 | conservation and exactness over revisions up and down, out of order and repeated, corrections and late sweeps |
| `outbox_delivery` | 2 workers, 2 events (one without handler), batch 2, 2 attempts, 1 deadlock retry, 2 faults | 63,248 | fencing, settling, refinement of `EventDelivery` |
| `fair_claims` | 1 worker that is kept, 4 organizations, page 3, batch 2, backlog 2, other workers as environment | 81,376 | nobody waits for more than 3 ticks, nobody starves |
| `redial` | 2 schedulers, calls that complete or are not answered, 1 retry, 2 chains, 1 fault | 512,106 | one redial per log, bounded chains, every retry ends |
| `auto_dial` | 2 schedulers, 2 leads, all 3 outcomes, 1 start, 1 stop, 3 calls, no fault | 228,055 | no second call, no result lost or set back, under stale patches |
| `auto_dial_faults` | the same with 1 lead, 2 outcomes, 2 calls, 1 fault | 370,294 | the campaign never hangs |
| `call_session` | 2 calls (one answerable), balance 3, estimate 2, minimum 3, cost 3, 1 recharge, 3 job errors, 1 fault | 623,931 | wallet against calls, one log, one charge, no reservation forgotten |
| `subscription` | 5 weeks (period 3, notice 1, quote 1, access 1 past the end, trial 1), 2 quotes, 2 payments, 4 versions of them, 1 grace | 398,644 | periods, their payment, credits, start and end; access |
| `invoices` | 2 workspaces, 2 charges of 2 units, 2 corrections, 2 payments, 1 sent back, 1 credit note | 2,030,843 | debt per total against journal and lines, who may refuse what is payable |
| `email_delivery` | 2 mails, 2 workers, 3 attempts, 2 faults | 133,807 | rows tell the truth, a second mail needs a fault, every mail ends |

Why the bounds are enough for what they ask:

* Mutual exclusion, replay and fencing go wrong between two actors, and three
  callers are the least with two in one pool and one outside it. With one key
  every pair of calls conflicts; the two fingerprints give the mismatch case.
* Two calls and two grants of one unit make every unit contended; a subscription
  grant that expires and a top-up that does not, plus a postpaid unit, put all
  three sources into one plan. Three revisions are the least in which a revision
  has a predecessor that was itself a correction, or is left out between two others. Four
  changes of the reservation let it be reserved and all three be settled, in any order,
  or two of them and one again after the other.
* Two attempts separate "try again" from "dead letter"; batch 2 gives a claim
  that waits behind another one while its lease runs out; two faults are the least
  for a crash whose successor fails too. A page shorter than the set of
  organizations and a batch shorter than the page make the cursor wrap in every
  position.
* Two schedulers are what a claim needs to be contended. In `redial`, two chains with
  one retry each give logs that are retired, superseded and exhausted, and a second
  chain started while the first one's job is queued. In `auto_dial`, two leads are what
  "a result set back" and "the next lead" need, and three calls allow one more than the
  leads; the run with a fault asks about liveness only, and is smaller for it.
* In `call_session` the balance suffices for one reservation and a half, so
  that the second call is refused while the first one holds and allowed after a
  recharge; a cost above the estimate gives the overrun; three errors are exactly
  what takes a job to the dead letters.
* Two payments are what a second period, a second approval of one quote and a
  renewal need; five weeks let a paid period begin late, run, end, and its access
  lapse. Four versions let a proof be sent back, uploaded again and judged by a
  stale form.
* In `invoices` a charge of two can be paid and corrected in part, and with two
  corrections and a credit note all four commands that reduce debt meet on one line. Two
  workspaces are the least for an invoice whose lines count in different totals; with or
  without the organization's they make four kinds of line. The run uses symmetry between
  the workspaces, which nothing in the module tells apart.
* In `email_delivery` three attempts leave one between the first and the last;
  two faults let both mails, or one mail twice, suffer.

Every name `Max...` in a module is a bound, and its declaration says of what.
`MaxDeadlockRetries`, `MaxAttempts` (of `OutboxDelivery`, `Redial` and `EmailDelivery`),
`MaxOrganizations` and `MaxPerOrganization` are not bounds of the model but
parameters of the code. `usage_funding` uses symmetry between the two calls, which
no property of that run tells apart and which are not ordered by the code; it
checks no liveness property.

`CHECK_DEADLOCK FALSE` stands where the system may stop: callers have used up
`MaxCalls`, all versions and revisions of a bounded ledger are used up, the last
week is over, or there is nothing left to do. `FairClaims` and `Redial` never stop,
and their runs check that.

More configurations stand beside the runs. These pass:

| configuration | of module | checks |
|---|---|---|
| `MCUsageLimits.cfg` | `MCUsageFunding` | `SweptIsHeld`, `PostpaidWithinLimit`, `WithinCycleCap` (all proved) |
| `MCFairClaimsShare.cfg` | `MCFairClaims` | `BoundedShare`: what one organization may take of a batch; the types (both proved) |
| `MCSubscriptionDecisions.cfg` | `MCSubscription` | `JudgedAsSeen`, `NotSuspendedEarly` (both proved); the types |
| `MCInvoicesOpen.cfg` | `MCInvoices` | `OneOpenInvoice` (proved); the types |

and these end with a counterexample, each of which section 6 explains:
`MCUsageChargedByDelta`, `MCUsageReleaseIsBacked`, `MCFairClaimsNewWorker`,
`MCRedialLoser`, `MCAutoDialOneCall`, `MCCallSessionAliased`,
`MCSubscriptionRenewalStuck`, `MCInvoicesStuck`, `MCInvoicesShared`.

## 4. Fairness

* `UoWSpec`: weak fairness of every caller's own `Step`. The event loop runs and
  the server answers every statement, if only with a lock wait timeout or a
  broken connection. Faults, crashes and account changes are never required.
* `FundingSpec`, `InvoicesSpec`: none. Nothing in the repository promises that a
  reservation is settled or released (the recovery job is not scheduled and the
  provider may never report), that a period is closed or an invoice paid. No
  liveness is claimed.
* `OutboxSpec`: weak fairness of a worker's step (the schedule ticks every
  minute, `scheduler/definitions.js`; a statement ends) and of the passing of
  time. `EventSettles` needs the number of faults to be finite (`MaxFaults`): an
  event whose handling kills its worker, or outlasts the lease, *every* time
  is claimed again for ever, see section 6.
* `FairSpec`: weak fairness of a worker's step, nothing about arrivals.
* `RedialSpec`: weak fairness of each scheduler's sweep (`crm-dialer-retry` ticks
  every minute) and of its jobs, and of the passing of time. Nobody has to dial,
  and a call need not end.
* `AutoDialSpec`: weak fairness of each scheduler's sweep (every 15 seconds), of
  jobs, of calls that end and logs that are written, of webhook patches and stop
  requests once begun, and of time. Nobody has to press Start or Stop, no webhook
  has to come.
* `CallSessionSpec`: weak fairness of the request that places a call, of the end of
  the phone call and with it of the media stream, of one report by the provider,
  of the webhook's timers, and of the queue with its back-off and its nightly
  sweep of dead letters. That a media stream opens, or that its start frame comes,
  is not promised.
* `SubscriptionSpec`: both jobs are started again and again (every five minutes), and
  strong fairness of their step for a candidate: a retryable error does not meet
  the same run for ever. Nobody has to pay, review or grant.
* `EmailSpec`: weak fairness of each worker's step and of time. The repository
  ships the run (`scripts/run-billing-email-delivery-once.js`) and no schedule for
  it: `MailEnds` holds if somebody keeps running it. A lease need not outlive its
  worker.

## 5. Proofs

Theorems hold for every value of the constants that satisfies the named
assumptions (`UoWAssumption`, `NoneAssumption`, `FundingAssumption`,
`OutboxAssumption`, `FairAssumption`, `SubscriptionAssumption`, `CallSessionAssumption`,
`InvoicesAssumption`, `EmailAssumption`, `RedialAssumption`, `AutoDialAssumption`): any number of callers,
processes, organizations, keys, grants, calls, revisions, workers, schedulers, leads, events, quotes, payments,
invoices, mails and faults. `FundingAssumption` includes that grants, reservations and components are
finitely many, which rows of a table are; sums over them need it; `RedialAssumption`, for the same
reason, that the scheduler instances are finitely many. `WaitIsBounded` alone has a hypothesis
besides (below).

**SumTheorems.** The community modules define sums by recursion over sets
(`SumFunctionOnSet`). The lemmas are what the proofs below need of them: that the
recursion has a solution on finite sets, and from there that a sum does not
depend on the order (`SumTake`), what changing, adding or splitting off terms does
to it (`SumChanged`, `SumAdded`, `SumUnion`, `SumPlus`, `SumSupport`), and monotony. Induction is by
well-foundedness of the naturals, over sets of numbers instead of predicates, which
the provers can instantiate.

**BillingProofs, the unit of work.** `TypeCorrect`, `Serialized`, `ReadsAreStable`, `OnceOnly`,
`AnswersAreStored`, `HoldRespected`, `PoolNeverLeaks`, `Refinement`. None of the
properties is inductive alone: that a key takes effect once needs that the
caller about to commit read "no such operation" and that this is still true,
which needs the lock. The inductive invariant is `UoWTypeOK /\ LockSerializes /\
ReadsStayTrue /\ OneEffectPerRow /\ AnswersAgree`. `PoolConserved` is a
statement on cardinalities and is proved apart: every action moves one caller
in or out of the attempts of its process with one connection, a crash all of
them. The refinement maps `Commit` to `Execute`, a replayed answer to `Replay`,
all else to a stutter.

**UsageFundingProofs.** `FundingTypeCorrect` (which includes that no position,
line or total ever goes negative, also in the middle of a command),
`SweptStaysHeld`, `LimitHolds`, `ClosedIsEmpty`. Each speaks of the committed
ledger, but the steps work on the draft; the invariant `FInv` therefore says
the same of the draft of an open transaction, weakened where a settlement has
charged before it closes, and that a draft that is to be committed as closed
has released all its lines. `HoldsEndWithGrants` (`NoHoldCrossesExpiry`) needs
`ExpiryInv` besides: what the draft holds ends in time, an operation without a
reservation has no lines, and while a settlement charges (or reverses) nothing
of its event has been restored (or charged).

`CreditsAreConserved`, `HoldsAreLines`, `ExposureIsBacked` and `CapIsKept` are about sums, and come
from one invariant, `BooksInv`: the accounts of the ledger, and of the draft in the
middle of a command, balance. Each step is shown to shift the sums by some amount on one
source (`HeldShift`, `ChargeShift`) and the position or the exposure by the same
(`Moves`). `HoldsMatchLines` cannot be had alone: that a restored unit may be ahead
of the position is excused for grants with a correction, so it must be known that a
release or an expiry, which also move the position, have none. The cap needs the units
still to be found counted in (`Asked`): it is checked before the first line is held,
and what the request has not held yet is already spoken for.

`RevisionsAreChargedOnce` (`ChargedOnce`) and `ExposureIsExact` (`PostpaidExact`) assume nothing of the
provider: revisions may be recorded in any order and settled in any other. What they promise is
limited by what has happened instead, in the state: `ChargedOnce` speaks of a component all of whose own
settlements left an entry and came in their turn (`Clean`), whatever happened to the others; the last
part of `PostpaidExact` needs that of all components (`Spotless`), for they share one total; its first two
parts need nothing, so that what counts towards the limit is never less than what is owed. The code ensures neither
condition, and where one fails the equality is false (section 6, `MCUsageChargedByDelta`). The
invariant is `ChainInv`. `Chained` says that what is settled was recorded, that the others have no
entries, and that a settlement left an entry or is in `unposted`. For a revision in its turn the
previous *recorded* revision, which `settleUsage` takes, is then the latest settled one
(`PreviousIs`), whichever were recorded or left out around it. `Reckoned` is the property with what
a correction needs, that no clean component's debt is negative. `Advancing` says of an open settlement
how far it is: what is charged and what is still ahead make up the revision, and of each source a correction
has been at it has given back all that the earlier revisions were charged there (`Progress`). That is
why a correction that runs out of sources has nothing left to give back (`EndAdvances`), and
why it never asks postpaid for more than the debt (`ReversalAdvances`), where `SmallerOf`
would otherwise cut the amount and let journal and debt part. All of this is said of a settlement in
its turn only; what one out of turn does to the books is left to `BooksInv`, and its component is
`Clean` no more (`Regular` says the same of the total).

**OutboxDeliveryProofs.** `OutboxTypeCorrect`, `EffectsHappenOnce`, `Fencing`,
`StaleWorkersSettleNothing`, `DeliveryRefinement`. The inductive invariant `OInv`
adds to `TypeOK` and `OncePerEvent` that a worker in a handler holds the inbox
row and found no marker (`Locks`), that a worker about to acknowledge finds the
marker in place (`Handled`), and that claims are only of produced events
(`Produced`). `Locks` is why two workers with the same event produce one
effect; `Handled` is why an acknowledgement never precedes the effect.

**OutboxDeliveryProofs, fair claims.** `FairTypes`, `WaitIsBounded` (`BoundedWait`), `ShareIsBounded`
(`BoundedShare`). `WaitIsBounded` has `KeepsWorker` as its hypothesis: the worker that
`createBillingJobWorker` is written for, not the one the schedule makes for every tick, for which the
bound is false (section 6, `MCFairClaimsNewWorker`). That nobody waits `OrgCount` ticks is not
inductive; what is (`Waits`) is that the ticks an organization was missed in and the organizations
the cursor has still to pass before it (`Dist`) are together fewer than `OrgCount`. So every tick that
misses it must bring the cursor nearer (`CursorNearer`): the cursor ends on an organization of the
page, the page is in order and leaves nobody out between its entries (`InOrder`), and who is missed on
the page has not had its turn yet (`Turns`), so the batch was full before and its last claim lies in
front of it. A claim of an empty backlog serves nobody, but then there was nobody to serve (`Waits`
again). `ShareIsBounded` needs no hypothesis: in each round everybody on the page gets one more or
comes up empty (`Shares`). `Page` is written with cardinalities, the i-th organization having i - 1
before it, so that `Ranking` of `SumTheorems` applies (`PageOrdered`). `FairInv` was
checked by TLC first, with one worker and with two.

**SubscriptionProofs.** `TypesAndReferences`, `DisjointPeriods`,
`JudgementsAreCurrent`, `CreditsOnce`, `PaymentsFundPeriods`, `NeverSuspendedEarly`,
`RunningPeriodsAreOpen`. The base invariant is `TypeOK` (which says that every
reference between the tables exists) and that a payment buys a period only of
what came before it. `JudgementsAreCurrent` needs that a pending request's version is
that of its proof. `PaymentsFundPeriods` needs the correspondence of requests, links
and periods in both directions at once. For access, the clocks both jobs took
are never ahead of the time, and an activated period has pushed the deadline
past its own end; that two periods never run together (`DisjointPeriods`) is what
makes the last step of `RunningPeriodsAreOpen` go through.

**CallSessionProofs.** `SpecTypeOK`, `SpecReservedMatchesCalls`, `SpecOneLogPerCall`,
`SpecChargedOncePerCall`, `SpecReservedIsBacked`.
`ReservedMatchesCalls` is a cardinality and needs only that a call that was not
authorized holds nothing. `OneLogPerCall` needs for each call that nothing is logged
early (`Early`), that whoever may write a log holds the claim on it (`Claim`), that the
report of a call without a route writes once (`OneReport`), and that once the fallback has given up on
the pipeline it is over and has logged nothing, unless under another id (`Pipeline`). It holds whichever id
a stream has: with one of its own a call may have a log of the pipeline and one of the fallback, and no
more. That it should be one log even then is what `MCCallSessionAliased` refutes (section 6). `MoneyInv` adds to the balance of the wallet that a call is charged
when its reservation is settled and then only; one lemma (`MoneyPreserved`) treats every
step that changes the hold of one call.

**BillingProofs, invoices.** `OpenInvoiceIsUnique`, `InvoiceTypes`, `DebtFollowsTheJournal`,
`InvoicesStayItemized`, `PayableStaysAccepted`, for any number of workspaces. `ItemsInv` carries the sums, those of debt
by total: every line belongs to an invoice and is not paid beyond its units (`Anchored`), without which paying
an invoice could take from another one's lines; a line says what an entry of the journal does (`Copied`), and
the lines of usage that count in a total sum to the invoiced part of its journal (`Billed`), without which
closing again could invoice an entry twice. `PayableStaysAccepted` has three parts. The lines of an open
invoice suffice: its charges, whatever was applied to them, are no less than what it asks for, for the other
lines are negative (`ChargesCoverIt`). A total without corrections does not refuse: all lines that count in it are
charges, and their open units are what its journal was charged less what was applied, which is its debt but
for entries not invoiced (`ChargesAreOwed`). And a total that all usage counts in does not refuse if its
corrections were in time and are invoiced: its debt is what the invoices ask for together plus entries not invoiced
(`DebtIsOutstanding`), no invoice but the open one asks for anything (`OthersAreSettled`), and what the status of
an invoice says of its total and what is paid (`Standing`) makes none of them negative. With more than one workspace
a corrected one has no such total of its own; `MCInvoicesShared` shows that it does refuse.

**BillingProofs, billing mail.** `MailTypes`, `MailStatusIsTrue`, `MailSentOncePerFault`. The invariant `MailInv` says that
a claim's number is never ahead of its row's (`Numbered`), that two workers never hold
the same claim (`OneHolder`), that the one whose number is the row's finds it leased
(`LeasedToHolder`), and that what a worker is about to write is what it heard (`Heard`).
With them the fencing token suffices: a worker that settles is the row's last one.
`SentOncePerFault` counts mails against faults. `FaultsPay` says that some set of claims, no larger than
the number of faults, contains every claim that has been superseded although its mail
may have gone out, every one that may be superseded yet, and every answer
that was lost; the mails accepted beyond the first of a row are all in it.

**RedialProofs.** `RedialTypes`, `RedialsAreNotRepeated` (`RedialledOnce`), `ChainsAreBounded`
(`CallsAreBounded`). Neither bound is inductive: the calls that were placed say nothing of
those still to come from queued jobs, claims, rows that may be claimed again and failures not yet
recorded. The idea is to count these as *permits* of a row (`Permits`): how
many more calls it can lead to without another fault. A job and a claim are one permit each
whatever else happens; what may only become a claim counts while there is no newer call, because
`CheckNewer` and `CanClaim` stop it afterwards. Every step is of one of five kinds: it gives no row a permit
(`Quiet`), it takes a fault and gives one row one (`Extra`), it places a call for a permit or with a
fault (`Calls`), it is `Dial`, or a call ends and its log permits one more (`FinishCall`). The
invariant for `RedialledOnce` is `OneEach`: over all rows, `placed` and permits beyond the first
are no more than the faults. For `CallsAreBounded` it is `Budgeted`: the calls started, those in the air
with the rest of their chains (`Air`), and the rows with the calls they led to and the rest of
the chains they still permit (`Heavy`), fit into one longest chain per dial and per fault. `Sound` carries the types and that
neither a copied row nor a job falls behind the call its row was written for (`called`), so a chain
cannot start over. Attempting the first proof showed that two cases of `LogOf` overlapped, where TLC takes the first and the
meaning of `CASE` is any; the guards now exclude each other, as the code's `if`s do.

**AutoDialProofs.** `AutoDialTypes`, `OneCallInFirstRun` (`OneCallPerStart`), `CompletionIsTrue`
(`CompletedIsComplete`), `ResultsAreKept` (`ResultsKept`). `AutoDialTypes` holds in every run; with the
types it has `Sound`: every id in the row, in a snapshot or in a stop request is that of a placed
call. The other three come from one invariant of the first run, `Run`, which TLC checked first.
`OneHolder`: one claim, or one job with its call, works on a lead at a time. `Lease`: the lead in the
row belongs to whoever works on one, and is only given up once the call's log exists, so
`GiveUp` never passes over a lead that is being called. `Current`: while the campaign is on, what a
claim or a job has read of the results has the same pending leads as the row; a sweep that has
only read the row (`SnapCurrent`) either has them too, or would choose a lead that is not
pending any more, so that the guard of `Claim` fails. That guard looks at one lead, not at the
snapshot; that it suffices is because leads are dialled in order. `Untouched` covers the time
before the first start. The end of a call switches the campaign off in the same patch
that clears the lead, which is why nothing can be placed a second time.

**Only model-checked.** Liveness (`CallEnds`, `EventSettles`, `EveryOrganizationServed`,
`RetriesEnd`, `RunEnds`, `HoldsEnd`, `EndedCallsAreLogged`, `PaidPeriodStarts`, `LapsedAccessEnds`,
`MailEnds`): fairness and `ENABLED` are out of reach of the proof system.

`OneCallPerStart` of a campaign that is started more than once: `OneCallInFirstRun` says
`starts <= 1`, the bound of `auto_dial`, for every number of schedulers, leads, stops and jobs. From
the second start on, a scheduler or a job of the run before may still hold an old snapshot and
nothing in the row tells it apart (section 6, `MCAutoDialOneCall`), so the invariant of the first run
is false there; `CompletedIsComplete` and `ResultsKept` are stated for the first run for the same
reason.

## 6. Findings

Where the code and what is written about it part, each with a configuration whose
counterexample shows it:

* `MCUsageChargedByDelta`: `settleUsage.js:121` counts the previous revision's amount
  as charged only if that settlement has a journal entry. A revision whose
  difference was zero has none, so the revision after it is charged in full or,
  going down, restores nothing. `docs/billing-settlement-invoices.md:4` says
  each revision is charged by its delta from the latest settled one. The same
  line takes the latest revision *recorded* before (`:112`, `mysqlSettlementRepository.js:12-19`), not the
  latest settled: with revision 1 recorded and revision 2 settled first, 2 is charged in full and
  1 after it in full again; with 3 settled before 2, 2 is charged by its delta from 1 on top of
  it. Recording and settling are transactions of their own and nothing orders them across revisions.
* `MCUsageReleaseIsBacked`: a correction gives credits back to the position's
  *available* units and at the same time makes the line unconsumed again, so the
  line claims a hold nobody has made. Releasing it then fails, or takes the hold
  of another call.
* `MCFairClaimsNewWorker`: the schedule builds a new worker for each tick, so the
  cursor starts from the front each time and organizations past the first batch
  wait as long as those before them have anything ready. With a worker that is
  kept, as the worker is written for, `fair_claims` shows that nobody starves.
* `MCRedialLoser`: a scheduler that loses the claim of a due log to another one
  still writes `superseded` into it (`dialerRetryEngine.js:119`), over the winner's
  `retrying`. `MYSQL_CONCURRENCY.md:8` says only the winner proceeds. Usually the
  winner's job overwrites the status again; if its process dies first, the
  recovery of stale claims, which looks for `retrying`, does not find the row, and
  the retry never happens. `RetriesEnd` holds because the row is then closed.
* `MCAutoDialOneCall`: `autoDialRunId` is written and compared
  (`routes/campaigns.js:256`, `:340`, `autoDialEngine.js:429`, `:462`) but is not among
  the fields of `ENTITIES.dialertasks` (`db/repository.js:146-176`), so `toDbRow` drops
  it and a call of an earlier run is not told from one of the present run. Stop and
  Start again while a call is being placed, and two calls are live, although
  `autoDialEngine.js:5` says it "places one outbound call at a time".
  `autoDialBlockedReason` is dropped in the same way.
* `MCCallSessionAliased`: the comment at `telephony/vobiz/routes.js:168-170` expects the
  webhook to find the session's id by the provider's CallUUID, but finalizing the
  session deletes that alias (`vobizProxy.js`, `vobizCallUuidToInternalId.delete`). A
  Hangup that comes afterwards finds no log under its own id and writes a second one
  (`OneLogUnderEveryId`). `OneLogPerCall`, which holds, therefore allows two for such a call.
* `MCSubscriptionRenewalStuck`: a renewal payment sent back for clarification keeps
  new renewals out (`subscriptionRenewalComposition.js:42-43`, `:153`), the quote it belongs
  to expires, `resubmit` validates that quote again
  (`mysqlPaymentSubmissionRepository.js:136`) and refuses, and a decision is accepted
  only for a pending request: the customer can neither pay nor start again.
  `docs/subscription-lifecycle-tasks.md:13` says that renewal "remains available
  while overdue".
* `MCInvoicesStuck`: charge 2, invoice it, take 1 off by a payment or a credit note,
  then correct by -2. The correction finds a debt of 1 only, and closing issues a
  separate credit note. The open invoice still asks for 1, for which no debt is
  left, and `applyPayment` throws a conflict on every approval.
  `docs/billing-settlement-invoices.md` says that approving a verified invoice payment
  applies it.

* `MCInvoicesShared`: one invoice is for all workspaces (`mysqlInvoiceRepository.js:36-39`;
  `docs/billing-settlement-invoices.md:17` has an "organization invoice with workspace
  itemization"), but `applyPayment` asks each line's units of that line's workspace total (`:119-120`) and does
  not count corrections against the line (`:112-115`). Charge workspace A 5 and correct it by -3 in time,
  charge workspace B 5: the invoice asks for 7, no correction missed its debt, and approving 7
  throws a conflict, since A's line asks 5 of a total of 2. After 2 have been paid no approval
  succeeds any more: A's line comes first, and B's 5 cannot be paid. TLC's counterexample has 2, -1 and 1.

Observed while modelling, and part of the models as the code has it.

*Funding.*

* A settlement that is not final sets the reservation's status to
  `partially_settled` also when it was closed (`settleUsage.js:235-237`).
* A correction whose units an expired grant keeps leaves no journal entry, so its
  revision counts as unsettled (`settleUsage.js:112`, `:121`): the next revision is charged in full,
  and when the corrected one is settled again, from a request whose `now` is before the expiry,
  it does restore. `ChargedOnce` and `PostpaidExact` therefore speak of components all of whose
  settlements left an entry (`unposted`, a history variable); `usage_revisions` has
  enough changes of the reservation for this to happen.
* After a correction, a used-up line on a grant that expires has units again,
  even if the reservation has meanwhile been extended past that expiry
  (`NoHoldCrossesExpiry` therefore speaks of lines no correction has touched).
* `now` is read before the transaction waits for its lock.
* The expiry job's operation id is fixed per grant, so a second run is a replay.
* The planner's postpaid check reads used units as 0
  (`modules/funding/planner.js:108-111`); the real check is in `reserveExposure`.

*Outbox and mail.*

* `claimBatch` does not look at `attempts`, and `fail` refuses a lapsed lease: an
  event whose handling crashes or outlasts its lease each time is never dead-lettered.
  Email delivery has the same shape: `attempts` rises with every lost lease and only
  `settle` looks at its limit.
* The notification worker claims only the event types it handles; other billing
  events stay pending for a processor the repository does not schedule.
* `docs/billing-email-delivery.md` says that missing mail settings are recorded as
  skipped; the script refuses to start without them.
* The app's own mail worker (`notifications/channels/smtp.js`) has no fencing: one that
  outlives its five minutes writes `pending` or `failed` over its successor's `sent`, and
  a preference switched off after the claim leaves a row in `sending`.

*Subscriptions and invoices.*

* `lifecycleService.assertNoOverlap` reads `startsAt` and `endsAt`, which its rows do
  not have; it compares with NaN and never refuses. Only the SQL of
  `insertScheduledPeriod` keeps periods apart.
* An organization on trial that has paid already may be suspended at the end of the
  trial until the activation job has run.
* `maxCumulativeDays` and `maxRequestsPerPeriod` of the grace policy are read by nobody.
* With two periods bought ahead a third approval fails until the first has ended.
* A correction recorded while the debt is zero leaves what is charged afterwards as
  a debt that no invoice asks for and that counts towards the limit; an approval is
  refused while a correction is not yet invoiced; an invoice whose total is zero
  stays open. No route calls `createInvoiceService`, and `overdue` is never written.

*Dialling.*

* With the default policy (3 retries) a chain has 4 calls, while the header of
  `dialerRetryEngine.js` speaks of `MAX_RETRY_ATTEMPTS` (3) in total; a callback is
  refused from the third attempt on.
* A redial whose *placement* fails is rescheduled under the default policy, not the
  campaign's (`dialerRetryEngine.js:211` passes neither policy nor number). A call
  that was placed but could not be marked is counted as failed and placed again.
* Stop reads the task and patches it later: a call committed in between is not hung
  up. Stop also clears the claim, so the end of a call without a media session is not
  recorded on its lead.
* A late finalization of a call of a stopped run switches the new run off; with two
  starts, results can be set back by patches from the first one
  (`CompletedIsComplete` and `ResultsKept` therefore speak of `FirstRun`).
* With two starts *and* a lost log, a late webhook or commit can bring back a call id
  with no start time, which no sweep ever gives up: the campaign hangs. `RunEnds`
  is checked for one start.
* Two sweeps that both read an aged claim may place an extra call.

*Calls.*

* A reservation leaks when attaching the call's record fails after the provider has
  accepted (`AttachFails`), when a crash takes queued jobs with it, or when a settlement
  fails (its error is swallowed); nothing recovers it, and it counts against what
  later calls may reserve.
* The caches of a call expire after 30 minutes: a longer one has no organization
  and no context at its end, and is neither logged nor settled by its session.
* When the provider's answer to a dial request is lost, the reservation is released
  although the call takes place.
* A crash between claiming the fallback and writing its log leaves a routed call
  without any; two reports of a call without a route write two.

## 7. Not modelled, and why

The models stand for about a tenth of the 55,000 lines of implementation. Most of the
rest has no protocol to check: routes and read models, audio streaming and the model's
side of a conversation, prompts and parsing, provider adapters, single-statement CRUD,
settings, migrations of data. Components with status `not_modelled` in
`PROJECT.json` each say why.

Contents of messages, hashes, encodings and money formats are abstracted to what the
properties tell apart. Times are instants of a small clock or the question whether
they have passed. Left out of the modelled parts:

* *Usage funding*: allocation between organization and workspace positions, more
  than one postpaid period, rating and policy snapshots (a command's units are
  chosen freely).
* *Redial*: the single-row wake-ups of BullMQ, the log that the Hangup webhook
  writes, the check of connector accounts, quiet hours, and the RabbitMQ queue
  (`Redial` has the default, in-memory one).
* *AutoDial*: the browser's `dialer-tasks/sync`, deletion of a campaign, manual
  dialling, sweeps that find nothing to do. A webhook on its way counts as somebody who
  still attends to the claim, and a claim ages past that only as a fault.
* *CallSession*: the workspace's monthly budget, AI minutes, billing records, the
  circuit breaker, other providers, incoming calls. Steps that the code separates
  by seconds are taken in time (the pipeline writes its log before the webhook
  gives up waiting, the context is remembered before the phone is picked up, no
  start frame comes after the fallback): missing one of these deadlines costs a
  fault.
* *Subscription*: postpaid periods, upgrades (their approval is disabled in the
  code), terms and inventory of plans, reminders, commands that nothing calls.
* *Invoices*: add-on invoices, due dates, forms that have become stale in review
  (`Subscription` has those), usage settled in another order than it occurred (lines
  are in the order of `occurred_at`, here that of the journal).
* *EmailDelivery*: templates, encryption of payloads, choice of recipients, the app's
  own mail worker.
* *Credit allocations*, the *circuit breaker* and *reservation recovery* are modelled
  nowhere: the first and the last are further callbacks of the unit of work over the
  positions of `UsageFunding`, the second is one process's variable.

## 8. What could follow

1. `Allocations` over the positions of `UsageFunding`, with several postpaid periods.
2. `NotificationPipeline`: the outbox's handler composed with `EmailDelivery` (one
   produced event, at most one delivery row), with an abstract specification.
3. `AutoDial` composed with `CallSession` and `Redial` over the call logs they share.
4. The circuit breaker, and the app's own mail worker.
5. Proofs: how many calls `AutoDial` places from the second start on.
