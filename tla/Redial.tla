-------------------------------- MODULE Redial --------------------------------
(***************************************************************************)
(* Automatic redial of one number in one campaign: crm/dialerRetryEngine.js *)
(* over the claims of db/repository.js and the call log that                *)
(* telephony/callFinalizer.js writes when a call has ended.                *)
(*                                                                         *)
(* A call nobody answered, or whose caller asked to be called back, leaves  *)
(* a call log whose retry is pending. Every scheduler instance sweeps the   *)
(* logs that are due: it looks for a newer call, claims the log by a        *)
(* guarded UPDATE, and puts a job into the queue of its process. The job    *)
(* places the call and marks the log. A claim that is older than its lease  *)
(* is made pending again, whoever holds it.                                *)
(*                                                                         *)
(* logs is the table in the order of created_at, so a newer call of the     *)
(* number is one with a greater index. Times are compared by what they      *)
(* decide: next_retry_at has passed (due), retry_claimed_at is older than   *)
(* the lease (lapsed). The queue is the memory adapter, which is the        *)
(* default: it dies with its process, and this handler never throws, so     *)
(* the adapter never repeats it.                                           *)
(***************************************************************************)
EXTENDS Naturals, Sequences, FiniteSets, FiniteSetsExt, SequencesExt,
        Functions, Bags

CONSTANTS
  Schedulers,      \* processes that run processDueRetries
  Outcomes,        \* how a call may end
  PolicyRetries,   \* maxRetries of the campaign's retry policy
  DefaultRetries,  \* maxRetries of DEFAULT_RETRY_POLICY
  MaxAttempts,     \* MAX_RETRY_ATTEMPTS
  MaxDials,        \* bound: calls of the campaign that are not redials
  MaxFaults        \* bound: crashes, lost answers, claims outlived

ScheduleRank ==
  [s \in {"Callback Scheduled", "No Answer", "Answering Machine"} |->
     CASE s = "Callback Scheduled" -> 3 [] s = "No Answer" -> 2 [] OTHER -> 1]

ASSUME RedialAssumption ==
  /\ IsFiniteSet(Schedulers)
  /\ Outcomes \subseteq DOMAIN ScheduleRank \union {"Completed"}
  /\ PolicyRetries \in Nat /\ DefaultRetries \in Nat
  /\ MaxAttempts \in Nat \ {0}
  /\ MaxDials \in Nat /\ MaxFaults \in Nat

VARIABLES
  logs,    \* call_logs of the number, oldest first
  live,    \* calls in progress, by the attempt number they were placed with
  jobs,    \* bag of the placeRedial jobs in the queues of the schedulers
  stage,   \* where each scheduler's sweep is
  work,    \* the due rows a sweep has read and not worked off
  dials,   \* calls dialled other than as a redial (bound)
  faults   \* faults so far (bound)

vars == <<logs, live, jobs, stage, work, dials, faults>>

LongestChain == Max({MaxAttempts, DefaultRetries + 1, PolicyRetries + 1})
Attempts == 1..LongestChain

(* Two fields are history: placed counts the calls that were placed to redial *)
(* the row, called is the attempt number of the call the row was written for. *)
Log == [status: DOMAIN ScheduleRank \union {"Completed"}, attempt: Attempts, called: Attempts,
        retry: {"none", "pending", "retrying", "retried", "superseded", "exhausted"},
        due: BOOLEAN, lapsed: BOOLEAN, placed: Nat]

Job == [row: Nat, attempt: Attempts, by: Schedulers,
        step: {"queued", "placed", "failed"}]

Stages == {"idle", "scan", "check", "claim", "newer", "lost", "enqueue", "exhaust"}

RedialInit ==
  /\ logs = <<>>
  /\ live = [a \in Attempts |-> 0]
  /\ jobs = EmptyBag
  /\ stage = [s \in Schedulers |-> "idle"]
  /\ work = [s \in Schedulers |-> <<>>]
  /\ dials = 0
  /\ faults = 0

Fault == faults < MaxFaults /\ faults' = faults + 1

------------------------------------------------------------------------------
(* Calls *)

(* A first call or a manual redial: it starts a chain of its own. *)
Dial ==
  /\ dials < MaxDials
  /\ dials' = dials + 1
  /\ live' = [live EXCEPT ![1] = @ + 1]
  /\ UNCHANGED <<logs, jobs, stage, work, faults>>

(* Mutant: the attempt after the last retry is retried too. *)
RetryFields_OneMore(attempt, maxRetries) ==
  IF attempt > maxRetries + 1 THEN "exhausted" ELSE "pending"

(* computeRetryFields *)
RetryFields(attempt, maxRetries) == IF attempt > maxRetries THEN "exhausted" ELSE "pending"

(* resolvePostCallOutcome: a callback is granted up to MaxAttempts, a call    *)
(* nobody answered is retried as the policy says.                          *)
LogOf(attempt, outcome) ==
  LET refused == outcome = "Callback Scheduled" /\ attempt >= MaxAttempts IN
  [status |-> IF refused THEN "Completed" ELSE outcome,
   attempt |-> attempt, called |-> attempt,
   retry |-> CASE outcome = "Completed" -> "none"
               [] refused -> "exhausted"
               [] outcome = "Callback Scheduled" /\ ~refused -> "pending"
               [] OTHER -> RetryFields(attempt, PolicyRetries),
   due |-> FALSE, lapsed |-> FALSE, placed |-> 0]

(* The row's retry is over, at least for the one that writes this; its times *)
(* are not read again.                                                     *)
Settled(row, retry) == [row EXCEPT !.retry = retry, !.due = FALSE, !.lapsed = FALSE]

(* supersedeConflictingPendingCallLogs: a log that is kept for a retry        *)
(* retires the pending ones that do not outrank it.                        *)
Retires(log, row) ==
  /\ log.status \in DOMAIN ScheduleRank
  /\ row.retry = "pending"
  /\ ScheduleRank[log.status] >= ScheduleRank[row.status]

(* The call ends and its log is written. A row that is pending when it is     *)
(* retired cannot have been claimed in between: the log just written is     *)
(* newer.                                                                  *)
FinishCall(attempt, outcome) ==
  /\ live[attempt] > 0
  /\ live' = [live EXCEPT ![attempt] = @ - 1]
  /\ LET log == LogOf(attempt, outcome) IN
     logs' = Append([r \in DOMAIN logs |->
                       IF Retires(log, logs[r]) THEN Settled(logs[r], "exhausted") ELSE logs[r]],
                    log)
  /\ UNCHANGED <<jobs, stage, work, dials, faults>>

------------------------------------------------------------------------------
(* The sweep: processDueRetries *)

Newer(r) == r < Len(logs)

Due(r) == logs[r].retry = "pending" /\ logs[r].due

Current(s) == work[s][1]

(* The next row of the sweep, or its end. *)
NextRow(s) ==
  /\ work' = [work EXCEPT ![s] = Tail(@)]
  /\ stage' = [stage EXCEPT ![s] = IF Len(work[s]) = 1 THEN "idle" ELSE "check"]

GoTo(s, next) == stage' = [stage EXCEPT ![s] = next] /\ work' = work

(* Mutant: the sweep does not look for lapsed claims. *)
RecoverStaleRetryClaims_Never(s) ==
  /\ stage[s] = "idle"
  /\ GoTo(s, "scan")
  /\ UNCHANGED <<logs, live, jobs, dials, faults>>

(* A sweep begins with recoverStaleRetryClaims. *)
RecoverStaleRetryClaims(s) ==
  /\ stage[s] = "idle"
  /\ GoTo(s, "scan")
  /\ logs' = [r \in DOMAIN logs |->
                IF logs[r].retry = "retrying" /\ logs[r].lapsed
                THEN [logs[r] EXCEPT !.retry = "pending", !.lapsed = FALSE] ELSE logs[r]]
  /\ UNCHANGED <<live, jobs, dials, faults>>

(* getCallsDueForRetry: the rows are copied, and worked off from the copy.    *)
GetCallsDueForRetry(s) ==
  /\ stage[s] = "scan"
  /\ \E order \in SetToSeqs({r \in DOMAIN logs : Due(r)}) :
       /\ work' = [work EXCEPT ![s] = [i \in DOMAIN order |->
                                         [row |-> order[i], attempt |-> logs[order[i]].attempt]]]
       /\ stage' = [stage EXCEPT ![s] = IF order = <<>> THEN "idle" ELSE "check"]
  /\ UNCHANGED <<logs, live, jobs, dials, faults>>

(* A failed recovery is logged and the sweep goes on; a failed scan ends it.  *)
SweepFails(s) ==
  /\ stage[s] \in {"idle", "scan"}
  /\ Fault
  /\ GoTo(s, IF stage[s] = "idle" THEN "scan" ELSE "idle")
  /\ UNCHANGED <<logs, live, jobs, dials>>

(* hasNewerCallForPhone *)
CheckNewer(s) ==
  /\ stage[s] = "check"
  /\ GoTo(s, IF Newer(Current(s).row) THEN "newer" ELSE "claim")
  /\ UNCHANGED <<logs, live, jobs, dials, faults>>

(* Mutant: the UPDATE does not look at retry_status. *)
CanClaim_Unguarded(r) == logs[r].due /\ ~Newer(r)

CanClaim(r) == Due(r) /\ ~Newer(r)

(* claimCallForRetry *)
ClaimCallForRetry(s) ==
  LET r == Current(s).row IN
  /\ stage[s] = "claim"
  /\ \/ /\ CanClaim(r)
        /\ logs' = [logs EXCEPT ![r].retry = "retrying", ![r].lapsed = FALSE]
        /\ GoTo(s, "enqueue")
     \/ /\ ~CanClaim(r)
        /\ GoTo(s, "lost")
        /\ UNCHANGED logs
  /\ UNCHANGED <<live, jobs, dials, faults>>

(* The patch that both a newer call and a claim that did not succeed end in. *)
Supersede(s) ==
  /\ stage[s] \in {"newer", "lost"}
  /\ logs' = [logs EXCEPT ![Current(s).row] = Settled(@, "superseded")]
  /\ NextRow(s)
  /\ UNCHANGED <<live, jobs, dials, faults>>

(* The queue with the job, or without one copy of it. *)
Plus(B, j) == B (+) SetToBag({j})
Minus(B, j) == B (-) SetToBag({j})

Enqueue(s) ==
  /\ stage[s] = "enqueue"
  /\ jobs' = Plus(jobs, [row |-> Current(s).row, attempt |-> Current(s).attempt + 1,
                         by |-> s, step |-> "queued"])
  /\ NextRow(s)
  /\ UNCHANGED <<logs, live, dials, faults>>

(* A statement of the row fails, or there is no public URL to call back to:   *)
(* the row is given up.                                                    *)
RowFails(s) ==
  /\ stage[s] \in {"check", "claim", "newer", "enqueue"}
  /\ Fault
  /\ GoTo(s, "exhaust")
  /\ UNCHANGED <<logs, live, jobs, dials>>

Exhaust(s) ==
  /\ stage[s] = "exhaust"
  /\ logs' = [logs EXCEPT ![Current(s).row] = Settled(@, "exhausted")]
  /\ NextRow(s)
  /\ UNCHANGED <<live, jobs, dials, faults>>

(* .catch(() => {}) *)
PatchSwallowed(s) ==
  /\ stage[s] \in {"lost", "exhaust"}
  /\ Fault
  /\ NextRow(s)
  /\ UNCHANGED <<logs, live, jobs, dials>>

------------------------------------------------------------------------------
(* The job: handlePlaceRedialJob *)

Becomes(j, step) == jobs' = Plus(Minus(jobs, j), [j EXCEPT !.step = step])

PlaceCall(j) ==
  /\ live' = [live EXCEPT ![j.attempt] = @ + 1]
  /\ logs' = [logs EXCEPT ![j.row].placed = @ + 1]

(* triggerOutboundCall *)
TriggerOutboundCall(j) ==
  /\ j.step = "queued"
  /\ PlaceCall(j)
  /\ Becomes(j, "placed")
  /\ UNCHANGED <<stage, work, dials, faults>>

PlacementRefused(j) ==
  /\ j.step = "queued"
  /\ Becomes(j, "failed")
  /\ UNCHANGED <<logs, live, stage, work, dials, faults>>

(* The provider takes the call, and its answer is lost. *)
PlacementUnheard(j) ==
  /\ j.step = "queued"
  /\ Fault
  /\ PlaceCall(j)
  /\ Becomes(j, "failed")
  /\ UNCHANGED <<stage, work, dials>>

MarkRetried(j) ==
  /\ j.step = "placed"
  /\ logs' = [logs EXCEPT ![j.row] = Settled(@, "retried")]
  /\ jobs' = Minus(jobs, j)
  /\ UNCHANGED <<live, stage, work, dials, faults>>

MarkFails(j) ==
  /\ j.step = "placed"
  /\ Fault
  /\ Becomes(j, "failed")
  /\ UNCHANGED <<logs, live, stage, work, dials>>

(* The failed attempt counts. The campaign's policy is not passed on here.    *)
RecordFailure(j) ==
  /\ j.step = "failed"
  /\ logs' = [logs EXCEPT ![j.row] =
                [Settled(@, RetryFields(j.attempt, DefaultRetries)) EXCEPT !.attempt = j.attempt]]
  /\ jobs' = Minus(jobs, j)
  /\ UNCHANGED <<live, stage, work, dials, faults>>

RecordSwallowed(j) ==
  /\ j.step = "failed"
  /\ Fault
  /\ jobs' = Minus(jobs, j)
  /\ UNCHANGED <<logs, live, stage, work, dials>>

------------------------------------------------------------------------------
(* Processes and time *)

(* A scheduler process dies with its sweep and its queue. *)
Crash(s) ==
  /\ Fault
  /\ stage' = [stage EXCEPT ![s] = "idle"]
  /\ work' = [work EXCEPT ![s] = <<>>]
  /\ jobs' = [j \in {k \in DOMAIN jobs : k.by # s} |-> jobs[j]]
  /\ UNCHANGED <<logs, live, dials>>

RetryTimeComes(r) ==
  /\ r \in DOMAIN logs
  /\ logs[r].retry = "pending" /\ ~logs[r].due
  /\ logs' = [logs EXCEPT ![r].due = TRUE]
  /\ UNCHANGED <<live, jobs, stage, work, dials, faults>>

(* Somebody is still about to act on the claim. *)
Held(r) ==
  \/ \E j \in DOMAIN jobs : j.row = r
  \/ \E s \in Schedulers : stage[s] = "enqueue" /\ Current(s).row = r

(* The claim's lease ends; that it does so before its job is a fault. *)
ClaimLapses(r) ==
  /\ r \in DOMAIN logs
  /\ logs[r].retry = "retrying" /\ ~logs[r].lapsed
  /\ logs' = [logs EXCEPT ![r].lapsed = TRUE]
  /\ IF Held(r) THEN Fault ELSE UNCHANGED faults
  /\ UNCHANGED <<live, jobs, stage, work, dials>>

SweepStep(s) ==
  \/ RecoverStaleRetryClaims(s)
  \/ GetCallsDueForRetry(s)
  \/ SweepFails(s)
  \/ CheckNewer(s)
  \/ ClaimCallForRetry(s)
  \/ Supersede(s)
  \/ Enqueue(s)
  \/ RowFails(s)
  \/ Exhaust(s)
  \/ PatchSwallowed(s)

JobStep(j) ==
  \/ TriggerOutboundCall(j)
  \/ PlacementRefused(j)
  \/ PlacementUnheard(j)
  \/ MarkRetried(j)
  \/ MarkFails(j)
  \/ RecordFailure(j)
  \/ RecordSwallowed(j)

Time(r) == RetryTimeComes(r) \/ ClaimLapses(r)

RedialNext ==
  \/ Dial
  \/ \E a \in Attempts, o \in Outcomes : FinishCall(a, o)
  \/ \E s \in Schedulers : SweepStep(s)
  \/ \E j \in DOMAIN jobs : JobStep(j)
  \/ \E s \in Schedulers : Crash(s)
  \/ \E r \in DOMAIN logs : Time(r)

(* The schedule ticks, sweeps and jobs go on by themselves, time passes. *)
RedialSpec ==
  /\ RedialInit /\ [][RedialNext]_vars
  /\ \A s \in Schedulers :
       /\ WF_vars(SweepStep(s))
       /\ WF_vars(\E j \in DOMAIN jobs : j.by = s /\ JobStep(j))
  /\ WF_vars(\E r \in DOMAIN logs : Time(r))

------------------------------------------------------------------------------
(* Properties *)

(* Every variable has its type; no call has an attempt number past the        *)
(* longest chain.                                                          *)
RedialTypeOK ==
  /\ logs \in Seq(Log)
  /\ live \in [Attempts -> Nat]
  /\ IsABag(jobs) /\ DOMAIN jobs \subseteq Job /\ \A j \in DOMAIN jobs : j.row \in DOMAIN logs
  /\ stage \in [Schedulers -> Stages]
  /\ work \in [Schedulers -> Seq([row: Nat, attempt: Nat])]
  /\ \A s \in Schedulers : stage[s] \in {"idle", "scan"} <=> work[s] = <<>>
  /\ dials \in 0..MaxDials
  /\ faults \in 0..MaxFaults

Redials == SumFunctionOnSet([r \in DOMAIN logs |-> logs[r].placed], DOMAIN logs)

(* A call log is redialled once; each further call takes a fault of its own: *)
(* a lost answer, a failed mark, or a lease that ended before its job.      *)
RedialledOnce ==
  SumFunctionOnSet([r \in DOMAIN logs |-> IF logs[r].placed > 1 THEN logs[r].placed - 1 ELSE 0],
                   DOMAIN logs) <= faults

(* A number is called at most as often as the chains that were started        *)
(* allow: parallel chains and stale rows do not keep it ringing.            *)
CallsAreBounded == dials + Redials <= (dials + faults) * LongestChain

(* Every retry comes to an end: it is placed, given up or superseded, and     *)
(* neither a dead process nor two schedulers keep it pending or claimed.    *)
RetriesEnd ==
  <>[](\A r \in DOMAIN logs : logs[r].retry \notin {"pending", "retrying"})

(* The worker that loses the claim does not proceed: it leaves the row to     *)
(* the one that claimed it, unless there is a newer call.                   *)
LoserLeavesClaim ==
  [][\A r \in DOMAIN logs :
       logs[r].retry = "retrying" /\ logs'[r].retry = "superseded" => Newer(r)]_vars

==============================================================================
