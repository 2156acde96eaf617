-------------------------------- MODULE AutoDial --------------------------------
(***************************************************************************)
(* One campaign that is dialled in the background: the dialer_tasks row of  *)
(* crm/autoDialEngine.js, with everything that writes it.                  *)
(*                                                                         *)
(* Every scheduler instance reads the active tasks and works off what it    *)
(* has read: it records a call that has ended, gives up a claim that is too *)
(* old, or claims the next lead by a guarded UPDATE and queues a job. The   *)
(* job looks at the task again, has the provider place the call, looks once *)
(* more and stores the call's id. The end of the call is written by the     *)
(* media session, by the post-call pipeline and, if neither ran, found by   *)
(* the next scan. Start, Stop and the provider's webhook write the same     *)
(* row. Only the claim is guarded; all other writers read the row, wait, and *)
(* patch columns.                                                          *)
(*                                                                         *)
(* autoDialRunId and autoDialBlockedReason are no columns of the row:       *)
(* toDbRow drops them when they are written. The conditions on them are     *)
(* therefore those of a task that has neither.                             *)
(*                                                                         *)
(* Times are compared by what they decide: next_dial_at has come (due),     *)
(* current_call_started_at is set, or older than 30 minutes (started).      *)
(***************************************************************************)
EXTENDS Naturals, Sequences, FiniteSets, FiniteSetsExt

CONSTANTS
  Schedulers,   \* processes that run processAutoDialTasks
  NumLeads,     \* length of the task's lead list
  Outcomes,     \* how a call may end
  MaxStarts,    \* bound: auto-dial/start requests
  MaxStops,     \* bound: auto-dial/stop requests
  MaxCalls,     \* bound: placement jobs
  MaxFaults     \* bound: crashes, lost answers, claims outlived

ASSUME AutoDialAssumption ==
  /\ NumLeads \in Nat \ {0}
  /\ Outcomes \subseteq {"Completed", "No Answer", "Callback Scheduled"}
  /\ {MaxStarts, MaxStops, MaxCalls, MaxFaults} \subseteq Nat

VARIABLES
  task,     \* the dialer_tasks row
  sched,    \* where each scheduler's sweep is, and the row it has read
  calls,    \* placement jobs in the order they were queued, with their calls
  stop,     \* the stop request in progress
  starts, stops, faults

vars == <<task, sched, calls, stop, starts, stops, faults>>

Leads == 1..NumLeads
NoLead == 0
NoCall == 0

Results == [Leads -> {"Pending", "Completed", "No Answer", "Callback Scheduled"}]
NoResults == [l \in Leads |-> "Pending"]

Task == [enabled: BOOLEAN, lead: Leads \union {NoLead}, sid: Nat,
         status: {"paused", "waiting", "dialing", "waiting_for_callbacks", "completed"},
         started: {"none", "recent", "old"}, due: BOOLEAN, results: Results]

(* read is the call_results the job has read, seen those the end of the call *)
(* has read.                                                               *)
Call == [lead: Leads, read: Results, seen: Results, webhook: {"none", "checked", "done"},
         outcome: {"none", "Completed", "No Answer", "Callback Scheduled"},
         job: {"queued", "skipping", "placing", "placed", "committing", "unwanted",
               "refused", "failing", "blocked", "done"},
         call: {"none", "live", "ended", "marking", "marked", "logged", "recording",
                "done", "lost"}]

NewTask == [enabled |-> FALSE, lead |-> NoLead, sid |-> NoCall, status |-> "paused",
            started |-> "none", due |-> TRUE, results |-> NoResults]

Resting == [at |-> "idle", snap |-> NewTask]
NoStop == [at |-> "idle", sid |-> NoCall]

(* The campaign may have been dialled before. *)
AutoDialInit ==
  /\ \E results \in [Leads -> Outcomes \union {"Pending"}] :
       task = [NewTask EXCEPT !.results = results]
  /\ sched = [s \in Schedulers |-> Resting]
  /\ calls = <<>>
  /\ stop = NoStop
  /\ starts = 0 /\ stops = 0 /\ faults = 0

Fault == faults < MaxFaults /\ faults' = faults + 1

Pending(results) == {l \in Leads : results[l] = "Pending"}
Callbacks(results) == {l \in Leads : results[l] = "Callback Scheduled"}

With(results, lead, result) ==
  IF lead = NoLead THEN results ELSE [results EXCEPT ![lead] = result]

(* Mutant: only callbacks keep a task from being completed. *)
StatusAfter_CallbacksOnly(results) ==
  IF Callbacks(results) # {} THEN "waiting_for_callbacks" ELSE "completed"

(* The status a finished call leaves the task with. *)
StatusAfter(results) ==
  IF Pending(results) # {} THEN "paused"
  ELSE IF Callbacks(results) # {} THEN "waiting_for_callbacks" ELSE "completed"

(* The patch all three observers of a finished call make: the result, the    *)
(* lease released, and the campaign off until it is started again.         *)
CallOver(t, results) ==
  [t EXCEPT !.results = results, !.lead = NoLead, !.sid = NoCall, !.started = "none",
            !.enabled = FALSE, !.status = StatusAfter(results), !.due = TRUE]

(* The patch after a lead that could not be called: the next one follows     *)
(* after a pause. The call's id is left alone.                             *)
Skipped(t, results) ==
  [t EXCEPT !.results = results, !.lead = NoLead, !.started = "none",
            !.status = "waiting", !.due = FALSE]

------------------------------------------------------------------------------
(* Requests *)

(* auto-dial/start. What it reads decides only whether it is refused. *)
Start ==
  /\ starts < MaxStarts
  /\ Pending(task.results) \union Callbacks(task.results) # {}
  /\ task' = [task EXCEPT !.enabled = TRUE, !.status = "waiting", !.due = TRUE]
  /\ starts' = starts + 1
  /\ UNCHANGED <<sched, calls, stop, stops, faults>>

(* auto-dial/stop: the task is read, ... *)
StopRead ==
  /\ stop.at = "idle" /\ stops < MaxStops
  /\ stop' = [at |-> "read", sid |-> task.sid]
  /\ stops' = stops + 1
  /\ UNCHANGED <<task, sched, calls, starts, faults>>

(* ... then everything of the run is cleared, ... *)
StopPatch ==
  /\ stop.at = "read"
  /\ task' = [task EXCEPT !.enabled = FALSE, !.status = "paused", !.lead = NoLead,
                          !.sid = NoCall, !.started = "none", !.due = TRUE]
  /\ stop' = IF stop.sid = NoCall THEN NoStop ELSE [stop EXCEPT !.at = "hangup"]
  /\ UNCHANGED <<sched, calls, starts, stops, faults>>

(* Both hang-ups end a call that is still up and are no error otherwise. *)
Ended(c) == IF c.call = "live" THEN [c EXCEPT !.call = "ended"] ELSE c

(* ... and the call whose id was read is hung up: forceHangupCurrentCall.     *)
StopHangUp ==
  /\ stop.at = "hangup"
  /\ stop' = NoStop
  /\ calls' = [calls EXCEPT ![stop.sid] = Ended(@)]
  /\ UNCHANGED <<task, sched, starts, stops, faults>>

------------------------------------------------------------------------------
(* The sweep of a scheduler: processTask on the row it has read *)

GoTo(s, at) == sched' = [sched EXCEPT ![s].at = at]
Rest(s) == sched' = [sched EXCEPT ![s] = Resting]

SweepOnly == UNCHANGED <<calls, stop, starts, stops, faults>>

(* The row as it was read allows the next lead to be dialled. *)
MayDial(snap) == snap.sid = NoCall /\ snap.lead = NoLead /\ snap.enabled /\ snap.due

(* The claimed lead is being dialled, the pause between two calls is not     *)
(* over, or the campaign waits for its callbacks.                          *)
NothingToDo(snap) ==
  /\ snap.sid = NoCall
  /\ IF snap.lead # NoLead THEN snap.started # "old"
     ELSE \/ ~MayDial(snap)
          \/ /\ snap.status = "waiting_for_callbacks"
             /\ Pending(snap.results) = {} /\ Callbacks(snap.results) # {}

(* getActiveAutoDialTasks. A sweep that finds nothing to do is left out. *)
Scan(s) ==
  /\ sched[s].at = "idle"
  /\ task.enabled \/ task.sid # NoCall
  /\ ~NothingToDo(task)
  /\ sched' = [sched EXCEPT ![s] = [at |-> "scanned", snap |-> task]]
  /\ UNCHANGED task /\ SweepOnly

(* The call's log is in call_logs. *)
Logged(i) == calls[i].call \in {"logged", "recording", "done"}

(* A call is in flight: has its log been written? *)
LookUpCall(s) ==
  LET snap == sched[s].snap IN
  /\ sched[s].at = "scanned" /\ snap.sid # NoCall
  /\ IF Logged(snap.sid) THEN GoTo(s, "finished")
     ELSE IF snap.started = "old" THEN GoTo(s, "expired") ELSE Rest(s)
  /\ UNCHANGED task /\ SweepOnly

(* It has: the result goes to the lead the row named. *)
RecordFinished(s) ==
  LET snap == sched[s].snap IN
  /\ sched[s].at = "finished"
  /\ task' = CallOver(task, With(snap.results, snap.lead, calls[snap.sid].outcome))
  /\ Rest(s) /\ SweepOnly

(* Mutant: a claim whose job never placed a call is waited for. *)
GiveUp_PlacedOnly(s) ==
  LET snap == sched[s].snap
      skipped == Skipped(task, With(snap.results, snap.lead, "No Answer"))
  IN /\ sched[s].at = "expired"
     /\ task' = [skipped EXCEPT !.status = IF snap.enabled THEN "waiting" ELSE "paused",
                                !.sid = NoCall]
     /\ Rest(s) /\ SweepOnly

(* The claim is older than 30 minutes, with a call that left no log or none.  *)
GiveUp(s) ==
  LET snap == sched[s].snap
      skipped == Skipped(task, With(snap.results, snap.lead, "No Answer"))
  IN /\ \/ sched[s].at = "expired"
        \/ sched[s].at = "scanned" /\ snap.sid = NoCall /\ snap.lead # NoLead
           /\ snap.started = "old"
     /\ task' = [skipped EXCEPT !.status = IF snap.enabled THEN "waiting" ELSE "paused",
                                !.sid = IF snap.sid = NoCall THEN @ ELSE NoCall]
     /\ Rest(s) /\ SweepOnly

(* Every lead has been called, some are to be called back. *)
AwaitCallbacks(s) ==
  LET snap == sched[s].snap IN
  /\ sched[s].at = "scanned" /\ MayDial(snap)
  /\ Pending(snap.results) = {} /\ Callbacks(snap.results) # {}
  /\ task' = [task EXCEPT !.status = "waiting_for_callbacks", !.due = FALSE]
  /\ Rest(s) /\ SweepOnly

(* Every lead has been called. *)
Complete(s) ==
  LET snap == sched[s].snap IN
  /\ sched[s].at = "scanned" /\ MayDial(snap)
  /\ Pending(snap.results) = {} /\ Callbacks(snap.results) = {}
  /\ task' = [task EXCEPT !.enabled = FALSE, !.status = "completed"]
  /\ Rest(s) /\ SweepOnly

(* nextPendingLeadId *)
NextLead(snap) == Min(Pending(snap.results))

(* Mutant: the read of the row takes the place of the guard on the claim. *)
Claimable_AsRead(lead) == task.enabled /\ task.due /\ task.results[lead] = "Pending"

(* The WHERE of claimAutoDialLead. *)
Claimable(lead) ==
  /\ task.enabled /\ task.lead = NoLead /\ task.due
  /\ task.results[lead] = "Pending"

(* claimAutoDialLead: another instance may have been first. *)
Claim(s) ==
  LET snap == sched[s].snap IN
  /\ sched[s].at = "scanned" /\ MayDial(snap) /\ Pending(snap.results) # {}
  /\ IF Claimable(NextLead(snap))
     THEN /\ task' = [task EXCEPT !.lead = NextLead(snap), !.status = "dialing",
                                  !.started = "recent"]
          /\ GoTo(s, "claimed")
     ELSE UNCHANGED task /\ Rest(s)
  /\ SweepOnly

(* The claimed lead has no telephone number, or preparing the call failed.    *)
NotCallable(s) ==
  LET snap == sched[s].snap IN
  /\ sched[s].at = "claimed"
  /\ task' = Skipped(task, With(snap.results, NextLead(snap), "No Answer"))
  /\ Rest(s) /\ SweepOnly

(* There is no public URL, or the number's provider cannot dial.              *)
Unconfigured(s) ==
  /\ sched[s].at = "claimed"
  /\ task' = [task EXCEPT !.lead = NoLead, !.started = "none", !.enabled = FALSE,
                          !.status = "paused"]
  /\ Rest(s) /\ SweepOnly

Enqueue(s) ==
  /\ sched[s].at = "claimed"
  /\ Len(calls) < MaxCalls
  /\ calls' = Append(calls,
       [lead |-> NextLead(sched[s].snap), job |-> "queued", call |-> "none",
        outcome |-> "none", webhook |-> "none", read |-> NoResults, seen |-> NoResults])
  /\ Rest(s)
  /\ UNCHANGED <<task, stop, starts, stops, faults>>

Sweep(s) ==
  \/ Scan(s) \/ LookUpCall(s) \/ RecordFinished(s) \/ GiveUp(s)
  \/ AwaitCallbacks(s) \/ Complete(s) \/ Claim(s) \/ NotCallable(s) \/ Unconfigured(s)
  \/ Enqueue(s)

------------------------------------------------------------------------------
(* The job: handlePlaceDialJobScoped *)

Becomes(i, c) == calls' = [calls EXCEPT ![i] = c]
Job(i, step) == Becomes(i, [calls[i] EXCEPT !.job = step])

JobOnly == UNCHANGED <<sched, stop, starts, stops, faults>>

(* The task may have been stopped since the job was queued. *)
CheckTask(i) ==
  /\ calls[i].job = "queued"
  /\ Job(i, IF task.enabled THEN "placing" ELSE "skipping")
  /\ UNCHANGED task /\ JobOnly

(* It was: the claim is released. *)
SkipDial(i) ==
  /\ calls[i].job = "skipping"
  /\ task' = [task EXCEPT !.lead = NoLead, !.started = "none"]
  /\ Job(i, "done") /\ JobOnly

(* telephony.triggerOutboundCall has the call placed. *)
PlaceCall(i) ==
  /\ calls[i].job = "placing"
  /\ Becomes(i, [calls[i] EXCEPT !.job = "placed", !.call = "live"])
  /\ UNCHANGED task /\ JobOnly

(* It refuses: no credentials, the provider's error; compliance or balance.   *)
RefuseCall(i) ==
  /\ calls[i].job = "placing"
  /\ \E step \in {"refused", "blocked"} : Job(i, step)
  /\ UNCHANGED task /\ JobOnly

(* The call is placed, but the answer of the provider or of the next read is  *)
(* lost: the job takes it for a failure.                                   *)
LoseAnswer(i) ==
  /\ calls[i].job = "placing"
  /\ Becomes(i, [calls[i] EXCEPT !.job = "refused", !.call = "live"])
  /\ Fault
  /\ UNCHANGED <<task, sched, stop, starts, stops>>

(* Is the call still wanted? *)
Recheck(i) ==
  /\ calls[i].job = "placed"
  /\ Job(i, IF task.enabled /\ task.lead = calls[i].lead THEN "committing" ELSE "unwanted")
  /\ UNCHANGED task /\ JobOnly

(* It is not: it is hung up. *)
HangUpUnwanted(i) ==
  /\ calls[i].job = "unwanted"
  /\ Becomes(i, Ended([calls[i] EXCEPT !.job = "done"]))
  /\ UNCHANGED task /\ JobOnly

(* It is: its id is stored. *)
CommitCall(i) ==
  /\ calls[i].job = "committing"
  /\ task' = [task EXCEPT !.sid = i]
  /\ Job(i, "done") /\ JobOnly

(* Mutant: the results are taken from the campaign as it was created. *)
ReadForRefusal_Stale(i) ==
  /\ calls[i].job = "refused"
  /\ Job(i, "failing")
  /\ UNCHANGED task /\ JobOnly

(* The call was refused for the lead: the task is read, ... *)
ReadForRefusal(i) ==
  /\ calls[i].job = "refused"
  /\ Becomes(i, [calls[i] EXCEPT !.job = "failing", !.read = task.results])
  /\ UNCHANGED task /\ JobOnly

(* ... and the lead is passed over. *)
RecordRefusal(i) ==
  /\ calls[i].job = "failing"
  /\ task' = Skipped(task, With(calls[i].read, calls[i].lead, "No Answer"))
  /\ Becomes(i, [calls[i] EXCEPT !.job = "done", !.read = NoResults])
  /\ JobOnly

(* The call was refused for the whole task. *)
PauseBlocked(i) ==
  /\ calls[i].job = "blocked"
  /\ task' = [task EXCEPT !.enabled = FALSE, !.status = "paused", !.lead = NoLead,
                          !.sid = NoCall, !.started = "none", !.due = TRUE]
  /\ Job(i, "done") /\ JobOnly

JobStep(i) ==
  \/ CheckTask(i) \/ SkipDial(i) \/ PlaceCall(i) \/ RefuseCall(i) \/ Recheck(i)
  \/ HangUpUnwanted(i) \/ CommitCall(i) \/ ReadForRefusal(i) \/ RecordRefusal(i)
  \/ PauseBlocked(i)

(* The process dies: the memory queue and its jobs with it. *)
LoseJob(i) ==
  /\ calls[i].job # "done"
  /\ Becomes(i, [calls[i] EXCEPT !.job = "done", !.read = NoResults])
  /\ Fault
  /\ UNCHANGED <<task, sched, stop, starts, stops>>

------------------------------------------------------------------------------
(* The call: the media session, the post-call pipeline and the webhook *)

CallOnly == UNCHANGED <<sched, stop, starts, stops, faults>>

(* Either side hangs up. *)
HangUp(i) ==
  /\ calls[i].call = "live"
  /\ Becomes(i, Ended(calls[i]))
  /\ UNCHANGED task /\ CallOnly

(* finalizeCall, markDialerTaskCallEnded: the media session knows how the     *)
(* call went and reads the task, ...                                       *)
MarkRead(i) ==
  /\ calls[i].call = "ended"
  /\ \E outcome \in Outcomes :
       Becomes(i, [calls[i] EXCEPT !.call = "marking", !.outcome = outcome,
                                   !.seen = task.results])
  /\ UNCHANGED task /\ CallOnly

(* ... and patches it with what is known before the transcript is analysed.       *)
MarkEnded(i) ==
  LET result == IF calls[i].outcome = "No Answer" THEN "No Answer" ELSE "Completed" IN
  /\ calls[i].call = "marking"
  /\ task' = CallOver(task, With(calls[i].seen, calls[i].lead, result))
  /\ Becomes(i, [calls[i] EXCEPT !.call = "marked", !.seen = NoResults])
  /\ CallOnly

(* The post-call pipeline writes the call log, ... *)
WriteLog(i) ==
  /\ calls[i].call = "marked"
  /\ Becomes(i, [calls[i] EXCEPT !.call = "logged"])
  /\ UNCHANGED task /\ CallOnly

(* ... reads the task, ... *)
RecordRead(i) ==
  /\ calls[i].call = "logged"
  /\ Becomes(i, [calls[i] EXCEPT !.call = "recording", !.seen = task.results])
  /\ UNCHANGED task /\ CallOnly

(* ... and patches it with the outcome. *)
RecordOutcome(i) ==
  /\ calls[i].call = "recording"
  /\ task' = CallOver(task, With(calls[i].seen, calls[i].lead, calls[i].outcome))
  /\ Becomes(i, [calls[i] EXCEPT !.call = "done", !.seen = NoResults])
  /\ CallOnly

(* There was no media session: the hang-up webhook writes a No Answer log,    *)
(* and the task is left to the next scan.                                  *)
FallbackLog(i) ==
  /\ calls[i].call = "ended"
  /\ Becomes(i, [calls[i] EXCEPT !.call = "done", !.outcome = "No Answer"])
  /\ UNCHANGED task /\ CallOnly

CallStep(i) ==
  \/ HangUp(i) \/ MarkRead(i) \/ MarkEnded(i) \/ WriteLog(i) \/ RecordRead(i)
  \/ RecordOutcome(i) \/ FallbackLog(i)

(* The process dies before the log is written. *)
LoseLog(i) ==
  /\ calls[i].call \in {"ended", "marking", "marked"}
  /\ Becomes(i, [calls[i] EXCEPT !.call = "lost", !.seen = NoResults])
  /\ Fault
  /\ UNCHANGED <<task, sched, stop, starts, stops>>

(* syncDialerProviderCallSid: a webhook of a call whose session has not been  *)
(* finalized finds the task switched on, ...                               *)
WebhookRead(i) ==
  /\ calls[i].call \in {"live", "ended"} /\ calls[i].webhook = "none"
  /\ task.enabled
  /\ Becomes(i, [calls[i] EXCEPT !.webhook = "checked"])
  /\ UNCHANGED task /\ CallOnly

(* ... and stores the call's id. *)
WebhookPatch(i) ==
  /\ calls[i].webhook = "checked"
  /\ task' = [task EXCEPT !.sid = i]
  /\ Becomes(i, [calls[i] EXCEPT !.webhook = "done"])
  /\ CallOnly

------------------------------------------------------------------------------
(* Time *)

(* next_dial_at has come. *)
DialTimeComes ==
  /\ ~task.due
  /\ task' = [task EXCEPT !.due = TRUE]
  /\ UNCHANGED <<sched, calls, stop, starts, stops, faults>>

(* Somebody still works on the claimed lead or its call. *)
Attended ==
  \/ \E s \in Schedulers : sched[s].at = "claimed"
  \/ \E i \in DOMAIN calls :
       \/ calls[i].webhook = "checked"
       \/ /\ calls[i].lead = task.lead \/ task.sid = i
          /\ calls[i].job # "done" \/ calls[i].call \notin {"none", "done", "lost"}

(* The claim is 30 minutes old. Jobs, webhooks and the pipeline are far    *)
(* shorter than that; a call that lasts longer is a fault.                         *)
ClaimAges ==
  /\ task.started = "recent"
  /\ task' = [task EXCEPT !.started = "old"]
  /\ IF Attended THEN Fault ELSE UNCHANGED faults
  /\ UNCHANGED <<sched, calls, stop, starts, stops>>

------------------------------------------------------------------------------
AutoDialNext ==
  \/ Start \/ StopRead \/ StopPatch \/ StopHangUp
  \/ \E s \in Schedulers : Sweep(s)
  \/ \E i \in DOMAIN calls :
       JobStep(i) \/ LoseAnswer(i) \/ LoseJob(i) \/ CallStep(i) \/ LoseLog(i)
         \/ WebhookRead(i) \/ WebhookPatch(i)
  \/ DialTimeComes \/ ClaimAges

(* The sweep runs every 15 seconds in every instance, jobs are worked off,    *)
(* requests under way are finished, calls end and their logs are written,     *)
(* and time passes. Nobody has to press Start or Stop, no webhook has to      *)
(* come, and nothing has to be lost.                                       *)
AutoDialFairness ==
  /\ \A s \in Schedulers : WF_vars(Sweep(s))
  /\ \A i \in 1..MaxCalls :
       /\ WF_vars(i \in DOMAIN calls /\ JobStep(i))
       /\ WF_vars(i \in DOMAIN calls /\ CallStep(i))
       /\ WF_vars(i \in DOMAIN calls /\ WebhookPatch(i))
  /\ WF_vars(StopPatch) /\ WF_vars(StopHangUp)
  /\ WF_vars(DialTimeComes)
  /\ WF_vars(ClaimAges)

AutoDialSpec == AutoDialInit /\ [][AutoDialNext]_vars /\ AutoDialFairness

------------------------------------------------------------------------------
(* Properties *)

(* The types of the variables (columns of dialer_tasks in                    *)
(* db/repository.js, the steps of crm/autoDialEngine.js).                   *)
TypeOK ==
  /\ task \in Task
  /\ sched \in [Schedulers -> [at: {"idle", "scanned", "finished", "expired", "claimed"},
                               snap: Task]]
  /\ calls \in Seq(Call)
  /\ stop \in [at: {"idle", "read", "hangup"}, sid: 0..MaxCalls]
  /\ {starts, stops, faults} \subseteq Nat

InFlight == {i \in DOMAIN calls : calls[i].call = "live"}
Placed == {i \in DOMAIN calls : calls[i].call # "none"}

(* While nothing is lost, each start of the campaign places at most one call, *)
(* though every instance sweeps, jobs run late, and a finished call is       *)
(* written by three observers ("The user must explicitly start Auto Dial      *)
(* again to place another call": crm/autoDialEngine.js).                   *)
OneCallPerStart == faults = 0 => Cardinality(Placed) <= starts

(* What the engine's header says: "places one outbound call at a time".        *)
OneCallAtATime == Cardinality(InFlight) <= 1

(* Nothing was lost, and no call of an earlier start is still being written. *)
FirstRun == starts <= 1 /\ faults = 0

(* A campaign whose completion was announced has a result for every lead,    *)
(* though the completing patch uses results read earlier (Complete and the    *)
(* three finishing patches).                                               *)
CompletedIsComplete ==
  task.status = "completed" /\ FirstRun => Pending(task.results) = {}

(* No step of a campaign that goes on sets the result of a lead back, from    *)
(* results read earlier, so that it would be dialled again (handlePlaceDialJob *)
(* and processTask patch the whole of call_results).                       *)
ResultsKept ==
  [][task'.enabled /\ FirstRun' => Pending(task'.results) \subseteq Pending(task.results)]_vars

(* A campaign that is switched on does not hang: it is switched off, or waits *)
(* for callbacks, whichever single job, answer or log is lost ("Don't leave   *)
(* the task stuck forever": crm/autoDialEngine.js).                         *)
RunEnds == task.enabled ~> (~task.enabled \/ task.status = "waiting_for_callbacks")

==============================================================================
