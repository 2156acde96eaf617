----------------------------- MODULE AutoDialProofs -----------------------------
(***************************************************************************)
(* Proofs about AutoDial for every set of schedulers, every number of leads, *)
(* requests and jobs: the types, and what a campaign that has been started   *)
(* once keeps while nothing is lost.                                       *)
(***************************************************************************)
EXTENDS AutoDial, SumTheorems, SequenceTheorems, TLAPS

------------------------------------------------------------------------------
(* Leads and results *)

Written == {"Completed", "No Answer", "Callback Scheduled"}

(* The lead that is dialled next. *)
IsNext(lead, results) ==
  lead \in Pending(results) /\ \A l \in Pending(results) : lead <= l

LEMMA LeadsType == Leads \subseteq Nat /\ NoLead \notin Leads /\ NoLead \in Nat
<1>1. NumLeads \in Nat
  BY AutoDialAssumption
<1>2. \A n \in Nat : 1..n \subseteq Nat /\ 0 \notin 1..n
  OBVIOUS
<1> QED
  BY <1>1, <1>2 DEF Leads, NoLead

LEMMA PendingType ==
  ASSUME NEW results
  PROVE  Pending(results) \subseteq Leads /\ Pending(results) \subseteq Nat
BY LeadsType DEF Pending

LEMMA NextIsOne ==
  ASSUME NEW results \in Results, NEW a, NEW b, IsNext(a, results), IsNext(b, results)
  PROVE  a = b
<1>1. a \in Nat /\ b \in Nat
  BY PendingType DEF IsNext
<1>2. a <= b /\ b <= a
  BY DEF IsNext
<1> QED
  BY <1>1, <1>2

LEMMA NextLeadType ==
  ASSUME NEW snap \in Task, Pending(snap.results) # {}
  PROVE  /\ NextLead(snap) \in Leads /\ NextLead(snap) # NoLead
         /\ IsNext(NextLead(snap), snap.results)
<1>1. Pending(snap.results) \in SUBSET Nat
  BY PendingType
<1>2. \E m \in Pending(snap.results) : \A n \in Pending(snap.results) : m <= n
  BY <1>1, NatLeast
<1>3. NextLead(snap) = CHOOSE x \in Pending(snap.results) : \A y \in Pending(snap.results) : x =< y
  BY Zenon DEF NextLead, Min
<1>4. IsNext(NextLead(snap), snap.results)
  BY <1>2, <1>3 DEF IsNext
<1> QED
  BY <1>4, PendingType, LeadsType DEF IsNext

(* A result is written for one lead, or, if none is named, for none. *)
LEMMA WithType ==
  ASSUME NEW results \in Results, NEW lead \in Leads \union {NoLead}, NEW result \in Written
  PROVE  /\ With(results, lead, result) \in Results
         /\ Pending(With(results, lead, result)) = Pending(results) \ {lead}
<1>1. CASE lead = NoLead
  BY <1>1, PendingType, LeadsType DEF With
<1>2. CASE lead # NoLead
  <2>1. With(results, lead, result) = [results EXCEPT ![lead] = result] /\ lead \in Leads
    BY <1>2 DEF With
  <2> QED
    BY <2>1 DEF Written, Results, Pending
<1> QED
  BY <1>1, <1>2

LEMMA CallOverType ==
  ASSUME NEW t \in Task, NEW results \in Results
  PROVE  LET u == CallOver(t, results) IN
         /\ u \in Task /\ u.results = results /\ u.sid = NoCall
         /\ ~u.enabled /\ u.lead = NoLead /\ u.started = "none"
         /\ u.status = "completed" => Pending(results) = {}
BY DEF CallOver, Task, StatusAfter, NoLead, NoCall

LEMMA SkippedType ==
  ASSUME NEW t \in Task, NEW results \in Results
  PROVE  LET u == Skipped(t, results) IN
         /\ u \in Task /\ u.results = results /\ u.sid = t.sid
         /\ u.enabled = t.enabled /\ u.lead = NoLead /\ u.started = "none"
         /\ u.status = "waiting"
BY DEF Skipped, Task, NoLead

------------------------------------------------------------------------------
(* Types, and the references between the rows *)

(* What a call that has ended knows, and what has been placed. *)
CallOK(c) ==
  /\ c.call \in {"marking", "marked", "logged", "recording", "done"} => c.outcome # "none"
  /\ c.webhook = "checked" \/ c.job \in {"placed", "committing", "unwanted"}
       => c.call # "none"
  /\ c.job \in {"queued", "skipping", "placing"} => c.call = "none"

SweepState == [at: {"idle", "scanned", "finished", "expired", "claimed"}, snap: Task]

SweepOK(x) ==
  /\ x.snap.sid \in Placed \union {NoCall}
  /\ x.at = "finished" => x.snap.sid # NoCall /\ Logged(x.snap.sid)
  /\ x.at = "expired" => x.snap.sid # NoCall
  /\ x.at = "claimed" => Pending(x.snap.results) # {}

Sound ==
  /\ TypeOK
  /\ Len(calls) <= MaxCalls /\ \A i \in DOMAIN calls : CallOK(calls[i])
  /\ {task.sid, stop.sid} \subseteq Placed \union {NoCall}
  /\ stop.at = "hangup" => stop.sid # NoCall
  /\ \A s \in Schedulers : SweepOK(sched[s])

(* The calls stay, and what has been placed or logged stays so. *)
CallsKept ==
  /\ calls' \in Seq(Call) /\ Len(calls') <= MaxCalls
  /\ DOMAIN calls \subseteq DOMAIN calls' /\ Placed \subseteq Placed'
  /\ \A i \in DOMAIN calls : Logged(i) => Logged(i)'
  /\ \A i \in DOMAIN calls' : CallOK(calls'[i])

LEMMA CallsType ==
  ASSUME calls \in Seq(Call)
  PROVE  /\ Len(calls) \in Nat /\ DOMAIN calls = 1..Len(calls)
         /\ \A i \in DOMAIN calls : calls[i] \in Call /\ i \in Nat /\ i # NoCall
<1>1. Len(calls) \in Nat /\ DOMAIN calls = 1..Len(calls)
  BY LenProperties
<1>2. \A i \in DOMAIN calls : calls[i] \in Call
  BY <1>1, ElementOfSeq
<1> QED
  BY <1>1, <1>2 DEF NoCall

LEMMA SameCalls ==
  ASSUME Sound, calls' = calls
  PROVE  CallsKept
BY DEF CallsKept, Sound, TypeOK, Placed, Logged

(* One call is written. *)
LEMMA CallWritten ==
  ASSUME calls \in Seq(Call), NEW i \in DOMAIN calls, NEW c \in Call, Becomes(i, c)
  PROVE  /\ calls' \in Seq(Call) /\ Len(calls') = Len(calls) /\ DOMAIN calls' = DOMAIN calls
         /\ calls'[i] = c /\ \A j \in DOMAIN calls \ {i} : calls'[j] = calls[j]
<1>1. i \in 1..Len(calls) /\ DOMAIN calls = 1..Len(calls)
  BY CallsType
<1>2. calls' = [calls EXCEPT ![i] = c]
  BY DEF Becomes
<1>3. calls' \in Seq(Call) /\ Len(calls') = Len(calls)
      /\ \A j \in 1..Len(calls) : calls'[j] = IF j = i THEN c ELSE calls[j]
  BY <1>1, <1>2, ExceptSeq
<1>4. DOMAIN calls' = DOMAIN calls
  BY <1>2
<1> QED
  BY <1>1, <1>3, <1>4

LEMMA OneCallKept ==
  ASSUME Sound, NEW i \in DOMAIN calls, NEW c \in Call, Becomes(i, c), CallOK(c),
         calls[i].call # "none" => c.call # "none",
         Logged(i) => c.call \in {"logged", "recording", "done"}
  PROVE  CallsKept
<1>1. calls \in Seq(Call)
  BY DEF Sound, TypeOK
<1>2. /\ calls' \in Seq(Call) /\ Len(calls') = Len(calls) /\ DOMAIN calls' = DOMAIN calls
      /\ calls'[i] = c /\ \A j \in DOMAIN calls \ {i} : calls'[j] = calls[j]
  BY <1>1, CallWritten
<1>3. Placed \subseteq Placed'
  BY <1>2 DEF Placed
<1>4. \A j \in DOMAIN calls : Logged(j) => Logged(j)'
  BY <1>2 DEF Logged
<1> QED
  BY <1>2, <1>3, <1>4 DEF CallsKept, Sound

LEMMA StepKeepsSound ==
  ASSUME Sound, CallsKept,
         task' \in Task, task'.sid \in Placed' \union {NoCall},
         stop' = stop, starts' \in Nat, stops' = stops, faults' \in Nat,
         sched' = sched \/ \E s \in Schedulers : \E x \in SweepState :
                              sched' = [sched EXCEPT ![s] = x] /\ SweepOK(x)'
  PROVE  Sound'
<1>1. \A x : SweepOK(x) => SweepOK(x)'
  <2>1. \A n \in Placed : n \in DOMAIN calls
    BY DEF Placed
  <2> QED
    BY <2>1 DEF SweepOK, CallsKept
<1>2. sched' \in [Schedulers -> SweepState] /\ \A s \in Schedulers : SweepOK(sched[s])'
  BY <1>1 DEF Sound, TypeOK, SweepState
<1>3. TypeOK'
  BY <1>2 DEF Sound, TypeOK, SweepState, CallsKept
<1>4. stop'.sid \in Placed' \union {NoCall} /\ (stop'.at = "hangup" => stop'.sid # NoCall)
  BY DEF Sound, CallsKept
<1> QED
  BY <1>2, <1>3, <1>4 DEF Sound, CallsKept

(* A call is queued. *)
LEMMA CallAppended ==
  ASSUME Sound, NEW c \in Call, CallOK(c), Len(calls) < MaxCalls, calls' = Append(calls, c)
  PROVE  /\ CallsKept /\ DOMAIN calls' = DOMAIN calls \union {Len(calls) + 1}
         /\ Len(calls) + 1 \notin DOMAIN calls /\ calls'[Len(calls) + 1] = c
         /\ \A j \in DOMAIN calls : calls'[j] = calls[j]
<1>1. calls \in Seq(Call) /\ MaxCalls \in Nat
  BY AutoDialAssumption DEF Sound, TypeOK
<1>2. Len(calls) \in Nat /\ DOMAIN calls = 1..Len(calls)
  BY <1>1, CallsType
<1>3. calls' \in Seq(Call) /\ Len(calls') = Len(calls) + 1
  BY <1>1
<1>4. DOMAIN calls' = 1..(Len(calls) + 1)
  BY <1>2, <1>3, LenProperties
<1>5. DOMAIN calls' = DOMAIN calls \union {Len(calls) + 1} /\ Len(calls) + 1 \notin DOMAIN calls
  BY <1>2, <1>4
<1>6. calls'[Len(calls) + 1] = c /\ \A j \in DOMAIN calls : calls'[j] = calls[j]
  BY <1>1, <1>2
<1>7. Len(calls') <= MaxCalls
  BY <1>1, <1>2, <1>3
<1>8. \A i \in DOMAIN calls' : CallOK(calls'[i])
  BY <1>5, <1>6 DEF Sound
<1>9. Placed \subseteq Placed' /\ \A i \in DOMAIN calls : Logged(i) => Logged(i)'
  BY <1>5, <1>6 DEF Placed, Logged
<1> QED
  BY <1>3, <1>5, <1>6, <1>7, <1>8, <1>9 DEF CallsKept

(* How the sweep of s moves. *)
SweepMoves ==
  \/ sched' = sched
  \/ \E s \in Schedulers : \E x \in SweepState :
       sched' = [sched EXCEPT ![s] = x] /\ SweepOK(x)'

LEMMA SweepRests ==
  ASSUME NEW s \in Schedulers, Rest(s)
  PROVE  SweepMoves
<1>1. Resting \in SweepState /\ Resting.at = "idle" /\ Resting.snap.sid = NoCall
  BY DEF Resting, SweepState, NewTask, Task, NoResults, Results, NoLead, NoCall
<1>2. SweepOK(Resting)'
  BY <1>1 DEF SweepOK, Resting
<1> QED
  BY <1>1, <1>2 DEF SweepMoves, Rest

LEMMA SweepGoes ==
  ASSUME Sound, CallsKept, NEW s \in Schedulers, NEW at, GoTo(s, at),
         at \in {"finished", "expired"} => sched[s].snap.sid # NoCall,
         at = "finished" => Logged(sched[s].snap.sid),
         at = "claimed" => Pending(sched[s].snap.results) # {},
         at \in {"idle", "scanned", "finished", "expired", "claimed"}
  PROVE  SweepMoves
<1>1. PICK x : x = [sched[s] EXCEPT !.at = at]
  OBVIOUS
<1>2. sched[s] \in SweepState /\ sched \in [Schedulers -> SweepState]
  BY DEF Sound, TypeOK, SweepState
<1>3. x \in SweepState /\ x.at = at /\ x.snap = sched[s].snap
  BY <1>1, <1>2 DEF SweepState
<1>4. x.snap.sid \in Placed \union {NoCall}
  BY <1>3 DEF Sound, SweepOK
<1>5. x.at = "finished" => Logged(x.snap.sid)'
  BY <1>3, <1>4 DEF CallsKept, Placed
<1>6. SweepOK(x)'
  BY <1>3, <1>4, <1>5 DEF SweepOK, CallsKept
<1>7. sched' = [sched EXCEPT ![s] = x]
  BY <1>1, <1>2 DEF GoTo
<1> QED
  BY <1>3, <1>6, <1>7 DEF SweepMoves

LEMMA StepIsSound ==
  ASSUME Sound, CallsKept, SweepMoves, stop' = stop, starts' \in Nat, stops' = stops, faults' \in Nat,
         task' \in Task, task'.sid \in Placed \union {NoCall}
  PROVE  Sound'
BY StepKeepsSound DEF SweepMoves, CallsKept

(* What a sweep knows of the row it has read, and of the call it found. *)
LEMMA SnapType ==
  ASSUME Sound, NEW s \in Schedulers
  PROVE  /\ sched[s] \in SweepState /\ sched[s].snap \in Task
         /\ sched[s].snap.results \in Results
         /\ sched[s].snap.lead \in Leads \union {NoLead}
         /\ sched[s].at = "finished" => calls[sched[s].snap.sid].outcome \in Written
<1>1. sched[s] \in SweepState /\ sched[s].snap \in Task
  BY DEF Sound, TypeOK, SweepState
<1>2. ASSUME sched[s].at = "finished"
      PROVE  calls[sched[s].snap.sid].outcome \in Written
  <2>1. PICK n : n = sched[s].snap.sid
    OBVIOUS
  <2>2. n \in DOMAIN calls /\ Logged(n)
    BY <1>2, <2>1 DEF Sound, SweepOK, Placed
  <2>3. calls[n] \in Call /\ CallOK(calls[n])
    BY <2>2, CallsType DEF Sound, TypeOK
  <2> QED
    BY <2>1, <2>2, <2>3 DEF CallOK, Call, Logged, Written
<1> QED
  BY <1>1, <1>2 DEF Task

LEMMA SweepSound ==
  ASSUME Sound, NEW s \in Schedulers, Sweep(s)
  PROVE  Sound'
<1> DEFINE snap == sched[s].snap
<1>1. /\ sched[s] \in SweepState /\ snap \in Task /\ snap.results \in Results
      /\ snap.lead \in Leads \union {NoLead}
      /\ sched[s].at = "finished" => calls[snap.sid].outcome \in Written
  BY SnapType
<1>2. task \in Task /\ task.sid \in Placed \union {NoCall} /\ task.results \in Results
      /\ starts \in Nat /\ stops \in Nat /\ faults \in Nat
  BY DEF Sound, TypeOK, Task
<1>3. CASE ~Enqueue(s)
  <2>1. calls' = calls /\ stop' = stop /\ starts' = starts /\ stops' = stops /\ faults' = faults
    BY <1>3 DEF Sweep, SweepOnly, Scan, LookUpCall, RecordFinished, GiveUp, AwaitCallbacks,
                Complete, Claim, NotCallable, Unconfigured
  <2>2. CallsKept
    BY <2>1, SameCalls
  <2>3. SUFFICES SweepMoves /\ task' \in Task /\ task'.sid \in Placed \union {NoCall}
    BY <1>2, <2>1, <2>2, StepIsSound
  <2>4. CASE Scan(s)
    <3>1. PICK x : x = [at |-> "scanned", snap |-> task]
      OBVIOUS
    <3>2. x \in SweepState /\ SweepOK(x)'
      BY <1>2, <2>2, <3>1 DEF SweepState, SweepOK, CallsKept
    <3>3. sched' = [sched EXCEPT ![s] = x] /\ task' = task
      BY <2>4, <3>1 DEF Scan
    <3> QED
      BY <1>2, <3>2, <3>3 DEF SweepMoves
  <2>5. CASE LookUpCall(s)
    <3>1. task' = task /\ snap.sid # NoCall
      BY <2>5 DEF LookUpCall
    <3>2. CASE Logged(snap.sid) /\ GoTo(s, "finished")
      BY <1>2, <2>2, <3>1, <3>2, SweepGoes
    <3>3. CASE GoTo(s, "expired")
      BY <1>2, <2>2, <3>1, <3>3, SweepGoes
    <3>4. CASE Rest(s)
      BY <1>2, <3>1, <3>4, SweepRests
    <3> QED
      BY <2>5, <3>2, <3>3, <3>4 DEF LookUpCall
  <2>6. CASE RecordFinished(s)
    <3>1. PICK res : res = With(snap.results, snap.lead, calls[snap.sid].outcome)
      OBVIOUS
    <3>2. res \in Results
      BY <1>1, <2>6, <3>1, WithType DEF RecordFinished
    <3>3. task' = CallOver(task, res) /\ Rest(s)
      BY <2>6, <3>1 DEF RecordFinished
    <3> QED
      BY <1>2, <3>2, <3>3, CallOverType, SweepRests
  <2>7. CASE GiveUp(s)
    <3>1. PICK res : res = With(snap.results, snap.lead, "No Answer")
      OBVIOUS
    <3>2. res \in Results
      BY <1>1, <3>1, WithType DEF Written
    <3>3. PICK u : u = Skipped(task, res)
      OBVIOUS
    <3>4. u \in Task /\ u.sid = task.sid
      BY <1>2, <3>2, <3>3, SkippedType
    <3>5. task' = [u EXCEPT !.status = IF snap.enabled THEN "waiting" ELSE "paused",
                            !.sid = IF snap.sid = NoCall THEN @ ELSE NoCall] /\ Rest(s)
      BY <2>7, <3>1, <3>3 DEF GiveUp
    <3>6. task' \in Task /\ task'.sid \in Placed \union {NoCall}
      BY <1>2, <3>4, <3>5 DEF Task, NoCall
    <3> QED
      BY <3>5, <3>6, SweepRests
  <2>8. CASE AwaitCallbacks(s)
    BY <1>2, <2>8, SweepRests DEF AwaitCallbacks, Task
  <2>9. CASE Complete(s)
    BY <1>2, <2>9, SweepRests DEF Complete, Task
  <2>10. CASE Claim(s)
    <3>1. Pending(snap.results) # {} /\ NextLead(snap) \in Leads
      BY <1>1, <2>10, NextLeadType DEF Claim
    <3>2. CASE Claimable(NextLead(snap))
      <4>1. GoTo(s, "claimed")
            /\ task' = [task EXCEPT !.lead = NextLead(snap), !.status = "dialing",
                                    !.started = "recent"]
        BY <2>10, <3>2 DEF Claim
      <4>2. task' \in Task /\ task'.sid = task.sid
        BY <1>2, <3>1, <4>1 DEF Task
      <4> QED
        BY <1>2, <2>2, <3>1, <4>1, <4>2, SweepGoes
    <3>3. CASE ~Claimable(NextLead(snap))
      BY <1>2, <2>10, <3>3, SweepRests DEF Claim
    <3> QED
      BY <3>2, <3>3
  <2>11. CASE NotCallable(s)
    <3>1. Pending(snap.results) # {}
      BY <2>11 DEF NotCallable, Sound, SweepOK
    <3>2. PICK res : res = With(snap.results, NextLead(snap), "No Answer")
      OBVIOUS
    <3>3. res \in Results
      BY <1>1, <3>1, <3>2, NextLeadType, WithType DEF Written
    <3>4. task' = Skipped(task, res) /\ Rest(s)
      BY <2>11, <3>2 DEF NotCallable
    <3> QED
      BY <1>2, <3>3, <3>4, SkippedType, SweepRests
  <2>12. CASE Unconfigured(s)
    BY <1>2, <2>12, SweepRests DEF Unconfigured, Task, NoLead
  <2> QED
    BY <1>3, <2>4, <2>5, <2>6, <2>7, <2>8, <2>9, <2>10, <2>11, <2>12 DEF Sweep
<1>4. CASE Enqueue(s)
  <2>1. PICK c : c = [lead |-> NextLead(snap), job |-> "queued", call |-> "none",
                      outcome |-> "none", webhook |-> "none", read |-> NoResults,
                      seen |-> NoResults]
    OBVIOUS
  <2>2. c \in Call /\ CallOK(c)
    <3>1. NextLead(snap) \in Leads
      BY <1>1, <1>4, NextLeadType DEF Enqueue, Sound, SweepOK
    <3>2. NoResults \in Results
      BY DEF NoResults, Results
    <3> QED
      BY <2>1, <3>1, <3>2 DEF Call, CallOK
  <2>3. calls' = Append(calls, c) /\ Len(calls) < MaxCalls /\ Rest(s)
    BY <1>4, <2>1 DEF Enqueue
  <2>4. CallsKept
    BY <2>2, <2>3, CallAppended
  <2> QED
    BY <1>2, <1>4, <2>3, <2>4, SweepRests, StepIsSound DEF Enqueue
<1> QED
  BY <1>3, <1>4

LEMMA FaultType ==
  ASSUME Sound, Fault
  PROVE  faults' \in Nat
<1>1. faults \in Nat /\ faults' = faults + 1
  BY DEF Sound, TypeOK, Fault
<1> QED
  BY <1>1

(* A step that writes one call, and perhaps the task. *)
LEMMA CallStepIsSound ==
  ASSUME Sound, NEW i \in DOMAIN calls, NEW c \in Call, Becomes(i, c), CallOK(c),
         calls[i].call # "none" => c.call # "none",
         calls[i].call \in {"logged", "recording", "done"}
           => c.call \in {"logged", "recording", "done"},
         UNCHANGED <<sched, stop, starts, stops>>, faults' = faults \/ Fault,
         task' = task \/ (task' \in Task /\ task'.sid \in Placed \union {NoCall})
  PROVE  Sound'
<1>1. CallsKept
  BY OneCallKept DEF Logged
<1>2. task' \in Task /\ task'.sid \in Placed \union {NoCall} /\ starts' \in Nat /\ faults' \in Nat
  BY FaultType DEF Sound, TypeOK
<1> QED
  BY <1>1, <1>2, StepIsSound DEF SweepMoves

LEMMA JobSound ==
  ASSUME Sound, NEW i \in DOMAIN calls, JobStep(i) \/ LoseAnswer(i) \/ LoseJob(i)
  PROVE  Sound'
<1>1. calls[i] \in Call /\ CallOK(calls[i])
  BY CallsType DEF Sound, TypeOK
<1>2. task \in Task /\ task.sid \in Placed \union {NoCall} /\ task.results \in Results
  BY DEF Sound, TypeOK, Task
<1>3. NoResults \in Results
  BY DEF NoResults, Results
<1>4. CASE CheckTask(i) \/ RefuseCall(i) \/ Recheck(i)
  <2>1. PICK job \in {"placing", "skipping", "refused", "blocked", "committing", "unwanted"} :
          /\ Job(i, job) /\ task' = task /\ JobOnly
          /\ calls[i].call = "none" => job \notin {"committing", "unwanted"}
          /\ calls[i].call # "none" => job \notin {"placing", "skipping"}
    BY <1>1, <1>4 DEF CheckTask, RefuseCall, Recheck, CallOK
  <2>2. PICK c : c = [calls[i] EXCEPT !.job = job]
    OBVIOUS
  <2>3. /\ c \in Call /\ c.call = calls[i].call /\ c.job = job
        /\ c.outcome = calls[i].outcome /\ c.webhook = calls[i].webhook
    BY <1>1, <2>2 DEF Call
  <2>4. CallOK(c)
    BY <1>1, <2>1, <2>3 DEF CallOK
  <2> QED
    BY <2>1, <2>2, <2>3, <2>4, CallStepIsSound DEF Job, JobOnly
<1>5. CASE PlaceCall(i) \/ LoseAnswer(i)
  <2>1. PICK job \in {"placed", "refused"} :
          /\ Becomes(i, [calls[i] EXCEPT !.job = job, !.call = "live"]) /\ task' = task
          /\ UNCHANGED <<sched, stop, starts, stops>> /\ (faults' = faults \/ Fault)
          /\ calls[i].job = "placing"
    BY <1>5 DEF PlaceCall, LoseAnswer, JobOnly
  <2>2. PICK c : c = [calls[i] EXCEPT !.job = job, !.call = "live"]
    OBVIOUS
  <2>3. /\ c \in Call /\ c.call = "live" /\ c.job = job
        /\ c.outcome = calls[i].outcome /\ c.webhook = calls[i].webhook
    BY <1>1, <2>2 DEF Call
  <2>4. CallOK(c)
    BY <2>3 DEF CallOK
  <2>5. calls[i].call = "none"
    BY <1>1, <2>1 DEF CallOK
  <2> QED
    BY <2>1, <2>2, <2>3, <2>4, <2>5, CallStepIsSound
<1>6. CASE SkipDial(i) \/ CommitCall(i) \/ PauseBlocked(i)
  <2>1. Job(i, "done") /\ JobOnly
    BY <1>6 DEF SkipDial, CommitCall, PauseBlocked
  <2>2. PICK c : c = [calls[i] EXCEPT !.job = "done"]
    OBVIOUS
  <2>3. /\ c \in Call /\ c.call = calls[i].call /\ c.job = "done"
        /\ c.outcome = calls[i].outcome /\ c.webhook = calls[i].webhook
    BY <1>1, <2>2 DEF Call
  <2>4. CallOK(c)
    BY <1>1, <2>3 DEF CallOK
  <2>5. task' \in Task /\ task'.sid \in Placed \union {NoCall}
    <3>1. CASE SkipDial(i)
      BY <1>2, <3>1 DEF SkipDial, Task, NoLead
    <3>2. CASE CommitCall(i)
      <4>1. i \in Nat /\ i \in Placed
        BY <1>1, <3>2, CallsType DEF CommitCall, CallOK, Placed, Sound, TypeOK
      <4> QED
        BY <1>2, <3>2, <4>1 DEF CommitCall, Task
    <3>3. CASE PauseBlocked(i)
      BY <1>2, <3>3 DEF PauseBlocked, Task, NoLead, NoCall
    <3> QED
      BY <1>6, <3>1, <3>2, <3>3
  <2> QED
    BY <2>1, <2>2, <2>3, <2>4, <2>5, CallStepIsSound DEF Job, JobOnly
<1>7. CASE HangUpUnwanted(i)
  <2>1. PICK c : c = Ended([calls[i] EXCEPT !.job = "done"])
    OBVIOUS
  <2>2. /\ c \in Call /\ c.job = "done" /\ c.outcome = calls[i].outcome
        /\ c.webhook = calls[i].webhook
        /\ c.call = IF calls[i].call = "live" THEN "ended" ELSE calls[i].call
    BY <1>1, <2>1 DEF Call, Ended
  <2>3. CallOK(c)
    BY <1>1, <2>2 DEF CallOK
  <2> QED
    BY <1>7, <2>1, <2>2, <2>3, CallStepIsSound DEF HangUpUnwanted, JobOnly
<1>8. CASE ReadForRefusal(i)
  <2>1. PICK c : c = [calls[i] EXCEPT !.job = "failing", !.read = task.results]
    OBVIOUS
  <2>2. /\ c \in Call /\ c.job = "failing" /\ c.outcome = calls[i].outcome
        /\ c.webhook = calls[i].webhook /\ c.call = calls[i].call
    BY <1>1, <1>2, <2>1 DEF Call
  <2>3. CallOK(c)
    BY <1>1, <2>2 DEF CallOK
  <2> QED
    BY <1>8, <2>1, <2>2, <2>3, CallStepIsSound DEF ReadForRefusal, JobOnly
<1>9. CASE RecordRefusal(i) \/ LoseJob(i)
  <2>1. PICK c : c = [calls[i] EXCEPT !.job = "done", !.read = NoResults]
    OBVIOUS
  <2>2. /\ c \in Call /\ c.job = "done" /\ c.outcome = calls[i].outcome
        /\ c.webhook = calls[i].webhook /\ c.call = calls[i].call
    BY <1>1, <1>3, <2>1 DEF Call
  <2>3. CallOK(c)
    BY <1>1, <2>2 DEF CallOK
  <2>4. task' = task \/ (task' \in Task /\ task'.sid \in Placed \union {NoCall})
    <3>1. CASE RecordRefusal(i)
      <4>1. PICK res : res = With(calls[i].read, calls[i].lead, "No Answer")
        OBVIOUS
      <4>2. res \in Results
        BY <1>1, <4>1, WithType DEF Call, Written
      <4>3. task' = Skipped(task, res)
        BY <3>1, <4>1 DEF RecordRefusal
      <4> QED
        BY <1>2, <4>2, <4>3, SkippedType
    <3> QED
      BY <1>9, <3>1 DEF LoseJob
  <2>5. Becomes(i, c) /\ UNCHANGED <<sched, stop, starts, stops>> /\ (faults' = faults \/ Fault)
    BY <1>9, <2>1 DEF RecordRefusal, LoseJob, JobOnly
  <2> QED
    BY <2>2, <2>3, <2>4, <2>5, CallStepIsSound
<1> QED
  BY <1>4, <1>5, <1>6, <1>7, <1>8, <1>9 DEF JobStep

LEMMA PhoneSound ==
  ASSUME Sound, NEW i \in DOMAIN calls,
         CallStep(i) \/ LoseLog(i) \/ WebhookRead(i) \/ WebhookPatch(i)
  PROVE  Sound'
<1>1. calls[i] \in Call /\ CallOK(calls[i])
  BY CallsType DEF Sound, TypeOK
<1>2. task \in Task /\ task.sid \in Placed \union {NoCall} /\ task.results \in Results
  BY DEF Sound, TypeOK, Task
<1>3. NoResults \in Results
  BY DEF NoResults, Results
<1>4. CASE HangUp(i) \/ WriteLog(i) \/ FallbackLog(i) \/ WebhookRead(i)
  <2>1. PICK c : /\ c \in Call /\ Becomes(i, c) /\ c.job = calls[i].job
                 /\ calls[i].call \in {"live", "ended", "marked"}
                 /\ c.call \in {"live", "ended", "logged", "done"}
                 /\ \/ c.outcome = "No Answer"
                    \/ c.outcome = calls[i].outcome
                       /\ (c.call \in {"live", "ended"} \/ calls[i].call = "marked")
    <3>1. CASE HangUp(i)
      <4>1. PICK c : c = Ended(calls[i])
        OBVIOUS
      <4>2. c \in Call /\ c.job = calls[i].job /\ c.call \in {"live", "ended"} /\ c.outcome = calls[i].outcome
        BY <1>1, <3>1, <4>1 DEF HangUp, Ended, Call
      <4> QED
        BY <3>1, <4>1, <4>2 DEF HangUp
    <3>2. CASE WriteLog(i)
      <4>1. PICK c : c = [calls[i] EXCEPT !.call = "logged"]
        OBVIOUS
      <4>2. c \in Call /\ c.job = calls[i].job /\ c.call = "logged" /\ c.outcome = calls[i].outcome
        BY <1>1, <4>1 DEF Call
      <4> QED
        BY <3>2, <4>1, <4>2 DEF WriteLog
    <3>3. CASE FallbackLog(i)
      <4>1. PICK c : c = [calls[i] EXCEPT !.call = "done", !.outcome = "No Answer"]
        OBVIOUS
      <4>2. c \in Call /\ c.job = calls[i].job /\ c.call = "done" /\ c.outcome = "No Answer"
        BY <1>1, <4>1 DEF Call
      <4> QED
        BY <3>3, <4>1, <4>2 DEF FallbackLog
    <3>4. CASE WebhookRead(i)
      <4>1. PICK c : c = [calls[i] EXCEPT !.webhook = "checked"]
        OBVIOUS
      <4>2. c \in Call /\ c.job = calls[i].job /\ c.call = calls[i].call /\ c.outcome = calls[i].outcome
        BY <1>1, <4>1 DEF Call
      <4> QED
        BY <3>4, <4>1, <4>2 DEF WebhookRead
    <3> QED
      BY <1>4, <3>1, <3>2, <3>3, <3>4
  <2>2. CallOK(c)
    BY <1>1, <2>1 DEF CallOK
  <2>3. task' = task /\ CallOnly
    BY <1>4 DEF HangUp, WriteLog, FallbackLog, WebhookRead
  <2> QED
    BY <2>1, <2>2, <2>3, CallStepIsSound DEF CallOnly
<1>5. CASE MarkRead(i) \/ RecordRead(i)
  <2>1. PICK c : /\ c \in Call /\ Becomes(i, c) /\ c.job = calls[i].job
                 /\ c.call \in {"marking", "recording"} /\ calls[i].call # "none"
                 /\ calls[i].call = "logged" => c.call = "recording"
                 /\ calls[i].call \notin {"recording", "done"}
                 /\ c.outcome # "none"
    <3>1. CASE MarkRead(i)
      <4>1. PICK o \in Outcomes :
              /\ Becomes(i, [calls[i] EXCEPT !.call = "marking", !.outcome = o,
                                             !.seen = task.results])
              /\ calls[i].call = "ended"
        BY <3>1 DEF MarkRead
      <4>2. o \in Written
        BY AutoDialAssumption DEF Written
      <4>3. PICK c : c = [calls[i] EXCEPT !.call = "marking", !.outcome = o, !.seen = task.results]
        OBVIOUS
      <4>4. c \in Call /\ c.job = calls[i].job /\ c.call = "marking" /\ c.outcome = o
        BY <1>1, <1>2, <4>2, <4>3 DEF Call, Written
      <4> QED
        BY <4>1, <4>2, <4>3, <4>4 DEF Written
    <3>2. CASE RecordRead(i)
      <4>1. PICK c : c = [calls[i] EXCEPT !.call = "recording", !.seen = task.results]
        OBVIOUS
      <4>2. /\ c \in Call /\ c.job = calls[i].job /\ c.call = "recording"
            /\ c.outcome = calls[i].outcome
        BY <1>1, <1>2, <4>1 DEF Call
      <4> QED
        BY <1>1, <3>2, <4>1, <4>2 DEF RecordRead, CallOK
    <3> QED
      BY <1>5, <3>1, <3>2
  <2>2. CallOK(c)
    BY <1>1, <2>1 DEF CallOK
  <2>3. task' = task /\ CallOnly
    BY <1>5 DEF MarkRead, RecordRead
  <2> QED
    BY <2>1, <2>2, <2>3, CallStepIsSound DEF CallOnly
<1>6. CASE MarkEnded(i) \/ RecordOutcome(i)
  <2>1. PICK at \in {"marked", "done"}, result \in Written :
          /\ Becomes(i, [calls[i] EXCEPT !.call = at, !.seen = NoResults])
          /\ task' = CallOver(task, With(calls[i].seen, calls[i].lead, result))
          /\ at = "marked" => calls[i].call = "marking"
          /\ at = "done" => calls[i].call = "recording"
    BY <1>1, <1>6 DEF MarkEnded, RecordOutcome, CallOK, Call, Written
  <2>2. PICK c : c = [calls[i] EXCEPT !.call = at, !.seen = NoResults]
    OBVIOUS
  <2>3. c \in Call /\ c.job = calls[i].job /\ c.call = at /\ c.outcome = calls[i].outcome
    BY <1>1, <1>3, <2>2 DEF Call
  <2>4. CallOK(c)
    BY <1>1, <2>1, <2>3 DEF CallOK
  <2>5. PICK res : res = With(calls[i].seen, calls[i].lead, result)
    OBVIOUS
  <2>6. res \in Results
    BY <1>1, <2>5, WithType DEF Call
  <2>7. task' \in Task /\ task'.sid = NoCall
    BY <1>2, <2>1, <2>5, <2>6, CallOverType
  <2>8. CallOnly
    BY <1>6 DEF MarkEnded, RecordOutcome
  <2> QED
    BY <2>1, <2>2, <2>3, <2>4, <2>7, <2>8, CallStepIsSound DEF CallOnly
<1>7. CASE LoseLog(i)
  <2>1. PICK c : c = [calls[i] EXCEPT !.call = "lost", !.seen = NoResults]
    OBVIOUS
  <2>2. c \in Call /\ c.job = calls[i].job /\ c.call = "lost"
    BY <1>1, <1>3, <2>1 DEF Call
  <2>3. CallOK(c)
    BY <1>1, <1>7, <2>2 DEF CallOK, LoseLog
  <2> QED
    BY <1>7, <2>1, <2>2, <2>3, CallStepIsSound DEF LoseLog
<1>8. CASE WebhookPatch(i)
  <2>1. PICK c : c = [calls[i] EXCEPT !.webhook = "done"]
    OBVIOUS
  <2>2. /\ c \in Call /\ c.job = calls[i].job /\ c.call = calls[i].call
        /\ c.outcome = calls[i].outcome /\ c.webhook = "done"
    BY <1>1, <2>1 DEF Call
  <2>3. CallOK(c)
    BY <1>1, <2>2 DEF CallOK
  <2>4. i \in Nat /\ i \in Placed
    BY <1>1, <1>8, CallsType DEF WebhookPatch, CallOK, Placed, Sound, TypeOK
  <2>5. task' \in Task /\ task'.sid \in Placed \union {NoCall}
    BY <1>2, <1>8, <2>4 DEF WebhookPatch, Task
  <2> QED
    BY <1>8, <2>1, <2>2, <2>3, <2>5, CallStepIsSound DEF WebhookPatch, CallOnly
<1> QED
  BY <1>4, <1>5, <1>6, <1>7, <1>8 DEF CallStep

LEMMA RequestSound ==
  ASSUME Sound, Start \/ StopRead \/ StopPatch \/ StopHangUp \/ DialTimeComes \/ ClaimAges
  PROVE  Sound'
<1>1. /\ task \in Task /\ task.sid \in Placed \union {NoCall} /\ starts \in Nat /\ stops \in Nat
      /\ faults \in Nat /\ stop \in [at: {"idle", "read", "hangup"}, sid: 0..MaxCalls]
  BY DEF Sound, TypeOK
<1>2. CASE Start \/ DialTimeComes \/ ClaimAges
  <2>1. task' \in Task /\ task'.sid = task.sid
    BY <1>1, <1>2 DEF Start, DialTimeComes, ClaimAges, Task
  <2>2. starts' \in Nat /\ faults' \in Nat
    BY <1>1, <1>2, FaultType DEF Start, DialTimeComes, ClaimAges
  <2>3. UNCHANGED <<sched, calls, stop, stops>>
    BY <1>2 DEF Start, DialTimeComes, ClaimAges
  <2> QED
    BY <1>1, <2>1, <2>2, <2>3, SameCalls, StepIsSound DEF SweepMoves
<1>3. CASE StopRead \/ StopPatch
  <2>1. /\ stop' \in [at: {"idle", "read", "hangup"}, sid: 0..MaxCalls]
        /\ stop'.sid \in Placed \union {NoCall} /\ (stop'.at = "hangup" => stop'.sid # NoCall)
    <3>1. task.sid \in 0..MaxCalls /\ NoCall \in 0..MaxCalls
      <4>1. MaxCalls \in Nat /\ Len(calls) \in Nat /\ Len(calls) <= MaxCalls
            /\ DOMAIN calls = 1..Len(calls)
        BY AutoDialAssumption, CallsType DEF Sound, TypeOK
      <4>2. \A n \in DOMAIN calls : n \in 0..MaxCalls
        BY <4>1
      <4> QED
        BY <1>1, <4>1, <4>2 DEF Placed, NoCall
    <3>2. CASE StopRead
      BY <1>1, <3>1, <3>2 DEF StopRead
    <3>3. CASE StopPatch
      BY <1>1, <3>1, <3>3 DEF StopPatch, NoStop, Sound
    <3> QED
      BY <1>3, <3>2, <3>3
  <2>2. task' \in Task /\ task'.sid \in Placed \union {NoCall}
    <3>1. CASE StopRead
      BY <1>1, <3>1 DEF StopRead
    <3>2. CASE StopPatch
      BY <1>1, <3>2 DEF StopPatch, Task, NoLead, NoCall
    <3> QED
      BY <1>3, <3>1, <3>2
  <2>3. stops' \in Nat /\ UNCHANGED <<sched, calls, starts, faults>>
    BY <1>1, <1>3 DEF StopRead, StopPatch
  <2>4. CallsKept
    BY <2>3, SameCalls
  <2>5. \A s \in Schedulers : SweepOK(sched[s])'
    BY <2>3 DEF Sound, SweepOK, Placed, Logged
  <2>6. TypeOK'
    BY <2>1, <2>2, <2>3 DEF Sound, TypeOK
  <2>7. {task'.sid, stop'.sid} \subseteq Placed' \union {NoCall}
    BY <2>1, <2>2, <2>4 DEF CallsKept
  <2> QED
    BY <2>1, <2>4, <2>5, <2>6, <2>7 DEF Sound, CallsKept
<1>4. CASE StopHangUp
  <2>1. PICK n : n = stop.sid
    OBVIOUS
  <2>2. n \in DOMAIN calls /\ n \in Placed
    BY <1>4, <2>1 DEF StopHangUp, Sound, Placed
  <2>3. calls[n] \in Call /\ CallOK(calls[n])
    BY <2>2, CallsType DEF Sound, TypeOK
  <2>4. PICK c : c = Ended(calls[n])
    OBVIOUS
  <2>5. /\ c \in Call /\ c.job = calls[n].job /\ c.outcome = calls[n].outcome
        /\ c.webhook = calls[n].webhook
        /\ c.call = IF calls[n].call = "live" THEN "ended" ELSE calls[n].call
    BY <2>3, <2>4 DEF Call, Ended
  <2>6. CallOK(c)
    BY <2>3, <2>5 DEF CallOK
  <2>7. Becomes(n, c)
    BY <1>4, <2>1, <2>4 DEF StopHangUp, Becomes
  <2>8. CallsKept
    BY <2>2, <2>5, <2>6, <2>7, OneCallKept DEF Logged
  <2>9. /\ stop' = NoStop /\ task' = task /\ sched' = sched
        /\ starts' = starts /\ stops' = stops /\ faults' = faults
    BY <1>4 DEF StopHangUp
  <2>10. /\ stop' \in [at: {"idle", "read", "hangup"}, sid: 0..MaxCalls]
         /\ stop'.sid = NoCall /\ stop'.at # "hangup"
    <3>1. MaxCalls \in Nat
      BY AutoDialAssumption
    <3>2. NoCall \in 0..MaxCalls
      BY <3>1 DEF NoCall
    <3> QED
      BY <2>9, <3>2 DEF NoStop
  <2>11. \A s \in Schedulers : SweepOK(sched[s])'
    <3>1. \A m \in Placed : m \in DOMAIN calls
      BY DEF Placed
    <3> QED
      BY <2>8, <2>9, <3>1 DEF Sound, SweepOK, CallsKept
  <2>12. TypeOK'
    BY <2>8, <2>9, <2>10 DEF Sound, TypeOK, CallsKept
  <2>13. {task'.sid, stop'.sid} \subseteq Placed' \union {NoCall}
    BY <1>1, <2>8, <2>9, <2>10 DEF CallsKept
  <2> QED
    BY <2>8, <2>10, <2>11, <2>12, <2>13 DEF Sound, CallsKept
<1> QED
  BY <1>2, <1>3, <1>4

LEMMA SoundInit == AutoDialInit => Sound
<1> SUFFICES ASSUME AutoDialInit
             PROVE  Sound
  OBVIOUS
<1>1. MaxCalls \in Nat /\ calls = <<>> /\ DOMAIN calls = {} /\ Len(calls) = 0
  <2>1. MaxCalls \in Nat
    BY AutoDialAssumption
  <2> QED
    BY <2>1 DEF AutoDialInit
<1>2. calls \in Seq(Call) /\ Len(calls) <= MaxCalls
  BY <1>1
<1>3. \A results \in [Leads -> Outcomes \union {"Pending"}] : results \in Results
  BY AutoDialAssumption DEF Results
<1>4. NoResults \in Results
  BY DEF NoResults, Results
<1>5. task \in Task /\ task.sid = NoCall
  <2>1. PICK results \in [Leads -> Outcomes \union {"Pending"}] :
          task = [NewTask EXCEPT !.results = results]
    BY DEF AutoDialInit
  <2>2. results \in Results
    BY <1>3, <2>1
  <2> QED
    BY <2>1, <2>2 DEF NewTask, Task, NoLead, NoCall
<1>6. Resting \in SweepState /\ Resting.at = "idle" /\ Resting.snap.sid = NoCall
  BY <1>4 DEF Resting, SweepState, NewTask, Task, NoLead, NoCall
<1>7. sched \in [Schedulers -> SweepState] /\ \A s \in Schedulers : SweepOK(sched[s])
  BY <1>6 DEF AutoDialInit, SweepOK
<1>8. /\ stop \in [at: {"idle", "read", "hangup"}, sid: 0..MaxCalls]
      /\ stop.sid = NoCall /\ stop.at = "idle"
  BY <1>1 DEF AutoDialInit, NoStop, NoCall
<1>9. TypeOK
  BY <1>2, <1>5, <1>7, <1>8 DEF TypeOK, SweepState, AutoDialInit
<1> QED
  BY <1>1, <1>2, <1>5, <1>7, <1>8, <1>9 DEF Sound

LEMMA SoundNext == Sound /\ [AutoDialNext]_vars => Sound'
<1> SUFFICES ASSUME Sound, [AutoDialNext]_vars
             PROVE  Sound'
  OBVIOUS
<1>1. CASE UNCHANGED vars
  BY <1>1 DEF vars, Sound, TypeOK, Placed, SweepOK, Logged
<1> QED
  BY <1>1, RequestSound, SweepSound, JobSound, PhoneSound DEF AutoDialNext

(* Every variable keeps its type; a call that is hung up or recorded has been *)
(* placed, and a result that is recorded is that of a call that has ended.   *)
THEOREM AutoDialTypes == AutoDialSpec => [](TypeOK /\ Sound)
<1>1. Sound => TypeOK
  BY DEF Sound
<1> QED
  BY <1>1, SoundInit, SoundNext, PTL DEF AutoDialSpec

------------------------------------------------------------------------------
(* The first run *)

(* Who works on a lead: a sweep that has claimed it, or a job with its call. *)
Claimed == {s \in Schedulers : sched[s].at = "claimed"}
Busy(c) == c.job # "done" \/ c.call # "none"
Working == {i \in DOMAIN calls : Busy(calls[i])}

(* Nobody has pressed Start. *)
Untouched ==
  /\ ~task.enabled /\ task.status = "paused" /\ task.sid = NoCall
  /\ calls = <<>> /\ \A s \in Schedulers : sched[s] = Resting

OneHolder ==
  /\ \A s, t \in Claimed : s = t
  /\ \A i, j \in Working : i = j
  /\ Claimed = {} \/ Working = {}

(* The lease is taken while somebody works on the lead, and ages only once    *)
(* the call has left a log.                                                *)
Lease ==
  /\ task.lead # NoLead => task.enabled /\ (Claimed # {} \/ Working # {})
  /\ task.started # "none" => task.lead # NoLead
  /\ task.started = "old" => task.sid # NoCall /\ Logged(task.sid)
  /\ task.status = "completed" => Pending(task.results) = {}

(* Nothing has been lost: a job that placed a call goes on to commit it. *)
JobOK(c) ==
  c.call # "none" => /\ c.job \in {"placed", "committing", "unwanted", "done"}
                     /\ c.call # "lost"

(* While the campaign is on, a claim and a job know its results ... *)
ClaimCurrent(t, snap) ==
  t.lead = NextLead(snap) /\ Pending(snap.results) = Pending(t.results)

CallCurrent(t, i, c) ==
  /\ Busy(c) => t.lead = c.lead /\ IsNext(t.lead, t.results)
  /\ c.job \notin {"skipping", "unwanted"}
  /\ c.job = "failing" => Pending(c.read) = Pending(t.results)
  /\ c.call \in {"none", "live", "ended", "marking", "done"}
  /\ c.call # "none" /\ c.job = "done" => t.sid = i

(* ... and a sweep that has read the row knows them or will not be able to    *)
(* claim the lead it has chosen.                                           *)
SnapCurrent(t, snap) ==
  /\ Pending(t.results) \subseteq Pending(snap.results)
  /\ \A l \in Pending(t.results) :
       IsNext(l, snap.results) => Pending(t.results) = Pending(snap.results)

SnapKnown(x) ==
  /\ x.at # "expired"
  /\ x.snap.started = "old" => x.snap.sid # NoCall /\ Logged(x.snap.sid)
  /\ x.at = "scanned" /\ x.snap.sid = NoCall =>
       /\ MayDial(x.snap)
       /\ Pending(x.snap.results) = {} =>
            Pending(task.results) = {} /\ Claimed = {} /\ Working = {}

Current ==
  /\ \A s \in Claimed : ClaimCurrent(task, sched[s].snap)
  /\ \A i \in DOMAIN calls : CallCurrent(task, i, calls[i])
  /\ \A s \in Schedulers :
       sched[s].at = "scanned" /\ sched[s].snap.sid = NoCall => SnapCurrent(task, sched[s].snap)

Run ==
  /\ starts = 0 => Untouched
  /\ OneHolder /\ Lease
  /\ \A i \in DOMAIN calls : JobOK(calls[i])
  /\ \A s \in Schedulers : SnapKnown(sched[s])
  /\ task.enabled => Current

(* A sweep goes on without scanning or claiming, or not at all. *)
SweepsKept ==
  \A s \in Schedulers :
    \/ sched'[s] = sched[s]
    \/ /\ sched'[s].at \notin {"scanned", "expired", "claimed"}
       /\ sched'[s].snap.started = "old"
            => sched'[s].snap.sid # NoCall /\ Logged(sched[s].snap.sid)'

LEMMA LoggedStays ==
  ASSUME Sound, CallsKept, NEW n \in Placed \union {NoCall}, n # NoCall, Logged(n)
  PROVE  Logged(n)'
BY DEF CallsKept, Placed

(* What is known of the rows that were read stays known while the results are *)
(* written by whoever works on a lead.                                     *)
LEMMA SnapsStayKnown ==
  ASSUME Sound, CallsKept, SweepsKept,
         \A s \in Schedulers : SnapKnown(sched[s]),
         Claimed' \subseteq Claimed, Working' \subseteq Working,
         \/ Pending(task.results) = {} => Pending(task'.results) = {}
         \/ Claimed # {} \/ Working # {}
  PROVE  \A s \in Schedulers : SnapKnown(sched[s])'
<1> SUFFICES ASSUME NEW s \in Schedulers
             PROVE  SnapKnown(sched[s])'
  OBVIOUS
<1>1. CASE sched'[s] = sched[s]
  <2>1. sched[s].snap.sid \in Placed \union {NoCall} /\ SnapKnown(sched[s])
    BY DEF Sound, SweepOK
  <2>2. PICK n : n = sched[s].snap.sid
    OBVIOUS
  <2>3. sched[s].snap.started = "old" => n # NoCall /\ Logged(n)'
    BY <2>1, <2>2, LoggedStays DEF SnapKnown
  <2> QED
    BY <1>1, <2>1, <2>2, <2>3 DEF SnapKnown, Logged
<1>2. CASE sched'[s] # sched[s]
  BY <1>2 DEF SweepsKept, SnapKnown, Logged
<1> QED
  BY <1>1, <1>2

LEMMA HolderStays ==
  ASSUME OneHolder, Claimed' \subseteq Claimed, Working' \subseteq Working
  PROVE  OneHolder'
BY Zenon DEF OneHolder

(* The campaign is switched off, or is off already. *)
LEMMA Off ==
  ASSUME Sound, Run, CallsKept, SweepsKept, starts' = 0 => Untouched',
         Working' \subseteq Working, \A i \in DOMAIN calls' : JobOK(calls'[i]),
         ~task'.enabled, task'.lead = NoLead, task'.started = "none",
         task'.status = "completed" => Pending(task'.results) = {},
         \/ Pending(task.results) = {} => Pending(task'.results) = {}
         \/ Claimed # {} \/ Working # {}
  PROVE  Run'
<1>1. Claimed' \subseteq Claimed
  BY DEF Claimed, SweepsKept
<1>2. OneHolder'
  BY <1>1, HolderStays DEF Run
<1>3. \A s \in Schedulers : SnapKnown(sched[s])'
  BY <1>1, SnapsStayKnown DEF Run
<1>4. Lease'
  BY DEF Lease
<1> QED
  BY <1>2, <1>3, <1>4 DEF Run

(* The campaign goes on with the same lead and the same results. *)
LEMMA GoesOn ==
  ASSUME Sound, Run, CallsKept, SweepsKept, starts' = 0 => Untouched',
         Claimed' = Claimed, Working' = Working,
         task'.enabled = task.enabled, task'.lead = task.lead, task'.results = task.results,
         task'.started # "none" => task.started # "none",
         task'.started = "old" => task'.sid # NoCall /\ Logged(task.sid)',
         task'.status = "completed" => Pending(task.results) = {},
         \A i \in DOMAIN calls' : /\ JobOK(calls'[i])
                                  /\ task.enabled => CallCurrent(task', i, calls'[i])
  PROVE  Run'
<1>1. OneHolder'
  BY HolderStays DEF Run
<1>2. \A s \in Schedulers : SnapKnown(sched[s])'
  BY SnapsStayKnown DEF Run
<1>3. Lease'
  BY DEF Lease, Run
<1>4. ASSUME task'.enabled
      PROVE  Current'
  <2>1. Current
    BY <1>4 DEF Run
  <2>2. \A s \in Claimed' : ClaimCurrent(task', sched'[s].snap)
    BY <2>1 DEF Current, SweepsKept, Claimed, ClaimCurrent
  <2>3. \A i \in DOMAIN calls' : CallCurrent(task', i, calls'[i])
    BY <1>4
  <2>4. ASSUME NEW s \in Schedulers, sched'[s].at = "scanned", sched'[s].snap.sid = NoCall
        PROVE  SnapCurrent(task', sched'[s].snap)
    BY <2>1, <2>4 DEF Current, SweepsKept, SnapCurrent
  <2> QED
    BY <2>2, <2>3, <2>4 DEF Current
<1> QED
  BY <1>1, <1>2, <1>3, <1>4 DEF Run

(* A lead is passed over, and nobody works on one any more. *)
LEMMA LeadPassed ==
  ASSUME Sound, Run, CallsKept, SweepsKept, starts' = starts, starts # 0,
         task.enabled, task \in Task, task' \in Task, IsNext(task.lead, task.results),
         task'.lead = NoLead, task'.started = "none", task'.status # "completed",
         Pending(task'.results) = Pending(task.results) \ {task.lead},
         Claimed' = {}, Working' = {}, Claimed # {} \/ Working # {}
  PROVE  Run'
<1>1. OneHolder' /\ Lease'
  BY DEF OneHolder, Lease
<1>2. \A s \in Schedulers : SnapKnown(sched[s])'
  BY SnapsStayKnown DEF Run
<1>3. \A i \in DOMAIN calls' : calls'[i].job = "done" /\ calls'[i].call = "none"
  BY DEF Working, Busy
<1>4. \A i \in DOMAIN calls' : JobOK(calls'[i]) /\ CallCurrent(task', i, calls'[i])
  BY <1>3 DEF JobOK, CallCurrent, Busy
<1>5. ASSUME NEW s \in Schedulers, sched'[s].at = "scanned", sched'[s].snap.sid = NoCall
      PROVE  SnapCurrent(task', sched'[s].snap)
  <2>1. sched'[s] = sched[s] /\ SnapCurrent(task, sched[s].snap)
    BY <1>5 DEF SweepsKept, Run, Current
  <2>2. PICK snap : snap = sched[s].snap
    OBVIOUS
  <2>3. ASSUME NEW l \in Pending(task'.results), IsNext(l, snap.results)
        PROVE  FALSE
    <3>1. l \in Pending(task.results) /\ l # task.lead
      BY <2>3
    <3>2. Pending(task.results) = Pending(snap.results)
      BY <2>1, <2>2, <2>3, <3>1 DEF SnapCurrent
    <3>3. IsNext(l, task.results)
      BY <2>3, <3>2 DEF IsNext
    <3> QED
      BY <3>1, <3>3, NextIsOne DEF Task
  <2> QED
    BY <2>1, <2>2, <2>3 DEF SnapCurrent
<1>6. \A s \in Claimed' : ClaimCurrent(task', sched'[s].snap)
  OBVIOUS
<1>7. Current'
  BY <1>4, <1>5, <1>6 DEF Current
<1> QED
  BY <1>1, <1>2, <1>4, <1>7 DEF Run

(* The job, the phone or the end of a call writes its row. *)
LEMMA CallMoved ==
  ASSUME Sound, NEW i \in DOMAIN calls, NEW c \in Call, Becomes(i, c),
         Busy(c) => Busy(calls[i])
  PROVE  /\ DOMAIN calls' = DOMAIN calls /\ calls'[i] = c
         /\ \A j \in DOMAIN calls \ {i} : calls'[j] = calls[j]
         /\ Working' \subseteq Working
         /\ Busy(calls[i]) => i \in Working
         /\ Busy(calls[i]) /\ Busy(c) => Working' = Working
<1>1. /\ DOMAIN calls' = DOMAIN calls /\ calls'[i] = c
      /\ \A j \in DOMAIN calls \ {i} : calls'[j] = calls[j]
  BY CallWritten DEF Sound, TypeOK
<1> QED
  BY <1>1 DEF Working

LEMMA Started ==
  ASSUME Run, NEW i \in DOMAIN calls
  PROVE  starts # 0
<1>1. DOMAIN <<>> = {}
  OBVIOUS
<1> QED
  BY <1>1 DEF Run, Untouched

LEMMA CallGoesOn ==
  ASSUME Sound, Run, NEW i \in DOMAIN calls, NEW c \in Call, Becomes(i, c), CallsKept,
         Busy(calls[i]), Busy(c), JobOK(c), sched' = sched, starts' = starts,
         task' = [task EXCEPT !.sid = task'.sid], task'.sid = task.sid \/ task'.sid = i,
         task.enabled => CallCurrent(task', i, c)
  PROVE  Run'
<1>1. /\ DOMAIN calls' = DOMAIN calls /\ calls'[i] = c
      /\ \A j \in DOMAIN calls \ {i} : calls'[j] = calls[j]
      /\ Working' = Working /\ i \in Working
  BY CallMoved
<1>2. task \in Task /\ task.sid \in Placed \union {NoCall}
  BY DEF Sound, TypeOK
<1>3. /\ task'.enabled = task.enabled /\ task'.lead = task.lead /\ task'.results = task.results
      /\ task'.started = task.started /\ task'.status = task.status
  BY <1>2 DEF Task
<1>4. starts # 0 /\ (starts' = 0 => Untouched')
  BY Started
<1>5. ASSUME NEW j \in DOMAIN calls'
      PROVE  JobOK(calls'[j]) /\ (task.enabled => CallCurrent(task', j, calls'[j]))
  <2>1. CASE j = i
    BY <1>1, <2>1
  <2>2. CASE j # i
    <3>1. calls'[j] = calls[j] /\ JobOK(calls[j])
      BY <1>1, <1>5, <2>2 DEF Run
    <3>2. j \notin Working
      BY <1>1, <2>2 DEF Run, OneHolder
    <3>3. ~Busy(calls[j])
      BY <1>1, <1>5, <3>2 DEF Working
    <3>4. task.enabled => CallCurrent(task, j, calls[j])
      BY <1>1, <1>5 DEF Run, Current
    <3> QED
      BY <1>3, <3>1, <3>3, <3>4 DEF CallCurrent, Busy
  <2> QED
    BY <2>1, <2>2
<1>6. ASSUME task'.started = "old"
      PROVE  task'.sid # NoCall /\ Logged(task.sid)'
  <2>1. task.sid # NoCall /\ Logged(task.sid)
    BY <1>3, <1>6 DEF Run, Lease
  <2>2. task.sid \in Placed /\ task.sid \in Working
    BY <1>2, <2>1 DEF Placed, Working, Busy
  <2>3. task'.sid = task.sid
    BY <1>1, <2>2 DEF Run, OneHolder
  <2>4. PICK n : n = task.sid
    OBVIOUS
  <2>5. Logged(n)'
    BY <1>2, <2>1, <2>4, LoggedStays
  <2> QED
    BY <2>1, <2>3, <2>4, <2>5 DEF Logged
<1>7. Claimed' = Claimed /\ SweepsKept
  BY DEF Claimed, SweepsKept
<1>8. task'.status = "completed" => Pending(task.results) = {}
  BY <1>3 DEF Run, Lease
<1> QED
  BY <1>1, <1>3, <1>4, <1>5, <1>6, <1>7, <1>8, GoesOn

LEMMA CallOff ==
  ASSUME Sound, Run, NEW i \in DOMAIN calls, NEW c \in Call, Becomes(i, c), CallsKept,
         Busy(calls[i]), JobOK(c), sched' = sched, starts' = starts,
         ~task'.enabled, task'.lead = NoLead, task'.started = "none",
         task'.status = "completed" => Pending(task'.results) = {}
  PROVE  Run'
<1>1. /\ DOMAIN calls' = DOMAIN calls /\ calls'[i] = c
      /\ \A j \in DOMAIN calls \ {i} : calls'[j] = calls[j]
      /\ Working' \subseteq Working /\ i \in Working
  BY CallMoved
<1>2. \A j \in DOMAIN calls' : JobOK(calls'[j])
  BY <1>1 DEF Run
<1>3. starts # 0 /\ (starts' = 0 => Untouched')
  BY Started
<1>4. SweepsKept
  BY DEF SweepsKept
<1> QED
  BY <1>1, <1>2, <1>3, <1>4, Off

(* What a busy call knows while the campaign is on. *)
LEMMA CallKnows ==
  ASSUME Sound, Run, NEW i \in DOMAIN calls
  PROVE  /\ calls[i] \in Call /\ CallOK(calls[i]) /\ JobOK(calls[i])
         /\ task.enabled => CallCurrent(task, i, calls[i])
BY CallsType DEF Sound, TypeOK, Run, Current

LEMMA CallsAreKept ==
  ASSUME Sound, Sound', NEW i \in DOMAIN calls, NEW c, Becomes(i, c),
         calls[i].call # "none" => c.call # "none",
         calls[i].call \in {"logged", "recording", "done"}
           => c.call \in {"logged", "recording", "done"}
  PROVE  c \in Call /\ CallsKept
<1>1. DOMAIN calls' = DOMAIN calls /\ calls'[i] = c
  BY DEF Becomes
<1>2. calls' \in Seq(Call) /\ \A j \in DOMAIN calls' : calls'[j] \in Call
  <2>1. calls' \in Seq(Call)
    BY DEF Sound, TypeOK
  <2>2. Len(calls') \in Nat /\ DOMAIN calls' = 1..Len(calls')
    BY <2>1, LenProperties
  <2> QED
    BY <2>1, <2>2, ElementOfSeq
<1>3. c \in Call /\ CallOK(c)
  BY <1>1, <1>2 DEF Sound
<1> QED
  BY <1>3, OneCallKept DEF Logged

LEMMA JobRuns ==
  ASSUME Sound, Sound', Run, NEW i \in DOMAIN calls, JobStep(i)
  PROVE  Run'
<1>1. /\ calls[i] \in Call /\ CallOK(calls[i]) /\ JobOK(calls[i])
      /\ task.enabled => CallCurrent(task, i, calls[i])
  BY CallKnows
<1>2. task \in Task /\ task' \in Task /\ task.results \in Results
  BY DEF Sound, TypeOK, Task
<1>3. sched' = sched /\ starts' = starts
  BY DEF JobStep, CheckTask, SkipDial, PlaceCall, RefuseCall, Recheck, HangUpUnwanted,
         CommitCall, ReadForRefusal, RecordRefusal, PauseBlocked, JobOnly
<1>4. task.lead = NoLead \/ task.enabled
  BY DEF Run, Lease
<1>5. ASSUME task' = task
      PROVE  task' = [task EXCEPT !.sid = task'.sid] /\ task'.sid = task.sid
  BY <1>2, <1>5 DEF Task
<1>6. ASSUME NEW c, Becomes(i, c), c.call = calls[i].call
      PROVE  c \in Call /\ CallsKept
  BY <1>6, CallsAreKept
<1>7. CASE CheckTask(i) \/ RefuseCall(i) \/ Recheck(i)
  <2>1. PICK job \in {"placing", "skipping", "refused", "blocked", "committing", "unwanted"} :
          /\ Job(i, job) /\ task' = task
          /\ calls[i].call # "none" => job \in {"committing", "unwanted"}
          /\ task.enabled => job \notin {"skipping", "unwanted"}
          /\ calls[i].job # "done"
    BY <1>1, <1>7 DEF CheckTask, RefuseCall, Recheck, CallOK, CallCurrent, Busy
  <2>2. PICK c : c = [calls[i] EXCEPT !.job = job]
    OBVIOUS
  <2>3. c.call = calls[i].call /\ c.job = job /\ c.lead = calls[i].lead /\ Becomes(i, c)
    BY <1>1, <2>1, <2>2 DEF Call, Job
  <2>4. c \in Call /\ CallsKept
    BY <1>6, <2>3
  <2>5. JobOK(c) /\ Busy(c) /\ Busy(calls[i])
    BY <1>1, <2>1, <2>3 DEF JobOK, Busy
  <2>6. task.enabled => CallCurrent(task', i, c)
    BY <1>1, <2>1, <2>3, <2>5 DEF CallCurrent
  <2> QED
    BY <1>3, <1>5, <2>1, <2>3, <2>4, <2>5, <2>6, CallGoesOn
<1>8. CASE PlaceCall(i)
  <2>1. PICK c : c = [calls[i] EXCEPT !.job = "placed", !.call = "live"]
    OBVIOUS
  <2>2. /\ c.call = "live" /\ c.job = "placed" /\ c.lead = calls[i].lead /\ Becomes(i, c)
        /\ calls[i].call = "none" /\ calls[i].job = "placing" /\ task' = task
    BY <1>1, <1>8, <2>1 DEF Call, PlaceCall, CallOK
  <2>3. c \in Call /\ CallsKept
    BY <2>2, CallsAreKept
  <2>4. JobOK(c) /\ Busy(c) /\ Busy(calls[i])
    BY <2>2 DEF JobOK, Busy
  <2>5. task.enabled => CallCurrent(task', i, c)
    BY <1>1, <2>2, <2>4 DEF CallCurrent
  <2> QED
    BY <1>3, <1>5, <2>2, <2>3, <2>4, <2>5, CallGoesOn
<1>9. CASE HangUpUnwanted(i)
  <2>1. PICK c : c = Ended([calls[i] EXCEPT !.job = "done"])
    OBVIOUS
  <2>2. /\ c.call = IF calls[i].call = "live" THEN "ended" ELSE calls[i].call
        /\ c.job = "done" /\ Becomes(i, c) /\ calls[i].job = "unwanted" /\ task' = task
    BY <1>1, <1>9, <2>1 DEF Call, HangUpUnwanted, Ended
  <2>3. calls[i].call # "none" /\ ~task.enabled
    BY <1>1, <2>2 DEF CallOK, CallCurrent
  <2>4. c \in Call /\ CallsKept
    BY <2>2, CallsAreKept
  <2>5. JobOK(c) /\ Busy(c) /\ Busy(calls[i])
    BY <1>1, <2>2, <2>3 DEF JobOK, Busy
  <2> QED
    BY <1>3, <1>5, <2>2, <2>3, <2>4, <2>5, CallGoesOn
<1>10. CASE CommitCall(i)
  <2>1. PICK c : c = [calls[i] EXCEPT !.job = "done"]
    OBVIOUS
  <2>2. /\ c.call = calls[i].call /\ c.job = "done" /\ c.lead = calls[i].lead /\ Becomes(i, c)
        /\ calls[i].job = "committing" /\ task' = [task EXCEPT !.sid = i]
    BY <1>1, <1>10, <2>1 DEF Call, CommitCall, Job
  <2>3. calls[i].call # "none"
    BY <1>1, <2>2 DEF CallOK
  <2>4. c \in Call /\ CallsKept
    BY <1>6, <2>2
  <2>5. JobOK(c) /\ Busy(c) /\ Busy(calls[i])
    BY <1>1, <2>2, <2>3 DEF JobOK, Busy
  <2>6. /\ task'.sid = i /\ task' = [task EXCEPT !.sid = task'.sid]
        /\ task'.lead = task.lead /\ task'.results = task.results
    BY <1>2, <2>2 DEF Task
  <2>7. task.enabled => CallCurrent(task', i, c)
    BY <1>1, <2>2, <2>3, <2>5, <2>6 DEF CallCurrent
  <2> QED
    BY <1>3, <2>2, <2>4, <2>5, <2>6, <2>7, CallGoesOn
<1>11. CASE ReadForRefusal(i)
  <2>1. PICK c : c = [calls[i] EXCEPT !.job = "failing", !.read = task.results]
    OBVIOUS
  <2>2. /\ c.call = calls[i].call /\ c.job = "failing" /\ c.lead = calls[i].lead /\ Becomes(i, c)
        /\ c.read = task.results /\ calls[i].job = "refused" /\ task' = task
    BY <1>1, <1>11, <2>1 DEF Call, ReadForRefusal
  <2>3. c \in Call /\ CallsKept
    BY <1>6, <2>2
  <2>4. JobOK(c) /\ Busy(c) /\ Busy(calls[i])
    BY <1>1, <2>2 DEF JobOK, Busy
  <2>5. task.enabled => CallCurrent(task', i, c)
    BY <1>1, <2>2, <2>4 DEF CallCurrent
  <2> QED
    BY <1>3, <1>5, <2>2, <2>3, <2>4, <2>5, CallGoesOn
<1>12. CASE SkipDial(i) \/ PauseBlocked(i)
  <2>1. PICK c : c = [calls[i] EXCEPT !.job = "done"]
    OBVIOUS
  <2>2. /\ c.call = calls[i].call /\ c.job = "done" /\ Becomes(i, c)
        /\ calls[i].job \in {"skipping", "blocked"}
    BY <1>1, <1>12, <2>1 DEF Call, SkipDial, PauseBlocked, Job
  <2>3. c \in Call /\ CallsKept
    BY <1>6, <2>2
  <2>4. JobOK(c) /\ Busy(calls[i])
    BY <1>1, <2>2 DEF JobOK, Busy
  <2>5. ~task'.enabled /\ task'.lead = NoLead /\ task'.started = "none"
    BY <1>1, <1>2, <1>12 DEF SkipDial, PauseBlocked, CallCurrent, Task
  <2>6. task'.status = "completed" => Pending(task'.results) = {}
    BY <1>2, <1>12 DEF SkipDial, PauseBlocked, Task, Run, Lease
  <2> QED
    BY <1>3, <2>2, <2>3, <2>4, <2>5, <2>6, CallOff
<1>13. CASE RecordRefusal(i)
  <2>1. PICK c : c = [calls[i] EXCEPT !.job = "done", !.read = NoResults]
    OBVIOUS
  <2>2. /\ c.call = calls[i].call /\ c.job = "done" /\ Becomes(i, c)
        /\ calls[i].job = "failing"
    BY <1>1, <1>13, <2>1 DEF Call, RecordRefusal
  <2>3. c \in Call /\ CallsKept
    BY <1>6, <2>2
  <2>4. JobOK(c) /\ Busy(calls[i]) /\ ~Busy(c)
    BY <1>1, <2>2 DEF JobOK, Busy
  <2>5. PICK res : res = With(calls[i].read, calls[i].lead, "No Answer")
    OBVIOUS
  <2>6. res \in Results /\ Pending(res) = Pending(calls[i].read) \ {calls[i].lead}
    BY <1>1, <2>5, WithType DEF Call, Written
  <2>7. task' = Skipped(task, res)
    BY <1>13, <2>5 DEF RecordRefusal
  <2>8. /\ task'.results = res /\ task'.enabled = task.enabled /\ task'.lead = NoLead
        /\ task'.started = "none" /\ task'.status = "waiting"
    BY <1>2, <2>6, <2>7, SkippedType
  <2>9. CASE ~task.enabled
    BY <1>3, <2>2, <2>3, <2>4, <2>8, <2>9, CallOff
  <2>10. CASE task.enabled
    <3>1. /\ IsNext(task.lead, task.results) /\ task.lead = calls[i].lead
          /\ Pending(calls[i].read) = Pending(task.results)
      BY <1>1, <2>2, <2>4, <2>10 DEF CallCurrent
    <3>2. /\ DOMAIN calls' = DOMAIN calls /\ calls'[i] = c
          /\ Working' \subseteq Working /\ i \in Working
      BY <2>2, <2>3, <2>4, CallMoved
    <3>3. Working' = {} /\ Claimed = {}
      BY <2>4, <3>2 DEF Run, OneHolder, Working
    <3>4. Claimed' = {} /\ SweepsKept
      BY <1>3, <3>3 DEF Claimed, SweepsKept
    <3>5. starts # 0
      BY Started
    <3> QED
      BY <1>2, <1>3, <2>3, <2>6, <2>8, <2>10, <3>1, <3>2, <3>3, <3>4, <3>5, LeadPassed
  <2> QED
    BY <2>9, <2>10
<1> QED
  BY <1>7, <1>8, <1>9, <1>10, <1>11, <1>12, <1>13 DEF JobStep

LEMMA PhoneRuns ==
  ASSUME Sound, Sound', Run, NEW i \in DOMAIN calls,
         CallStep(i) \/ WebhookRead(i) \/ WebhookPatch(i)
  PROVE  Run'
<1>1. /\ calls[i] \in Call /\ CallOK(calls[i]) /\ JobOK(calls[i])
      /\ task.enabled => CallCurrent(task, i, calls[i])
  BY CallKnows
<1>2. task \in Task /\ task' \in Task /\ task.results \in Results
  BY DEF Sound, TypeOK, Task
<1>3. sched' = sched /\ starts' = starts
  BY DEF CallStep, HangUp, MarkRead, MarkEnded, WriteLog, RecordRead, RecordOutcome,
         FallbackLog, WebhookRead, WebhookPatch, CallOnly
<1>4. calls[i].call # "none" /\ Busy(calls[i])
  BY <1>1 DEF CallStep, HangUp, MarkRead, MarkEnded, WriteLog, RecordRead, RecordOutcome,
              FallbackLog, WebhookRead, WebhookPatch, CallOK, Busy
<1>5. ASSUME task' = task
      PROVE  task' = [task EXCEPT !.sid = task'.sid] /\ task'.sid = task.sid
  BY <1>2, <1>5 DEF Task
<1>6. ASSUME NEW c, c.call # "none", c.call # "lost", c.job = calls[i].job
      PROVE  JobOK(c) /\ Busy(c)
  BY <1>1, <1>4, <1>6 DEF JobOK, Busy
<1>7. ASSUME NEW c, task' = task, Becomes(i, c), c.job = calls[i].job, c.lead = calls[i].lead,
             c.read = calls[i].read, c.call \notin {"none", "lost"},
             task.enabled => c.call \in {"live", "ended", "marking", "done"},
             calls[i].call \in {"logged", "recording", "done"}
               => c.call \in {"logged", "recording", "done"}
      PROVE  Run'
  <2>1. c \in Call /\ CallsKept
    BY <1>7, CallsAreKept
  <2>2. JobOK(c) /\ Busy(c)
    BY <1>6, <1>7
  <2>3. task.enabled => CallCurrent(task', i, c)
    BY <1>1, <1>4, <1>7, <2>2 DEF CallCurrent
  <2> QED
    BY <1>3, <1>4, <1>5, <1>7, <2>1, <2>2, <2>3, CallGoesOn
<1>8. CASE HangUp(i)
  <2>1. PICK c : c = Ended(calls[i])
    OBVIOUS
  <2>2. /\ Becomes(i, c) /\ c.job = calls[i].job /\ c.lead = calls[i].lead
        /\ c.read = calls[i].read /\ c.call = "ended" /\ calls[i].call = "live" /\ task' = task
    BY <1>1, <1>8, <2>1 DEF HangUp, Ended, Call
  <2> QED
    BY <1>7, <2>2
<1>9. CASE MarkRead(i)
  <2>1. PICK o \in Outcomes :
          Becomes(i, [calls[i] EXCEPT !.call = "marking", !.outcome = o, !.seen = task.results])
    BY <1>9 DEF MarkRead
  <2>2. PICK c : c = [calls[i] EXCEPT !.call = "marking", !.outcome = o, !.seen = task.results]
    OBVIOUS
  <2>3. /\ Becomes(i, c) /\ c.job = calls[i].job /\ c.lead = calls[i].lead
        /\ c.read = calls[i].read /\ c.call = "marking" /\ calls[i].call = "ended" /\ task' = task
    BY <1>1, <1>9, <2>1, <2>2 DEF MarkRead, Call
  <2> QED
    BY <1>7, <2>3
<1>10. CASE WriteLog(i)
  <2>1. PICK c : c = [calls[i] EXCEPT !.call = "logged"]
    OBVIOUS
  <2>2. /\ Becomes(i, c) /\ c.job = calls[i].job /\ c.lead = calls[i].lead
        /\ c.read = calls[i].read /\ c.call = "logged" /\ calls[i].call = "marked" /\ task' = task
    BY <1>1, <1>10, <2>1 DEF WriteLog, Call
  <2>3. ~task.enabled
    BY <1>1, <2>2 DEF CallCurrent
  <2> QED
    BY <1>7, <2>2, <2>3
<1>11. CASE RecordRead(i)
  <2>1. PICK c : c = [calls[i] EXCEPT !.call = "recording", !.seen = task.results]
    OBVIOUS
  <2>2. /\ Becomes(i, c) /\ c.job = calls[i].job /\ c.lead = calls[i].lead
        /\ c.read = calls[i].read /\ c.call = "recording" /\ calls[i].call = "logged"
        /\ task' = task
    BY <1>1, <1>11, <2>1 DEF RecordRead, Call
  <2>3. ~task.enabled
    BY <1>1, <2>2 DEF CallCurrent
  <2> QED
    BY <1>7, <2>2, <2>3
<1>12. CASE FallbackLog(i)
  <2>1. PICK c : c = [calls[i] EXCEPT !.call = "done", !.outcome = "No Answer"]
    OBVIOUS
  <2>2. /\ Becomes(i, c) /\ c.job = calls[i].job /\ c.lead = calls[i].lead
        /\ c.read = calls[i].read /\ c.call = "done" /\ task' = task
    BY <1>1, <1>12, <2>1 DEF FallbackLog, Call
  <2> QED
    BY <1>7, <2>2
<1>13. CASE WebhookRead(i)
  <2>1. PICK c : c = [calls[i] EXCEPT !.webhook = "checked"]
    OBVIOUS
  <2>2. /\ Becomes(i, c) /\ c.job = calls[i].job /\ c.lead = calls[i].lead
        /\ c.read = calls[i].read /\ c.call = calls[i].call
        /\ calls[i].call \in {"live", "ended"} /\ task' = task
    BY <1>1, <1>13, <2>1 DEF WebhookRead, Call
  <2> QED
    BY <1>7, <2>2
<1>14. CASE WebhookPatch(i)
  <2>1. PICK c : c = [calls[i] EXCEPT !.webhook = "done"]
    OBVIOUS
  <2>2. /\ Becomes(i, c) /\ c.job = calls[i].job /\ c.lead = calls[i].lead
        /\ c.read = calls[i].read /\ c.call = calls[i].call
        /\ task' = [task EXCEPT !.sid = i]
    BY <1>1, <1>14, <2>1 DEF WebhookPatch, Call
  <2>3. c \in Call /\ CallsKept
    BY <2>2, CallsAreKept
  <2>4. JobOK(c) /\ Busy(c)
    BY <1>1, <1>4, <1>6, <2>2 DEF JobOK
  <2>5. /\ task'.sid = i /\ task' = [task EXCEPT !.sid = task'.sid]
        /\ task'.lead = task.lead /\ task'.results = task.results
    BY <1>2, <2>2 DEF Task
  <2>6. task.enabled => CallCurrent(task', i, c)
    BY <1>1, <1>4, <2>2, <2>4, <2>5 DEF CallCurrent
  <2> QED
    BY <1>3, <1>4, <2>2, <2>3, <2>4, <2>5, <2>6, CallGoesOn
<1>15. CASE MarkEnded(i) \/ RecordOutcome(i)
  <2>1. PICK at \in {"marked", "done"}, result \in Written :
          /\ Becomes(i, [calls[i] EXCEPT !.call = at, !.seen = NoResults])
          /\ task' = CallOver(task, With(calls[i].seen, calls[i].lead, result))
          /\ at = "marked" => calls[i].call = "marking"
    BY <1>1, <1>15 DEF MarkEnded, RecordOutcome, CallOK, Call, Written
  <2>2. PICK c : c = [calls[i] EXCEPT !.call = at, !.seen = NoResults]
    OBVIOUS
  <2>3. c.job = calls[i].job /\ c.call = at /\ Becomes(i, c)
    BY <1>1, <2>1, <2>2 DEF Call
  <2>4. c \in Call /\ CallsKept
    BY <2>1, <2>3, CallsAreKept
  <2>5. JobOK(c)
    BY <1>6, <2>3
  <2>6. PICK res : res = With(calls[i].seen, calls[i].lead, result)
    OBVIOUS
  <2>7. res \in Results
    BY <1>1, <2>6, WithType DEF Call
  <2>8. /\ ~task'.enabled /\ task'.lead = NoLead /\ task'.started = "none"
        /\ task'.status = "completed" => Pending(task'.results) = {}
    BY <1>2, <2>1, <2>6, <2>7, CallOverType
  <2> QED
    BY <1>3, <1>4, <2>3, <2>4, <2>5, <2>8, CallOff
<1> QED
  BY <1>8, <1>9, <1>10, <1>11, <1>12, <1>13, <1>14, <1>15 DEF CallStep

(* Requests and time, before and after the campaign is started. *)
LEMMA RequestRuns ==
  ASSUME Sound, Sound', Run, FirstRun',
         Start \/ StopRead \/ StopPatch \/ StopHangUp \/ DialTimeComes \/ ClaimAges
  PROVE  Run'
<1>1. task \in Task /\ task' \in Task /\ task.sid \in Placed \union {NoCall} /\ starts \in Nat
  BY DEF Sound, TypeOK
<1>2. CASE ~StopHangUp
  <2>1. calls' = calls /\ sched' = sched
    BY <1>2 DEF Start, StopRead, StopPatch, DialTimeComes, ClaimAges
  <2>2. CallsKept /\ SweepsKept /\ Claimed' = Claimed /\ Working' = Working
    BY <2>1, SameCalls DEF SweepsKept, Claimed, Working
  <2>3. \A i \in DOMAIN calls' : JobOK(calls'[i])
    BY <2>1 DEF Run
  <2>4. ASSUME task.lead = task'.lead, task'.results = task.results, task'.sid = task.sid,
               task.enabled
        PROVE  \A i \in DOMAIN calls' : CallCurrent(task', i, calls'[i])
    BY <2>1, <2>4 DEF Run, Current, CallCurrent
  <2>5. PICK n : n = task.sid
    OBVIOUS
  <2>6. n # NoCall /\ Logged(n) => Logged(n)'
    BY <1>1, <2>2, <2>5, LoggedStays
  <2>7. CASE StopRead \/ DialTimeComes
    <3>1. /\ task'.enabled = task.enabled /\ task'.lead = task.lead /\ task'.sid = task.sid
          /\ task'.results = task.results /\ task'.started = task.started
          /\ task'.status = task.status /\ starts' = starts
      BY <1>1, <2>7 DEF StopRead, DialTimeComes, Task
    <3>2. starts' = 0 => Untouched'
      BY <2>1, <3>1 DEF Run, Untouched
    <3>3. task'.started = "old" => task'.sid # NoCall /\ Logged(task.sid)'
      BY <2>5, <2>6, <3>1 DEF Run, Lease, Logged
    <3>4. task'.status = "completed" => Pending(task.results) = {}
      BY <3>1 DEF Run, Lease
    <3> QED
      BY <2>2, <2>3, <2>4, <3>1, <3>2, <3>3, <3>4, GoesOn
  <2>8. CASE StopPatch
    <3>1. /\ ~task'.enabled /\ task'.lead = NoLead /\ task'.sid = NoCall
          /\ task'.results = task.results /\ task'.started = "none"
          /\ task'.status = "paused" /\ starts' = starts
      BY <1>1, <2>8 DEF StopPatch, Task
    <3>2. starts' = 0 => Untouched'
      BY <2>1, <3>1 DEF Run, Untouched
    <3> QED
      BY <2>2, <2>3, <3>1, <3>2, Off
  <2>9. CASE Start
    <3>1. starts = 0 /\ starts' = starts + 1
      BY <1>1, <2>9 DEF Start, FirstRun
    <3>2. Untouched /\ task.lead = NoLead /\ task.started = "none"
      BY <3>1 DEF Run, Lease, Untouched
    <3>3. /\ task'.enabled /\ task'.lead = NoLead /\ task'.sid = NoCall
          /\ task'.results = task.results /\ task'.started = "none"
          /\ task'.status = "waiting"
      BY <1>1, <2>9, <3>2 DEF Start, Task, Untouched
    <3>4. DOMAIN calls' = {} /\ \A s \in Schedulers : sched'[s] = Resting
      <4>1. DOMAIN <<>> = {}
        OBVIOUS
      <4> QED
        BY <2>1, <3>2, <4>1 DEF Untouched
    <3>5. Working' = {} /\ Claimed' = {}
      BY <3>4 DEF Working, Claimed, Resting
    <3>6. Resting.at = "idle" /\ Resting.snap.started = "none"
      BY DEF Resting, NewTask
    <3>7. OneHolder' /\ Lease'
      BY <3>3, <3>5 DEF OneHolder, Lease
    <3>8. (\A s \in Schedulers : SnapKnown(sched[s])') /\ Current'
      BY <3>4, <3>5, <3>6 DEF SnapKnown, Current
    <3>9. starts' # 0
      BY <1>1, <3>1
    <3> QED
      BY <2>3, <3>7, <3>8, <3>9 DEF Run
  <2>10. CASE ClaimAges
    <3>1. /\ task'.enabled = task.enabled /\ task'.lead = task.lead /\ task'.sid = task.sid
          /\ task'.results = task.results /\ task'.started = "old"
          /\ task'.status = task.status /\ starts' = starts /\ task.started = "recent"
      BY <1>1, <2>10 DEF ClaimAges, Task
    <3>2. ~Attended
      <4>1. faults' = 0 /\ faults \in Nat
        BY DEF FirstRun, Sound, TypeOK
      <4> QED
        BY <2>10, <4>1 DEF ClaimAges, Fault
    <3>3. task.enabled /\ (Claimed # {} \/ Working # {})
      BY <3>1 DEF Run, Lease
    <3>4. Claimed = {}
      BY <3>2 DEF Attended, Claimed
    <3>5. PICK i : i \in Working
      BY <3>3, <3>4
    <3>6. i \in DOMAIN calls /\ Busy(calls[i]) /\ JobOK(calls[i]) /\ CallCurrent(task, i, calls[i])
      BY <3>3, <3>5, CallKnows DEF Working
    <3>7. task.lead = calls[i].lead
      BY <3>6 DEF CallCurrent
    <3>8. calls[i].job = "done" /\ calls[i].call \in {"none", "done", "lost"}
      BY <3>2, <3>6, <3>7 DEF Attended
    <3>9. calls[i].call = "done" /\ task.sid = i
      BY <3>6, <3>8 DEF Busy, JobOK, CallCurrent
    <3>10. task'.sid # NoCall /\ Logged(task.sid)'
      <4>1. i # NoCall
        BY <3>6, CallsType DEF Sound, TypeOK
      <4> QED
        BY <2>1, <3>1, <3>9, <4>1 DEF Logged
    <3>11. starts' = 0 => Untouched'
      BY <3>1, <3>3 DEF Run, Untouched
    <3>12. task'.status = "completed" => Pending(task.results) = {}
      BY <3>1 DEF Run, Lease
    <3> QED
      BY <2>2, <2>3, <2>4, <3>1, <3>10, <3>11, <3>12, GoesOn
  <2> QED
    BY <1>2, <2>7, <2>8, <2>9, <2>10
<1>3. CASE StopHangUp
  <2>1. PICK n : n = stop.sid
    OBVIOUS
  <2>2. n \in DOMAIN calls /\ n \in Placed
    BY <1>3, <2>1 DEF StopHangUp, Sound, Placed
  <2>3. /\ calls[n] \in Call /\ JobOK(calls[n])
        /\ task.enabled => CallCurrent(task, n, calls[n])
    BY <2>2, CallKnows
  <2>4. PICK c : c = Ended(calls[n])
    OBVIOUS
  <2>5. /\ c.job = calls[n].job /\ c.lead = calls[n].lead /\ c.read = calls[n].read
        /\ c.call = (IF calls[n].call = "live" THEN "ended" ELSE calls[n].call)
        /\ Becomes(n, c)
    BY <1>3, <2>1, <2>3, <2>4 DEF StopHangUp, Ended, Becomes, Call
  <2>6. calls[n].call # "none"
    BY <2>2 DEF Placed
  <2>7. c \in Call /\ CallsKept
    BY <2>2, <2>5, <2>6, CallsAreKept
  <2>8. JobOK(c) /\ Busy(c) /\ Busy(calls[n])
    BY <2>3, <2>5, <2>6 DEF JobOK, Busy
  <2>9. task' = task /\ sched' = sched /\ starts' = starts
    BY <1>3 DEF StopHangUp
  <2>10. task' = [task EXCEPT !.sid = task'.sid] /\ task'.sid = task.sid
    BY <1>1, <2>9 DEF Task
  <2>11. task.enabled => CallCurrent(task', n, c)
    BY <2>3, <2>5, <2>6, <2>8, <2>9 DEF CallCurrent
  <2> QED
    BY <2>2, <2>5, <2>7, <2>8, <2>9, <2>10, <2>11, CallGoesOn
<1> QED
  BY <1>2, <1>3

(* The campaign is on and no lead is leased: nobody works on one. *)
LEMMA NobodyWorks ==
  ASSUME Sound, Run, task.lead = NoLead, task.enabled
  PROVE  Claimed = {} /\ Working = {}
<1>1. ASSUME NEW s \in Claimed PROVE FALSE
  <2>1. s \in Schedulers /\ Pending(sched[s].snap.results) # {} /\ sched[s].snap \in Task
    BY <1>1, SnapType DEF Claimed, Sound, SweepOK
  <2>2. task.lead = NextLead(sched[s].snap)
    BY <1>1 DEF Run, Current, ClaimCurrent
  <2> QED
    BY <2>1, <2>2, NextLeadType
<1>2. ASSUME NEW i \in Working PROVE FALSE
  <2>1. IsNext(task.lead, task.results)
    BY <1>2 DEF Run, Current, CallCurrent, Working
  <2> QED
    BY <2>1, PendingType, LeadsType DEF IsNext
<1> QED
  BY <1>1, <1>2

(* A sweep rests or goes to the call it found. *)
LEMMA SweepTurns ==
  ASSUME Sound, NEW s \in Schedulers, calls' = calls, sched[s].at # "claimed",
         \/ Rest(s)
         \/ GoTo(s, "finished") /\ SnapKnown(sched[s])
  PROVE  SweepsKept /\ Claimed' = Claimed
<1>1. sched \in [Schedulers -> SweepState] /\ sched[s] \in SweepState
  BY DEF Sound, TypeOK, SweepState
<1>2. CASE Rest(s)
  <2>1. Resting.at = "idle" /\ Resting.snap.started = "none"
    BY DEF Resting, NewTask
  <2>2. sched'[s] = Resting /\ \A q \in Schedulers \ {s} : sched'[q] = sched[q]
    BY <1>1, <1>2 DEF Rest
  <2> QED
    BY <2>1, <2>2 DEF SweepsKept, Claimed
<1>3. CASE GoTo(s, "finished") /\ SnapKnown(sched[s])
  <2>1. /\ sched'[s].at = "finished" /\ sched'[s].snap = sched[s].snap
        /\ \A q \in Schedulers \ {s} : sched'[q] = sched[q]
    BY <1>1, <1>3 DEF GoTo, SweepState
  <2>2. sched'[s].snap.started = "old"
          => sched'[s].snap.sid # NoCall /\ Logged(sched[s].snap.sid)'
    BY <1>3, <2>1 DEF SnapKnown, Logged
  <2> QED
    BY <2>1, <2>2 DEF SweepsKept, Claimed
<1> QED
  BY <1>2, <1>3

LEMMA ClaimRest ==
  ASSUME Sound, NEW s \in Claimed, Rest(s), \A t \in Claimed : t = s
  PROVE  SweepsKept /\ Claimed' = {}
<1>1. sched \in [Schedulers -> SweepState]
  BY DEF Sound, TypeOK, SweepState
<1>2. Resting.at = "idle" /\ Resting.snap.started = "none"
  BY DEF Resting, NewTask
<1>3. sched'[s] = Resting /\ \A q \in Schedulers \ {s} : sched'[q] = sched[q]
  BY <1>1 DEF Rest, Claimed
<1> QED
  BY <1>2, <1>3 DEF SweepsKept, Claimed

LEMMA SweepRuns ==
  ASSUME Sound, Sound', Run, NEW s \in Schedulers, Sweep(s)
  PROVE  Run'
<1> DEFINE snap == sched[s].snap
<1>1. /\ sched[s] \in SweepState /\ snap \in Task /\ snap.results \in Results
      /\ snap.lead \in Leads \union {NoLead}
      /\ sched[s].at = "finished" => calls[snap.sid].outcome \in Written
  BY SnapType
<1>2. task \in Task /\ task' \in Task /\ task.results \in Results
      /\ task.sid \in Placed \union {NoCall} /\ starts \in Nat
  BY DEF Sound, TypeOK, Task
<1>3. SnapKnown(sched[s]) /\ SweepOK(sched[s])
  BY DEF Run, Sound
<1>4. starts # 0
  <2>1. SUFFICES ASSUME starts = 0 PROVE FALSE
    OBVIOUS
  <2>2. sched[s].at = "idle" /\ ~task.enabled /\ task.sid = NoCall
    BY <2>1 DEF Run, Untouched, Resting
  <2> QED
    BY <2>2 DEF Sweep, Scan, LookUpCall, RecordFinished, GiveUp, AwaitCallbacks,
                Complete, Claim, NotCallable, Unconfigured, Enqueue
<1>5. starts' = starts
  BY DEF Sweep, SweepOnly, Scan, LookUpCall, RecordFinished, GiveUp, AwaitCallbacks,
         Complete, Claim, NotCallable, Unconfigured, Enqueue
<1>6. CASE ~Enqueue(s)
  <2>1. calls' = calls
    BY <1>6 DEF Sweep, SweepOnly, Scan, LookUpCall, RecordFinished, GiveUp, AwaitCallbacks,
                Complete, Claim, NotCallable, Unconfigured
  <2>2. CallsKept /\ Working' = Working /\ \A i \in DOMAIN calls' : JobOK(calls'[i])
    BY <2>1, SameCalls DEF Working, Run
  <2>3. ASSUME task'.lead = task.lead, task'.results = task.results, task'.sid = task.sid,
               task.enabled
        PROVE  \A i \in DOMAIN calls' : CallCurrent(task', i, calls'[i])
    BY <2>1, <2>3 DEF Run, Current, CallCurrent
  <2>4. ASSUME task'.started = task.started, task'.sid = task.sid, task'.started = "old"
        PROVE  task'.sid # NoCall /\ Logged(task.sid)'
    BY <2>1, <2>4 DEF Run, Lease, Logged
  <2>5. task.status = "completed" => Pending(task.results) = {}
    BY DEF Run, Lease
  <2>6. CASE Scan(s)
    <3>1. /\ sched'[s] = [at |-> "scanned", snap |-> task] /\ task' = task
          /\ \A q \in Schedulers \ {s} : sched'[q] = sched[q]
          /\ sched[s].at = "idle"
      BY <1>1, <2>6 DEF Scan, Sound, TypeOK
    <3>2. Claimed' = Claimed
      BY <3>1 DEF Claimed
    <3>3. OneHolder' /\ Lease'
      BY <2>1, <2>2, <3>1, <3>2, HolderStays DEF Run, Lease, Logged
    <3>4. ASSUME task.sid = NoCall
          PROVE  MayDial(task) /\ Claimed = {} /\ Working = {}
      <4>1. ~NothingToDo(task) /\ task.enabled
        BY <2>6, <3>4 DEF Scan
      <4>2. task.started # "old"
        BY <3>4 DEF Run, Lease
      <4>3. MayDial(task)
        BY <3>4, <4>1, <4>2 DEF NothingToDo
      <4> QED
        BY <4>3, NobodyWorks DEF MayDial
    <3>5. ASSUME NEW q \in Schedulers
          PROVE  SnapKnown(sched[q])'
      <4>1. CASE q = s
        <5>1. sched'[q].at = "scanned" /\ sched'[q].snap = task
          BY <3>1, <4>1
        <5>2. task.started = "old" => task.sid # NoCall /\ Logged(task.sid)
          BY DEF Run, Lease
        <5> QED
          BY <2>1, <2>2, <3>1, <3>2, <3>4, <5>1, <5>2 DEF SnapKnown, Logged
      <4>2. CASE q # s
        <5>1. sched'[q] = sched[q] /\ SnapKnown(sched[q])
          BY <3>1, <4>2 DEF Run
        <5> QED
          BY <2>1, <2>2, <3>1, <3>2, <5>1 DEF SnapKnown, Logged
      <4> QED
        BY <4>1, <4>2
    <3>6. ASSUME task'.enabled
          PROVE  Current'
      <4>1. Current
        BY <3>1, <3>6 DEF Run
      <4>2. \A q \in Claimed' : ClaimCurrent(task', sched'[q].snap)
        BY <3>1, <3>2, <4>1 DEF Current, Claimed
      <4>3. \A i \in DOMAIN calls' : CallCurrent(task', i, calls'[i])
        BY <2>1, <3>1, <4>1 DEF Current
      <4>4. SnapCurrent(task, task)
        BY DEF SnapCurrent
      <4>5. ASSUME NEW q \in Schedulers, sched'[q].at = "scanned", sched'[q].snap.sid = NoCall
            PROVE  SnapCurrent(task', sched'[q].snap)
        <5>1. CASE q = s
          BY <3>1, <4>4, <5>1
        <5>2. CASE q # s
          BY <3>1, <4>1, <4>5, <5>2 DEF Current
        <5> QED
          BY <5>1, <5>2
      <4> QED
        BY <4>2, <4>3, <4>5 DEF Current
    <3> QED
      BY <1>4, <1>5, <2>2, <3>3, <3>5, <3>6 DEF Run
  <2>7. CASE LookUpCall(s)
    <3>1. task' = task /\ sched[s].at # "claimed" /\ (Rest(s) \/ GoTo(s, "finished"))
      BY <1>3, <2>7 DEF LookUpCall, SnapKnown
    <3>2. SweepsKept /\ Claimed' = Claimed
      BY <1>3, <2>1, <3>1, SweepTurns
    <3> QED
      BY <1>4, <1>5, <2>2, <2>3, <2>4, <2>5, <3>1, <3>2, GoesOn
  <2>8. CASE RecordFinished(s)
    <3>1. SweepsKept /\ Claimed' = Claimed
      BY <2>1, <2>8, SweepTurns DEF RecordFinished
    <3>2. Working # {}
      BY <1>3, <2>8 DEF RecordFinished, SweepOK, Placed, Working, Busy
    <3>3. PICK res : res = With(snap.results, snap.lead, calls[snap.sid].outcome)
      OBVIOUS
    <3>4. res \in Results
      BY <1>1, <2>8, <3>3, WithType DEF RecordFinished
    <3>5. task' = CallOver(task, res)
      BY <2>8, <3>3 DEF RecordFinished
    <3>6. /\ ~task'.enabled /\ task'.lead = NoLead /\ task'.started = "none"
          /\ task'.status = "completed" => Pending(task'.results) = {}
      BY <1>2, <3>4, <3>5, CallOverType
    <3> QED
      BY <1>4, <1>5, <2>2, <3>1, <3>2, <3>6, Off
  <2>9. CASE GiveUp(s)
    BY <1>3, <2>9 DEF GiveUp, SnapKnown
  <2>10. CASE AwaitCallbacks(s)
    <3>1. SweepsKept /\ Claimed' = Claimed
      BY <2>1, <2>10, SweepTurns DEF AwaitCallbacks
    <3>2. /\ task'.enabled = task.enabled /\ task'.lead = task.lead /\ task'.sid = task.sid
          /\ task'.results = task.results /\ task'.started = task.started
          /\ task'.status # "completed"
      BY <1>2, <2>10 DEF AwaitCallbacks, Task
    <3> QED
      BY <1>4, <1>5, <2>2, <2>3, <2>4, <3>1, <3>2, GoesOn
  <2>11. CASE Complete(s)
    <3>1. SweepsKept
      BY <2>1, <2>11, SweepTurns DEF Complete
    <3>2. Pending(task.results) = {} /\ Claimed = {} /\ Working = {}
      BY <1>3, <2>11 DEF Complete, SnapKnown, MayDial
    <3>3. /\ ~task'.enabled /\ task'.lead = task.lead /\ task'.results = task.results
          /\ task'.started = task.started
      BY <1>2, <2>11 DEF Complete, Task
    <3>4. task.lead = NoLead /\ task.started = "none"
      BY <1>2, <3>2 DEF Run, Lease
    <3> QED
      BY <1>4, <1>5, <2>2, <3>1, <3>2, <3>3, <3>4, Off
  <2>12. CASE Claim(s) /\ ~Claimable(NextLead(snap))
    <3>1. task' = task /\ Rest(s) /\ sched[s].at # "claimed"
      BY <2>12 DEF Claim
    <3>2. SweepsKept /\ Claimed' = Claimed
      BY <2>1, <3>1, SweepTurns
    <3> QED
      BY <1>4, <1>5, <2>2, <2>3, <2>4, <2>5, <3>1, <3>2, GoesOn
  <2>13. CASE Claim(s) /\ Claimable(NextLead(snap))
    <3>1. PICK l : l = NextLead(snap)
      OBVIOUS
    <3>2. /\ task' = [task EXCEPT !.lead = l, !.status = "dialing", !.started = "recent"]
          /\ task.enabled /\ task.lead = NoLead /\ task.results[l] = "Pending"
          /\ Pending(snap.results) # {} /\ sched[s].at = "scanned" /\ snap.sid = NoCall
          /\ GoTo(s, "claimed")
      BY <2>13, <3>1 DEF Claim, Claimable, MayDial
    <3>3. l \in Leads /\ l # NoLead /\ IsNext(l, snap.results)
      BY <1>1, <3>1, <3>2, NextLeadType
    <3>4. l \in Pending(task.results) /\ Claimed = {} /\ Working = {} /\ Current
      BY <3>2, <3>3, NobodyWorks DEF Pending, Run
    <3>5. Pending(task.results) = Pending(snap.results)
      BY <3>2, <3>3, <3>4 DEF Current, SnapCurrent
    <3>6. /\ sched'[s].at = "claimed" /\ sched'[s].snap = snap
          /\ \A q \in Schedulers \ {s} : sched'[q] = sched[q]
      BY <1>1, <3>2 DEF GoTo, Sound, TypeOK, SweepState
    <3>7. Claimed' = {s} /\ Working' = {}
      BY <2>2, <3>4, <3>6 DEF Claimed
    <3>8. /\ task'.enabled /\ task'.lead = l /\ task'.results = task.results
          /\ task'.started = "recent" /\ task'.status = "dialing" /\ task'.sid = task.sid
      BY <1>2, <3>2 DEF Task
    <3>9. OneHolder' /\ Lease'
      BY <3>3, <3>7, <3>8 DEF OneHolder, Lease
    <3>10. ASSUME NEW q \in Schedulers
           PROVE  SnapKnown(sched[q])'
      <4>1. CASE q = s
        BY <1>3, <2>1, <3>6, <4>1 DEF SnapKnown, Logged
      <4>2. CASE q # s
        <5>1. sched'[q] = sched[q] /\ SnapKnown(sched[q])
          BY <3>6, <4>2 DEF Run
        <5> QED
          BY <2>1, <3>4, <5>1 DEF SnapKnown, Logged
      <4> QED
        BY <4>1, <4>2
    <3>11. \A q \in Claimed' : ClaimCurrent(task', sched'[q].snap)
      BY <3>1, <3>5, <3>6, <3>7, <3>8 DEF ClaimCurrent
    <3>12. \A i \in DOMAIN calls' : CallCurrent(task', i, calls'[i])
      BY <2>1, <3>4, <3>8 DEF Current, CallCurrent, Working
    <3>13. ASSUME NEW q \in Schedulers, sched'[q].at = "scanned", sched'[q].snap.sid = NoCall
           PROVE  SnapCurrent(task', sched'[q].snap)
      BY <3>4, <3>6, <3>8, <3>13 DEF Current, SnapCurrent
    <3> QED
      BY <1>4, <1>5, <2>2, <3>9, <3>10, <3>11, <3>12, <3>13 DEF Run, Current
  <2>14. CASE NotCallable(s)
    <3>1. s \in Claimed /\ Working = {} /\ \A t \in Claimed : t = s
      BY <2>14 DEF NotCallable, Claimed, Run, OneHolder
    <3>2. SweepsKept /\ Claimed' = {}
      BY <2>14, <3>1, ClaimRest DEF NotCallable
    <3>3. Pending(snap.results) # {}
      BY <1>3, <2>14 DEF NotCallable, SweepOK
    <3>4. PICK l : l = NextLead(snap)
      OBVIOUS
    <3>5. l \in Leads /\ IsNext(l, snap.results)
      BY <1>1, <3>3, <3>4, NextLeadType
    <3>6. PICK res : res = With(snap.results, l, "No Answer")
      OBVIOUS
    <3>7. res \in Results /\ Pending(res) = Pending(snap.results) \ {l}
      BY <1>1, <3>5, <3>6, WithType DEF Written
    <3>8. task' = Skipped(task, res)
      BY <2>14, <3>4, <3>6 DEF NotCallable
    <3>9. /\ task'.results = res /\ task'.enabled = task.enabled /\ task'.lead = NoLead
          /\ task'.started = "none" /\ task'.status = "waiting"
      BY <1>2, <3>7, <3>8, SkippedType
    <3>10. CASE ~task.enabled
      BY <1>4, <1>5, <2>2, <3>1, <3>2, <3>9, <3>10, Off
    <3>11. CASE task.enabled
      <4>1. task.lead = l /\ Pending(snap.results) = Pending(task.results)
        BY <3>1, <3>4, <3>11 DEF Run, Current, ClaimCurrent
      <4>2. IsNext(task.lead, task.results)
        BY <3>5, <4>1 DEF IsNext
      <4>3. Claimed # {}
        BY <3>1
      <4>4. /\ task'.status # "completed" /\ Working' = {}
            /\ Pending(task'.results) = Pending(task.results) \ {task.lead}
        BY <2>2, <3>1, <3>7, <3>9, <4>1
      <4> QED
        BY <1>2, <1>4, <1>5, <2>2, <3>2, <3>9, <3>11, <4>2, <4>3, <4>4, LeadPassed
    <3> QED
      BY <3>10, <3>11
  <2>15. CASE Unconfigured(s)
    <3>1. s \in Claimed /\ \A t \in Claimed : t = s
      BY <2>15 DEF Unconfigured, Claimed, Run, OneHolder
    <3>2. SweepsKept
      BY <2>15, <3>1, ClaimRest DEF Unconfigured
    <3>3. /\ ~task'.enabled /\ task'.lead = NoLead /\ task'.started = "none"
          /\ task'.status = "paused"
      BY <1>2, <2>15 DEF Unconfigured, Task
    <3> QED
      BY <1>4, <1>5, <2>2, <3>1, <3>2, <3>3, Off
  <2> QED
    BY <1>6, <2>6, <2>7, <2>8, <2>9, <2>10, <2>11, <2>12, <2>13, <2>14, <2>15 DEF Sweep
<1>7. CASE Enqueue(s)
  <2>1. PICK c : c = [lead |-> NextLead(snap), job |-> "queued", call |-> "none",
                      outcome |-> "none", webhook |-> "none", read |-> NoResults,
                      seen |-> NoResults]
    OBVIOUS
  <2>2. calls' = Append(calls, c) /\ Len(calls) < MaxCalls /\ Rest(s) /\ task' = task
        /\ sched[s].at = "claimed"
    BY <1>7, <2>1 DEF Enqueue
  <2>3. Pending(snap.results) # {}
    BY <1>3, <2>2 DEF SweepOK
  <2>4. NextLead(snap) \in Leads /\ IsNext(NextLead(snap), snap.results)
    BY <1>1, <2>3, NextLeadType
  <2>5. c \in Call /\ CallOK(c)
    <3>1. NoResults \in Results
      BY DEF NoResults, Results
    <3> QED
      BY <2>1, <2>4, <3>1 DEF Call, CallOK
  <2>6. PICK n : n = Len(calls) + 1
    OBVIOUS
  <2>7. /\ CallsKept /\ DOMAIN calls' = DOMAIN calls \union {n} /\ n \notin DOMAIN calls
        /\ calls'[n] = c /\ \A j \in DOMAIN calls : calls'[j] = calls[j]
    BY <2>2, <2>5, <2>6, CallAppended
  <2>8. s \in Claimed /\ Working = {} /\ \A t \in Claimed : t = s
    BY <2>2 DEF Claimed, Run, OneHolder
  <2>9. SweepsKept /\ Claimed' = {}
    BY <2>2, <2>8, ClaimRest
  <2>10. Busy(c) /\ JobOK(c)
    BY <2>1 DEF Busy, JobOK
  <2>11. Working' = {n}
    BY <2>7, <2>8, <2>10 DEF Working
  <2>12. OneHolder'
    BY <2>9, <2>11 DEF OneHolder
  <2>13. Lease'
    <3>1. PICK m : m = task.sid
      OBVIOUS
    <3>2. m # NoCall /\ Logged(m) => Logged(m)'
      BY <1>2, <2>7, <3>1, LoggedStays
    <3> QED
      BY <2>2, <2>11, <3>1, <3>2 DEF Run, Lease, Logged
  <2>14. ASSUME NEW q \in Schedulers
         PROVE  SnapKnown(sched[q])'
    <3>1. CASE sched'[q] = sched[q]
      <4>1. SnapKnown(sched[q]) /\ sched[q].snap.sid \in Placed \union {NoCall}
        BY DEF Run, Sound, SweepOK
      <4>2. PICK m : m = sched[q].snap.sid
        OBVIOUS
      <4>3. m # NoCall /\ Logged(m) => Logged(m)'
        BY <2>7, <4>1, <4>2, LoggedStays
      <4> QED
        BY <2>8, <3>1, <4>1, <4>2, <4>3 DEF SnapKnown, Logged
    <3>2. CASE sched'[q] # sched[q]
      BY <2>9, <3>2 DEF SweepsKept, SnapKnown, Logged
    <3> QED
      BY <3>1, <3>2
  <2>15. \A i \in DOMAIN calls' : JobOK(calls'[i])
    BY <2>7, <2>10 DEF Run
  <2>16. ASSUME task'.enabled
         PROVE  Current'
    <3>1. Current
      BY <2>2, <2>16 DEF Run
    <3>2. task.lead = NextLead(snap) /\ Pending(snap.results) = Pending(task.results)
      BY <2>8, <3>1 DEF Current, ClaimCurrent
    <3>3. IsNext(task.lead, task.results)
      BY <2>4, <3>2 DEF IsNext
    <3>4. CallCurrent(task', n, c)
      BY <2>1, <2>2, <3>2, <3>3 DEF CallCurrent
    <3>5. \A i \in DOMAIN calls' : CallCurrent(task', i, calls'[i])
      BY <2>2, <2>7, <3>1, <3>4 DEF Current
    <3>6. ASSUME NEW q \in Schedulers, sched'[q].at = "scanned", sched'[q].snap.sid = NoCall
          PROVE  SnapCurrent(task', sched'[q].snap)
      BY <2>2, <2>9, <3>1, <3>6 DEF Current, SweepsKept
    <3> QED
      BY <2>9, <3>5, <3>6 DEF Current
  <2> QED
    BY <1>4, <1>5, <2>12, <2>13, <2>14, <2>15, <2>16 DEF Run
<1> QED
  BY <1>6, <1>7

LEMMA RunInit == AutoDialInit => Run
<1> SUFFICES ASSUME AutoDialInit
             PROVE  Run
  OBVIOUS
<1>1. PICK results \in [Leads -> Outcomes \union {"Pending"}] :
        task = [NewTask EXCEPT !.results = results]
  BY DEF AutoDialInit
<1>2. /\ ~task.enabled /\ task.status = "paused" /\ task.sid = NoCall /\ task.lead = NoLead
      /\ task.started = "none"
  BY <1>1 DEF NewTask
<1>3. calls = <<>> /\ DOMAIN calls = {} /\ \A s \in Schedulers : sched[s] = Resting
  BY DEF AutoDialInit
<1>4. Resting.at = "idle" /\ Resting.snap.started = "none"
  BY DEF Resting, NewTask
<1>5. Claimed = {} /\ Working = {}
  BY <1>3, <1>4 DEF Claimed, Working
<1>6. OneHolder /\ Lease
  BY <1>2, <1>5 DEF OneHolder, Lease
<1>7. \A s \in Schedulers : SnapKnown(sched[s])
  BY <1>3, <1>4 DEF SnapKnown
<1> QED
  BY <1>2, <1>3, <1>6, <1>7 DEF Run, Untouched

(* The first run is over when the campaign is started again, or something is  *)
(* lost; it does not come back.                                            *)
LEMMA FirstRunEnds ==
  ASSUME Sound, AutoDialNext, FirstRun'
  PROVE  /\ FirstRun /\ faults' = faults
         /\ \A i \in DOMAIN calls : ~LoseAnswer(i) /\ ~LoseJob(i) /\ ~LoseLog(i)
<1>1. starts \in Nat /\ faults \in Nat
  BY DEF Sound, TypeOK
<1>2. ~Fault
  BY <1>1 DEF Fault, FirstRun
<1>3. \A i \in DOMAIN calls : ~LoseAnswer(i) /\ ~LoseJob(i) /\ ~LoseLog(i)
  BY <1>2 DEF LoseAnswer, LoseJob, LoseLog
<1>4. ASSUME NEW s \in Schedulers, Sweep(s)
      PROVE  starts' = starts /\ faults' = faults
  BY <1>4 DEF Sweep, SweepOnly, Scan, LookUpCall, RecordFinished, GiveUp, AwaitCallbacks,
              Complete, Claim, NotCallable, Unconfigured, Enqueue
<1>5. ASSUME NEW i \in DOMAIN calls, JobStep(i)
      PROVE  starts' = starts /\ faults' = faults
  BY <1>5 DEF JobStep, CheckTask, SkipDial, PlaceCall, RefuseCall, Recheck, HangUpUnwanted,
              CommitCall, ReadForRefusal, RecordRefusal, PauseBlocked, JobOnly
<1>6. ASSUME NEW i \in DOMAIN calls, CallStep(i) \/ WebhookRead(i) \/ WebhookPatch(i)
      PROVE  starts' = starts /\ faults' = faults
  BY <1>6 DEF CallStep, HangUp, MarkRead, MarkEnded, WriteLog, RecordRead, RecordOutcome,
              FallbackLog, WebhookRead, WebhookPatch, CallOnly
<1>7. ASSUME StopRead \/ StopPatch \/ StopHangUp \/ DialTimeComes \/ ClaimAges
      PROVE  starts' = starts /\ faults' = faults
  BY <1>2, <1>7 DEF StopRead, StopPatch, StopHangUp, DialTimeComes, ClaimAges
<1>8. ASSUME Start
      PROVE  starts' = starts + 1 /\ faults' = faults
  BY <1>8 DEF Start
<1>9. (starts' = starts \/ starts' = starts + 1) /\ faults' = faults
  BY <1>3, <1>4, <1>5, <1>6, <1>7, <1>8 DEF AutoDialNext
<1>10. FirstRun
  BY <1>1, <1>9 DEF FirstRun
<1> QED
  BY <1>3, <1>9, <1>10

LEMMA RunNext == Sound /\ Sound' /\ (FirstRun => Run) /\ [AutoDialNext]_vars => (FirstRun' => Run')
<1> SUFFICES ASSUME Sound, Sound', FirstRun => Run, [AutoDialNext]_vars, FirstRun'
             PROVE  Run'
  OBVIOUS
<1>1. CASE UNCHANGED vars
  <2>1. FirstRun
    BY <1>1 DEF vars, FirstRun
  <2> QED
    BY <1>1, <2>1 DEF vars, Run, Untouched, OneHolder, Lease, SnapKnown, Current, Claimed,
                      Working, Logged
<1>2. CASE AutoDialNext
  <2>1. Run /\ \A i \in DOMAIN calls : ~LoseAnswer(i) /\ ~LoseJob(i) /\ ~LoseLog(i)
    BY <1>2, FirstRunEnds
  <2> QED
    BY <1>2, <2>1, RequestRuns, SweepRuns, JobRuns, PhoneRuns DEF AutoDialNext
<1> QED
  BY <1>1, <1>2

LEMMA RunInvariant == AutoDialSpec => [](Sound /\ (FirstRun => Run))
<1>1. AutoDialInit => Sound /\ (FirstRun => Run)
  BY SoundInit, RunInit
<1>2. Sound /\ (FirstRun => Run) /\ [AutoDialNext]_vars => (Sound /\ (FirstRun => Run))'
  BY SoundNext, RunNext
<1> QED
  BY <1>1, <1>2, PTL DEF AutoDialSpec

------------------------------------------------------------------------------
(* The properties *)

(* Until a campaign is started a second time, and while nothing is lost, it   *)
(* has placed at most one call, with any number of scheduler instances and    *)
(* jobs ("The user must explicitly start Auto Dial again to place another    *)
(* call": crm/autoDialEngine.js).                                          *)
THEOREM OneCallInFirstRun == AutoDialSpec => [](starts <= 1 => OneCallPerStart)
<1>1. ASSUME Sound, FirstRun => Run, starts <= 1
      PROVE  OneCallPerStart
  <2>1. SUFFICES ASSUME faults = 0
                 PROVE  Cardinality(Placed) <= starts
    BY DEF OneCallPerStart
  <2>2. Run /\ starts \in Nat
    BY <1>1, <2>1 DEF FirstRun, Sound, TypeOK
  <2>3. CASE Placed = {}
    BY <2>2, <2>3, FS_EmptySet
  <2>4. CASE Placed # {}
    <3>1. PICK i \in Placed : TRUE
      BY <2>4
    <3>2. Placed \subseteq Working
      BY DEF Placed, Working, Busy
    <3>3. Placed = {i}
      BY <2>2, <3>1, <3>2 DEF Run, OneHolder
    <3>4. starts # 0
      BY <2>2, <3>1, Started DEF Placed
    <3>5. Cardinality(Placed) = 1
      BY <3>3, FS_Singleton
    <3> QED
      BY <2>2, <3>4, <3>5
  <2> QED
    BY <2>3, <2>4
<1>2. Sound /\ (FirstRun => Run) => (starts <= 1 => OneCallPerStart)
  BY <1>1
<1> QED
  BY <1>2, RunInvariant, PTL

(* A campaign that is announced as completed has a result for every lead,     *)
(* though the completing patches use results that were read earlier          *)
(* (processTask, finalizeCall and the post-call pipeline).                  *)
THEOREM CompletionIsTrue == AutoDialSpec => []CompletedIsComplete
<1>1. Sound /\ (FirstRun => Run) => CompletedIsComplete
  BY DEF CompletedIsComplete, Run, Lease
<1> QED
  BY <1>1, RunInvariant, PTL

LEMMA SweepKeepsResults ==
  ASSUME Sound, Run, NEW s \in Schedulers, Sweep(s), task'.enabled
  PROVE  Pending(task'.results) \subseteq Pending(task.results)
<1> DEFINE snap == sched[s].snap
<1>1. /\ snap \in Task /\ snap.results \in Results /\ snap.lead \in Leads \union {NoLead}
      /\ sched[s].at = "finished" => calls[snap.sid].outcome \in Written
  BY SnapType
<1>2. task \in Task /\ task.results \in Results
  BY DEF Sound, TypeOK, Task
<1>3. ~GiveUp(s)
  BY DEF GiveUp, SnapKnown, Run
<1>4. ~RecordFinished(s)
  <2>1. SUFFICES ASSUME RecordFinished(s) PROVE FALSE
    OBVIOUS
  <2>2. PICK res : res = With(snap.results, snap.lead, calls[snap.sid].outcome)
    OBVIOUS
  <2>3. res \in Results
    BY <1>1, <2>1, <2>2, WithType DEF RecordFinished
  <2>4. task' = CallOver(task, res)
    BY <2>1, <2>2 DEF RecordFinished
  <2> QED
    BY <1>2, <2>3, <2>4, CallOverType
<1>5. CASE NotCallable(s)
  <2>1. Pending(snap.results) # {} /\ s \in Claimed
    BY <1>5 DEF NotCallable, Sound, SweepOK, Claimed
  <2>2. PICK l : l = NextLead(snap)
    OBVIOUS
  <2>3. PICK res : res = With(snap.results, l, "No Answer")
    OBVIOUS
  <2>4. res \in Results /\ Pending(res) = Pending(snap.results) \ {l}
    BY <1>1, <2>1, <2>2, <2>3, NextLeadType, WithType DEF Written
  <2>5. task' = Skipped(task, res)
    BY <1>5, <2>2, <2>3 DEF NotCallable
  <2>6. task'.results = res /\ task.enabled
    BY <1>2, <2>4, <2>5, SkippedType
  <2>7. Pending(snap.results) = Pending(task.results)
    BY <2>1, <2>6 DEF Run, Current, ClaimCurrent
  <2> QED
    BY <2>4, <2>6, <2>7
<1>6. CASE ~NotCallable(s)
  <2>1. task'.results = task.results
    BY <1>2, <1>3, <1>4, <1>6 DEF Sweep, Scan, LookUpCall, AwaitCallbacks, Complete, Claim,
                                  Unconfigured, Enqueue, Task
  <2> QED
    BY <2>1
<1> QED
  BY <1>5, <1>6

LEMMA CallKeepsResults ==
  ASSUME Sound, Run, NEW i \in DOMAIN calls, task'.enabled,
         JobStep(i) \/ CallStep(i) \/ WebhookRead(i) \/ WebhookPatch(i)
  PROVE  Pending(task'.results) \subseteq Pending(task.results)
<1>1. /\ calls[i] \in Call /\ CallOK(calls[i])
      /\ task.enabled => CallCurrent(task, i, calls[i])
  BY CallKnows
<1>2. task \in Task /\ task.results \in Results
  BY DEF Sound, TypeOK, Task
<1>3. ~MarkEnded(i) /\ ~RecordOutcome(i)
  <2>1. SUFFICES ASSUME MarkEnded(i) \/ RecordOutcome(i) PROVE FALSE
    OBVIOUS
  <2>2. PICK result \in Written : task' = CallOver(task, With(calls[i].seen, calls[i].lead, result))
    BY <1>1, <2>1 DEF MarkEnded, RecordOutcome, CallOK, Call, Written
  <2>3. PICK res : res = With(calls[i].seen, calls[i].lead, result)
    OBVIOUS
  <2>4. res \in Results
    BY <1>1, <2>3, WithType DEF Call
  <2> QED
    BY <1>2, <2>2, <2>3, <2>4, CallOverType
<1>4. CASE RecordRefusal(i)
  <2>1. PICK res : res = With(calls[i].read, calls[i].lead, "No Answer")
    OBVIOUS
  <2>2. res \in Results /\ Pending(res) = Pending(calls[i].read) \ {calls[i].lead}
    BY <1>1, <2>1, WithType DEF Call, Written
  <2>3. task' = Skipped(task, res) /\ calls[i].job = "failing"
    BY <1>4, <2>1 DEF RecordRefusal
  <2>4. task'.results = res /\ task.enabled
    BY <1>2, <2>2, <2>3, SkippedType
  <2>5. Pending(calls[i].read) = Pending(task.results)
    BY <1>1, <2>3, <2>4 DEF CallCurrent
  <2> QED
    BY <2>2, <2>4, <2>5
<1>5. CASE ~RecordRefusal(i)
  <2>1. task'.results = task.results
    BY <1>2, <1>3, <1>5
       DEF JobStep, CheckTask, SkipDial, PlaceCall, RefuseCall, Recheck, HangUpUnwanted,
           CommitCall, ReadForRefusal, PauseBlocked, CallStep, HangUp, MarkRead, WriteLog,
           RecordRead, FallbackLog, WebhookRead, WebhookPatch, Task
  <2> QED
    BY <2>1
<1> QED
  BY <1>4, <1>5

(* No step of a campaign that stays on makes a lead pending again that had a  *)
(* result, though handlePlaceDialJob and processTask patch the whole of       *)
(* call_results from rows they read earlier.                               *)
THEOREM ResultsAreKept == AutoDialSpec => ResultsKept
<1>1. ASSUME Sound, FirstRun => Run, [AutoDialNext]_vars
      PROVE  [task'.enabled /\ FirstRun' => Pending(task'.results) \subseteq Pending(task.results)]_vars
  <2>1. SUFFICES ASSUME AutoDialNext, task'.enabled, FirstRun'
                 PROVE  Pending(task'.results) \subseteq Pending(task.results)
    BY <1>1
  <2>2. Run /\ \A i \in DOMAIN calls : ~LoseAnswer(i) /\ ~LoseJob(i) /\ ~LoseLog(i)
    BY <1>1, <2>1, FirstRunEnds
  <2>3. CASE Start \/ StopRead \/ StopPatch \/ StopHangUp \/ DialTimeComes \/ ClaimAges
    <3>1. task \in Task
      BY <1>1 DEF Sound, TypeOK
    <3>2. task'.results = task.results
      BY <2>3, <3>1 DEF Start, StopRead, StopPatch, StopHangUp, DialTimeComes, ClaimAges, Task
    <3> QED
      BY <3>2
  <2> QED
    BY <1>1, <2>1, <2>2, <2>3, SweepKeepsResults, CallKeepsResults DEF AutoDialNext
<1>2. Sound /\ (FirstRun => Run) /\ [AutoDialNext]_vars
        => [task'.enabled /\ FirstRun' => Pending(task'.results) \subseteq Pending(task.results)]_vars
  BY <1>1
<1> QED
  BY <1>2, RunInvariant, PTL DEF AutoDialSpec, ResultsKept

==============================================================================
