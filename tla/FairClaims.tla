------------------------------- MODULE FairClaims -------------------------------
(***************************************************************************)
(* Whose event is claimed next: claimFairBatch of                           *)
(* adapters/jobs/worker.js over listReadyOrganizations and claimBatch of    *)
(* adapters/mysql/outboxStore.js.                                          *)
(*                                                                         *)
(* A tick lists the organizations that have something ready, in the order of *)
(* their ids and starting behind a cursor, and takes one event of each in    *)
(* turn until the batch is full. The cursor is a variable of the worker      *)
(* object: how long it lives is KeepsWorker. createBillingJobWorker is       *)
(* written for a worker that is ticked again and again (TRUE); the schedule  *)
(* billing-notification-outbox makes a new one for every tick (FALSE).      *)
(*                                                                         *)
(* Of the outbox only the number of claimable events of each organization is *)
(* kept: what becomes of a claim is OutboxDelivery's matter, and a failed or *)
(* abandoned one comes back as an arrival.                                  *)
(***************************************************************************)
EXTENDS Naturals, Sequences, FiniteSets, SequencesExt, FiniteSetsExt

CONSTANTS
  OrgCount,            \* organizations 1..OrgCount, in the order of their ids
  JobWorkers,
  TickSize,           \* batchSize
  MaxOrganizations,    \* maxOrganizations: length of a candidate page
  MaxPerOrganization,  \* maxPerOrganization: rounds over the page
  KeepsWorker,         \* the cursor outlives the tick
  MaxBacklog           \* bound: claimable events of an organization

ASSUME FairAssumption ==
  /\ OrgCount \in Nat \ {0}
  /\ MaxOrganizations \in Nat \ {0}
  /\ TickSize \in Nat \ {0}
  /\ MaxPerOrganization \in 1..TickSize
  /\ KeepsWorker \in BOOLEAN
  /\ MaxBacklog \in Nat \ {0}

Orgs == 1..OrgCount

VARIABLES
  backlog,     \* claimable events of each organization
  afterOrgId,  \* each worker's cursor, 0 for null
  phase,       \* "idle", "list" or "claim"
  orgIds,      \* the candidate page of the tick
  turn,        \* position in the page; with the next four, locals of the tick
  round,       \* pass over the page, from 1
  claimed,     \* the organizations of the tick's claims, in order
  progress,    \* madeProgress
  drained,     \* history: organizations whose turn of the tick found nothing
  missed,      \* history: organizations ready when the tick began, not served since
  waited       \* history: ticks of the worker that each organization was missed in,
               \* counted up to OrgCount

tick == <<orgIds, turn, round, claimed, progress, drained>>
fairVars == <<backlog, afterOrgId, phase, tick, missed, waited>>

FairInit ==
  /\ backlog \in [Orgs -> 0..MaxBacklog]
  /\ afterOrgId = [w \in JobWorkers |-> 0]
  /\ phase = [w \in JobWorkers |-> "idle"]
  /\ orgIds = [w \in JobWorkers |-> <<>>]
  /\ turn = [w \in JobWorkers |-> 1]
  /\ round = [w \in JobWorkers |-> 1]
  /\ claimed = [w \in JobWorkers |-> <<>>]
  /\ progress = [w \in JobWorkers |-> FALSE]
  /\ drained = [w \in JobWorkers |-> {}]
  /\ missed = [w \in JobWorkers |-> {}]
  /\ waited = [w \in JobWorkers |-> [o \in Orgs |-> 0]]

------------------------------------------------------------------------------
(* Events of o become claimable: enqueued, back from a failure, or their     *)
(* lease ended.                                                             *)
Arrive(o) ==
  /\ backlog[o] < MaxBacklog
  /\ backlog' = [backlog EXCEPT ![o] = @ + 1]
  /\ UNCHANGED <<afterOrgId, phase, tick, missed, waited>>

(* A worker of another process claims, whatever its cursor is. *)
ClaimedElsewhere(o) ==
  /\ backlog[o] > 0
  /\ backlog' = [backlog EXCEPT ![o] = @ - 1]
  /\ missed' = [w \in JobWorkers |-> missed[w] \ {o}]
  /\ waited' = [w \in JobWorkers |-> [waited[w] EXCEPT ![o] = 0]]
  /\ UNCHANGED <<afterOrgId, phase, tick>>

(* runOnce, of the same worker object or of a new one *)
RunOnce(w) ==
  /\ phase[w] = "idle"
  /\ phase' = [phase EXCEPT ![w] = "list"]
  /\ afterOrgId' = IF KeepsWorker THEN afterOrgId ELSE [afterOrgId EXCEPT ![w] = 0]
  /\ UNCHANGED <<backlog, tick, missed, waited>>

(* Mutant: org_id >= ? *)
Candidates_FromCursor(w) == {o \in Orgs : backlog[o] > 0 /\ o >= afterOrgId[w]}

Candidates(w) == {o \in Orgs : backlog[o] > 0 /\ o > afterOrgId[w]}

(* ORDER BY org_id LIMIT: the i-th organization has i - 1 of S before it.      *)
Page(S) ==
  [i \in 1..Min({MaxOrganizations, Cardinality(S)}) |->
     CHOOSE o \in S : Cardinality({p \in S : p < o}) = i - 1]

(* listReadyOrganizations found some. *)
ListOrganizations(w) ==
  /\ phase[w] = "list"
  /\ Candidates(w) # {}
  /\ orgIds' = [orgIds EXCEPT ![w] = Page(Candidates(w))]
  /\ phase' = [phase EXCEPT ![w] = "claim"]
  /\ missed' = [missed EXCEPT ![w] = {o \in Orgs : backlog[o] > 0}]
  /\ UNCHANGED <<backlog, afterOrgId, turn, round, claimed, progress, drained, waited>>

(* Nothing behind the cursor: listed again from the start. *)
WrapAround(w) ==
  /\ phase[w] = "list"
  /\ Candidates(w) = {} /\ afterOrgId[w] # 0
  /\ afterOrgId' = [afterOrgId EXCEPT ![w] = 0]
  /\ UNCHANGED <<backlog, phase, tick, missed, waited>>

NothingReady(w) ==
  /\ phase[w] = "list"
  /\ Candidates(w) = {} /\ afterOrgId[w] = 0
  /\ phase' = [phase EXCEPT ![w] = "idle"]
  /\ UNCHANGED <<backlog, afterOrgId, tick, missed, waited>>

------------------------------------------------------------------------------
(* limit of claimBatch *)
Limit(w) == Min({1, TickSize - Len(claimed[w])})

(* The rows that claimBatch gets for the organization at turn: none, if other *)
(* workers were faster.                                                     *)
RowsClaimed(w) == Min({Limit(w), backlog[orgIds[w][turn[w]]]})

BatchFull(cs) == Len(cs) >= TickSize

(* Mutant: the cursor is the end of the page. *)
CursorAfter_Page(cs, page) == Last(page)

(* afterOrgId at the end of the tick *)
CursorAfter(cs, page) == IF cs # <<>> THEN Last(cs) ELSE Last(page)

Done(w) ==
  \/ BatchFull(claimed[w])
  \/ turn[w] > Len(orgIds[w]) /\ (~progress[w] \/ round[w] = MaxPerOrganization)

(* claimBatch for the organization whose turn it is *)
ClaimTurn(w) ==
  LET o == orgIds[w][turn[w]]
      rows == RowsClaimed(w)
  IN
  /\ phase[w] = "claim" /\ ~Done(w)
  /\ turn[w] <= Len(orgIds[w])
  /\ backlog' = [backlog EXCEPT ![o] = @ - rows]
  /\ claimed' = [claimed EXCEPT ![w] = @ \o [i \in 1..rows |-> o]]
  /\ progress' = [progress EXCEPT ![w] = @ \/ rows > 0]
  /\ drained' = [drained EXCEPT ![w] = IF rows = 0 THEN @ \union {o} ELSE @]
  /\ turn' = [turn EXCEPT ![w] = @ + 1]
  /\ IF rows > 0
       THEN /\ missed' = [x \in JobWorkers |-> missed[x] \ {o}]
            /\ waited' = [x \in JobWorkers |-> [waited[x] EXCEPT ![o] = 0]]
       ELSE UNCHANGED <<missed, waited>>
  /\ UNCHANGED <<afterOrgId, phase, orgIds, round>>

NextRound(w) ==
  /\ phase[w] = "claim" /\ ~Done(w)
  /\ turn[w] > Len(orgIds[w])
  /\ turn' = [turn EXCEPT ![w] = 1]
  /\ round' = [round EXCEPT ![w] = @ + 1]
  /\ progress' = [progress EXCEPT ![w] = FALSE]
  /\ UNCHANGED <<backlog, afterOrgId, phase, orgIds, claimed, drained, missed, waited>>

(* The cursor moves and the batch is returned. *)
EndTick(w) ==
  /\ phase[w] = "claim" /\ Done(w)
  /\ afterOrgId' = [afterOrgId EXCEPT ![w] = CursorAfter(claimed[w], orgIds[w])]
  /\ phase' = [phase EXCEPT ![w] = "idle"]
  /\ waited' = [waited EXCEPT ![w] =
                 [o \in Orgs |-> IF o \in missed[w] THEN Min({OrgCount, @[o] + 1}) ELSE @[o]]]
  /\ orgIds' = [orgIds EXCEPT ![w] = <<>>]
  /\ turn' = [turn EXCEPT ![w] = 1]
  /\ round' = [round EXCEPT ![w] = 1]
  /\ claimed' = [claimed EXCEPT ![w] = <<>>]
  /\ progress' = [progress EXCEPT ![w] = FALSE]
  /\ drained' = [drained EXCEPT ![w] = {}]
  /\ UNCHANGED <<backlog, missed>>

------------------------------------------------------------------------------
TickStep(w) ==
  \/ RunOnce(w)
  \/ ListOrganizations(w)
  \/ WrapAround(w)
  \/ NothingReady(w)
  \/ ClaimTurn(w)
  \/ NextRound(w)
  \/ EndTick(w)

FairNext ==
  \/ \E o \in Orgs : Arrive(o) \/ ClaimedElsewhere(o)
  \/ \E w \in JobWorkers : TickStep(w)

(* The schedule keeps ticking and a tick goes on by itself; nothing is assumed *)
(* of arrivals.                                                             *)
FairSpec ==
  /\ FairInit /\ [][FairNext]_fairVars
  /\ \A w \in JobWorkers : WF_fairVars(TickStep(w))

------------------------------------------------------------------------------
(* Properties *)

(* Every variable has its type; pages and batches keep their limits.        *)
FairTypeOK ==
  /\ backlog \in [Orgs -> 0..MaxBacklog]
  /\ afterOrgId \in [JobWorkers -> 0..OrgCount]
  /\ phase \in [JobWorkers -> {"idle", "list", "claim"}]
  /\ {orgIds, claimed} \subseteq [JobWorkers -> Seq(Orgs)]
  /\ {turn, round} \subseteq [JobWorkers -> Nat \ {0}]
  /\ progress \in [JobWorkers -> BOOLEAN]
  /\ {drained, missed} \subseteq [JobWorkers -> SUBSET Orgs]
  /\ waited \in [JobWorkers -> [Orgs -> 0..OrgCount]]
  /\ \A w \in JobWorkers :
       /\ Len(orgIds[w]) <= MaxOrganizations /\ Len(claimed[w]) <= TickSize
       /\ turn[w] <= Len(orgIds[w]) + 1 /\ round[w] <= MaxPerOrganization

(* How much of the batch an organization has got. *)
Share(w, o) == Cardinality({i \in DOMAIN claimed[w] : claimed[w][i] = o})

(* No backlog monopolizes a batch: in a tick, an organization gets a second   *)
(* claim only when every other one of the page has had one or had nothing,   *)
(* a third when they had two, and so on.                                    *)
BoundedShare ==
  \A w \in JobWorkers : \A i, j \in DOMAIN orgIds[w] :
    Share(w, orgIds[w][i]) > Share(w, orgIds[w][j]) + 1 => orgIds[w][j] \in drained[w]

(* A worker that keeps its cursor passes an organization with something ready *)
(* at most OrgCount - 1 times in a row, however long the page, the batch and  *)
(* the backlogs of the others are, and whatever other workers claim.         *)
BoundedWait == \A w \in JobWorkers, o \in Orgs : waited[w][o] < OrgCount

(* The backlogs of some tenants do not starve another: an organization that   *)
(* had something ready when a tick began is served in that tick or a later   *)
(* one.                                                                    *)
EveryOrganizationServed ==
  \A w \in JobWorkers, o \in Orgs : o \in missed[w] ~> o \notin missed[w]

==============================================================================
