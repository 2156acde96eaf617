-------------------------- MODULE OutboxDeliveryProofs --------------------------
(***************************************************************************)
(* Proofs about OutboxDelivery for every set of events and workers, every    *)
(* batch size and every number of attempts, retries and faults: the types,   *)
(* one effect per event, the fencing of claims and the refinement of         *)
(* EventDelivery. And about FairClaims, for every number of organizations,   *)
(* length of a page, size of a batch and backlog: the types, and how long an  *)
(* organization waits and how much of a batch it gets.                       *)
(***************************************************************************)
EXTENDS OutboxDelivery, FairClaims, SumTheorems, SequenceTheorems, TLAPS

Busy == {"deliver", "handle", "ack", "fail", "reject"}

(* A worker that is past its claims has one to work on. *)
LEMMA CurrentClaim ==
  ASSUME TypeOK, NEW w \in Workers, stage[w] \in Busy
  PROVE  /\ claims[w] # <<>> /\ claims[w] \in Seq(Claim)
         /\ Current(w) \in Claim /\ Current(w) = claims[w][1]
         /\ 1 \in DOMAIN claims[w]
<1>1. claims[w] # <<>> /\ claims[w] \in Seq(Claim)
  BY DEF TypeOK, Busy
<1>2. Len(claims[w]) \in Nat /\ Len(claims[w]) >= 1
  BY <1>1, EmptySeq
<1> QED
  BY <1>1, <1>2, HeadTailProperties, ElementOfSeq DEF Current

(* The rest of the claims are claims that were there before. *)
LEMMA ClaimsTail ==
  ASSUME NEW s \in Seq(Claim), s # <<>>
  PROVE  /\ Tail(s) \in Seq(Claim)
         /\ Len(s) # 1 => Tail(s) # <<>>
         /\ \A i \in DOMAIN Tail(s) : i + 1 \in DOMAIN s /\ Tail(s)[i] = s[i + 1]
         /\ DOMAIN Tail(s) \subseteq Nat
<1>1. Tail(s) \in Seq(Claim) /\ Len(Tail(s)) = Len(s) - 1
  BY HeadTailProperties
<1>2. Len(s) \in Nat /\ DOMAIN s = 1..Len(s) /\ DOMAIN Tail(s) = 1..(Len(s) - 1)
  BY <1>1, LenProperties
<1>3. Len(s) # 1 => Tail(s) # <<>>
  <2> SUFFICES ASSUME Tail(s) = <<>> PROVE Len(s) = 1
    OBVIOUS
  <2>1. Len(Tail(s)) = 0
    BY EmptySeq
  <2> QED
    BY <2>1, <1>1, <1>2
<1>4. \A i \in DOMAIN Tail(s) : Tail(s)[i] = s[i + 1]
  BY <1>2
<1> QED
  BY <1>1, <1>2, <1>3, <1>4


------------------------------------------------------------------------------
(* Type correctness *)

LEMMA TypeInit == OutboxInit => TypeOK
<1> SUFFICES ASSUME OutboxInit PROVE TypeOK
  OBVIOUS
<1>1. <<>> \in Seq(Claim)
  BY EmptySeq
<1> QED
  BY <1>1, OutboxAssumption DEF OutboxInit, TypeOK, Row, Stages

(* Settling or skipping a claim keeps the types. *)
LEMMA NextClaimType ==
  ASSUME TypeOK, NEW w \in Workers, stage[w] \in Busy, NextClaim(w)
  PROVE  /\ stage' \in [Workers -> Stages]
         /\ claims' \in [Workers -> Seq(Claim)]
         /\ \A x \in Workers : stage'[x] \notin {"idle", "claim"} => claims'[x] # <<>>
         /\ retries' \in [Workers -> 0..MaxDeadlockRetries]
<1>1. claims[w] \in Seq(Claim) /\ claims[w] # <<>>
  BY CurrentClaim
<1>2. /\ Tail(claims[w]) \in Seq(Claim)
      /\ Len(claims[w]) # 1 => Tail(claims[w]) # <<>>
  BY <1>1, ClaimsTail
<1> QED
  BY <1>1, <1>2, OutboxAssumption DEF TypeOK, NextClaim, Stages

LEMMA TypeStep == TypeOK /\ [OutboxNext]_vars => TypeOK'
<1> SUFFICES ASSUME TypeOK, [OutboxNext]_vars PROVE TypeOK'
  OBVIOUS
<1> USE OutboxAssumption
<1>1. ASSUME NEW e \in Events, Enqueue(e) \/ BackoffEnds(e) \/ LeaseEnds(e)
      PROVE  TypeOK'
  <2>1. faults' \in 0..MaxFaults
    BY <1>1 DEF TypeOK, Enqueue, BackoffEnds, LeaseEnds, Fault
  <2>2. outbox[e] \in Row
    BY DEF TypeOK
  <2>3. PICK row : row \in Row /\ outbox' = [outbox EXCEPT ![e] = row]
    BY <1>1, <2>2 DEF Enqueue, BackoffEnds, LeaseEnds, Row
  <2>4. outbox' \in [Events -> Row]
    BY <2>3 DEF TypeOK
  <2> QED
    BY <1>1, <2>1, <2>4 DEF TypeOK, Enqueue, BackoffEnds, LeaseEnds
<1>2. ASSUME NEW w \in Workers, StartTick(w) \/ EndClaims(w)
      PROVE  TypeOK'
  BY <1>2 DEF TypeOK, StartTick, EndClaims, tables, Stages
<1>3. ASSUME NEW w \in Workers, NEW e \in Events, ClaimEvent(w, e)
      PROVE  TypeOK'
  <2> DEFINE c == [event |-> e, fence |-> outbox[e].fence + 1]
  <2>0. outbox[e] \in Row /\ claims[w] \in Seq(Claim)
    BY DEF TypeOK
  <2>1. outbox' \in [Events -> Row]
    <3>1. Leased(e, outbox[e].fence + 1) \in Row
      BY <2>0 DEF Leased, Row
    <3> QED
      BY <1>3, <3>1 DEF ClaimEvent, TypeOK
  <2>2. c \in Claim /\ claims[w] \in Seq(Claim)
    BY <2>0 DEF Claim, Row
  <2>3. Append(claims[w], c) \in Seq(Claim)
    BY <2>2, AppendProperties
  <2>4. claims' = [claims EXCEPT ![w] = Append(claims[w], c)]
    BY <1>3 DEF ClaimEvent, TypeOK
  <2> QED
    BY <1>3, <2>1, <2>3, <2>4 DEF TypeOK, ClaimEvent
<1>4. ASSUME NEW w \in Workers,
             Unsupported(w) \/ Duplicate(w) \/ StartHandler(w)
      PROVE  TypeOK'
  <2>1. stage[w] = "deliver" /\ claims[w] # <<>>
    BY <1>4 DEF Unsupported, Duplicate, StartHandler, TypeOK
  <2>2. rowLock' \in [Events -> Workers \union {NoOne}]
    BY <1>4 DEF Unsupported, Duplicate, StartHandler, TypeOK
  <2>3. /\ stage' \in [Workers -> Stages]
        /\ \A x \in Workers : stage'[x] \notin {"idle", "claim"} => claims'[x] # <<>>
    BY <1>4, <2>1 DEF Unsupported, Duplicate, StartHandler, TypeOK, Stages
  <2> QED
    BY <1>4, <2>2, <2>3 DEF TypeOK, Unsupported, Duplicate, StartHandler, tables
<1>5. ASSUME NEW w \in Workers,
             HandlerCommits(w) \/ CommitAckLost(w) \/ DeliveryFails(w) \/ Deadlock(w)
      PROVE  TypeOK'
  <2>1. Current(w).event \in Events
    BY <1>5, CurrentClaim
    DEF HandlerCommits, CommitAckLost, DeliveryFails, Deadlock, Busy, Claim
  <2>2. inbox' \in SUBSET Events /\ effects' \in [Events -> Nat]
    <3>1. CASE HandlerCommits(w) \/ CommitAckLost(w)
      <4>1. Publish(w)
        BY <3>1 DEF HandlerCommits, CommitAckLost
      <4> QED
        BY <2>1, <4>1 DEF TypeOK, Publish
    <3>2. CASE DeliveryFails(w) \/ Deadlock(w)
      BY <3>2 DEF TypeOK, DeliveryFails, Deadlock, tables
    <3> QED
      BY <1>5, <3>1, <3>2
  <2>3. rowLock' \in [Events -> Workers \union {NoOne}]
    BY <1>5
    DEF TypeOK, HandlerCommits, CommitAckLost, DeliveryFails, Deadlock, Publish, Unlock
  <2>4. retries' \in [Workers -> 0..MaxDeadlockRetries]
    <3>1. CASE Deadlock(w)
      BY <3>1 DEF TypeOK, Deadlock
    <3>2. CASE retries' = retries
      BY <3>2 DEF TypeOK
    <3> QED
      BY <1>5, <3>1, <3>2 DEF HandlerCommits, CommitAckLost, DeliveryFails
  <2> QED
    BY <1>5, <2>2, <2>3, <2>4
    DEF TypeOK, HandlerCommits, CommitAckLost, DeliveryFails, Deadlock, tables, Stages
<1>6. ASSUME NEW w \in Workers, Ack(w) \/ Fail(w) \/ Reject(w)
      PROVE  TypeOK'
  <2>1. PICK status \in {"completed", "dead_letter", "pending"} :
          stage[w] \in {"ack", "fail", "reject"} /\ Settle(w, status)
    BY <1>6 DEF Ack, Fail, Reject
  <2>2. stage[w] \in Busy /\ NextClaim(w)
    BY <2>1 DEF Busy, Settle
  <2>3. outbox' \in [Events -> Row]
    <3>1. outbox[Current(w).event] \in Row
      BY <2>2, CurrentClaim DEF TypeOK, Claim
    <3>2. PICK row : row \in Row /\ outbox' = [outbox EXCEPT ![Current(w).event] = row]
      BY <2>1, <3>1 DEF Settle, Row
    <3> QED
      BY <3>2 DEF TypeOK
  <2> QED
    BY <2>1, <2>2, <2>3, NextClaimType DEF TypeOK, Settle
<1>7. ASSUME NEW w \in Workers, SettleRefused(w) \/ SettleLost(w)
      PROVE  TypeOK'
  <2>1. stage[w] \in Busy /\ NextClaim(w)
    BY <1>7 DEF Busy, SettleRefused, SettleLost
  <2>2. faults' \in 0..MaxFaults
    BY <1>7 DEF TypeOK, SettleRefused, SettleLost, Fault
  <2> QED
    BY <1>7, <2>1, <2>2, NextClaimType DEF TypeOK, SettleRefused, SettleLost, tables
<1>8. ASSUME NEW w \in Workers, Crash(w)
      PROVE  TypeOK'
  <2>1. <<>> \in Seq(Claim)
    BY EmptySeq
  <2> QED
    BY <1>8, <2>1 DEF TypeOK, Crash, Fault, Unlock, tables, Stages
<1>9. CASE UNCHANGED vars
  BY <1>9 DEF TypeOK, vars
<1> QED
  BY <1>1, <1>2, <1>3, <1>4, <1>5, <1>6, <1>7, <1>8, <1>9
  DEF OutboxNext, WorkerStep, Elapse

(* Every variable keeps its type, and a worker that delivers or settles has a *)
(* claim to do it for.                                                      *)
THEOREM OutboxTypeCorrect == OutboxSpec => []TypeOK
  BY TypeInit, TypeStep, PTL DEF OutboxSpec


------------------------------------------------------------------------------
(* One effect per event *)

(* A transaction that has an event's inbox row runs the handler of that very  *)
(* event, which nobody has processed yet.                                   *)
Locks ==
  /\ \A e \in Events :
       rowLock[e] # NoOne => stage[rowLock[e]] = "handle" /\ Current(rowLock[e]).event = e
  /\ \A w \in Workers :
       stage[w] = "handle" => /\ rowLock[Current(w).event] = w
                              /\ Current(w).event \notin inbox

(* What is acknowledged, or about to be, is processed. *)
Handled ==
  /\ \A w \in Workers : stage[w] = "ack" => Current(w).event \in inbox
  /\ \A e \in Events : outbox[e].status = "completed" => e \in inbox

(* Only events that were produced are claimed. *)
Produced ==
  \A w \in Workers : \A i \in DOMAIN claims[w] :
    outbox[claims[w][i].event].status # "absent"

OInv == TypeOK /\ Locks /\ Handled /\ Produced /\ OncePerEvent

LEMMA OInvInit == OutboxInit => OInv
<1> SUFFICES ASSUME OutboxInit PROVE OInv
  OBVIOUS
<1>1. TypeOK
  BY TypeInit
<1> QED
  BY <1>1 DEF OInv, OutboxInit, Locks, Handled, Produced, OncePerEvent

(* A step that works neither on the inbox nor on a lock, nor makes a claim,   *)
(* keeps the invariant if it leaves the others' claims and stages alone and  *)
(* acknowledges only what is processed.                                     *)
LEMMA QuietStep ==
  ASSUME OInv, TypeOK', NEW w \in Workers,
         UNCHANGED <<inbox, effects, rowLock>>,
         stage[w] # "handle", stage'[w] # "handle",
         \A x \in Workers \ {w} : stage'[x] = stage[x] /\ claims'[x] = claims[x],
         stage'[w] = "ack" => Current(w)'.event \in inbox,
         \A e \in Events : outbox'[e].status = "absent" => outbox[e].status = "absent",
         \A e \in Events : outbox'[e].status = "completed" => e \in inbox,
         \A i \in DOMAIN claims'[w] : outbox[claims'[w][i].event].status # "absent"
  PROVE  OInv'
<1>1. \A x \in Workers \ {w} : Current(x)' = Current(x)
  BY DEF Current
<1>2. Locks'
  <2>1. ASSUME NEW e \in Events, rowLock'[e] # NoOne
        PROVE  stage'[rowLock[e]] = "handle" /\ (Current(rowLock[e])').event = e
    <3>1. rowLock[e] \in Workers \ {w}
      BY <2>1 DEF OInv, TypeOK, Locks
    <3> QED
      BY <1>1, <2>1, <3>1 DEF OInv, Locks
  <2>2. ASSUME NEW x \in Workers, stage'[x] = "handle"
        PROVE  rowLock'[(Current(x)').event] = x /\ (Current(x)').event \notin inbox'
    BY <1>1, <2>2 DEF OInv, Locks
  <2> QED
    BY <2>1, <2>2 DEF Locks, Current
<1>3. Handled'
  BY <1>1 DEF OInv, Handled, Current
<1>4. Produced'
  <2>1. ASSUME NEW x \in Workers, NEW i \in DOMAIN claims'[x]
        PROVE  claims'[x][i].event \in Events
    <3>1. claims'[x] \in Seq(Claim)
      BY DEF TypeOK
    <3>2. claims'[x][i] \in Claim
      BY <3>1, LenProperties
    <3> QED
      BY <3>2 DEF Claim
  <2> QED
    BY <2>1 DEF OInv, Produced
<1>5. OncePerEvent'
  BY DEF OInv, OncePerEvent
<1> QED
  BY <1>2, <1>3, <1>4, <1>5 DEF OInv


(* The end of a transaction of w: its lock, if it has one, is released, and   *)
(* the others' stay.                                                        *)
LEMMA UnlockLocks ==
  ASSUME OInv, NEW w \in Workers, Unlock(w), stage'[w] # "handle",
         \A x \in Workers \ {w} : stage'[x] = stage[x] /\ claims'[x] = claims[x],
         \A x \in Workers \ {w} : stage[x] = "handle" => Current(x).event \notin inbox'
  PROVE  Locks'
<1>1. \A x \in Workers \ {w} : Current(x)' = Current(x)
  BY DEF Current
<1>2. ASSUME NEW e \in Events, rowLock'[e] # NoOne
      PROVE  stage'[rowLock'[e]] = "handle" /\ Head(claims'[rowLock'[e]]).event = e
  <2>1. rowLock'[e] = rowLock[e] /\ rowLock[e] # w
    BY <1>2 DEF Unlock
  <2>2. rowLock[e] \in Workers \ {w}
    BY <1>2, <2>1 DEF OInv, TypeOK
  <2> QED
    BY <1>1, <1>2, <2>1, <2>2 DEF OInv, Locks, Current
<1>3. ASSUME NEW x \in Workers, stage'[x] = "handle"
      PROVE  rowLock'[(Current(x)').event] = x /\ (Current(x)').event \notin inbox'
  <2>1. x # w /\ stage[x] = "handle" /\ Current(x)' = Current(x)
    BY <1>1, <1>3
  <2>2. Current(x).event \in Events
    BY <2>1, CurrentClaim DEF OInv, Busy, Claim
  <2>3. rowLock'[Current(x).event] = x
    BY <2>1, <2>2 DEF OInv, Locks, Unlock
  <2> QED
    BY <2>1, <2>3
<1> QED
  BY <1>2, <1>3 DEF Locks, Current

(* The handler's transaction commits: nobody else is at the same event.      *)
LEMMA PublishStep ==
  ASSUME OInv, TypeOK', NEW w \in Workers, stage[w] = "handle", Publish(w),
         stage'[w] \in {"ack", "fail"}, UNCHANGED <<outbox, claims>>,
         \A x \in Workers \ {w} : stage'[x] = stage[x]
  PROVE  OInv'
<1> DEFINE e == Current(w).event
<1>1. e \in Events /\ rowLock[e] = w /\ e \notin inbox
  BY CurrentClaim DEF OInv, Locks, Busy, Claim
<1>2. inbox' = inbox \union {e} /\ effects' = [effects EXCEPT ![e] = @ + 1] /\ Unlock(w)
  BY DEF Publish
<1>3. \A x \in Workers : Current(x)' = Current(x)
  BY DEF Current
<1>4. Locks'
  <2>1. \A x \in Workers \ {w} : stage[x] = "handle" => Current(x).event \notin inbox'
    BY <1>1, <1>2 DEF OInv, Locks
  <2> QED
    BY <1>2, <2>1, UnlockLocks
<1>5. Handled'
  BY <1>2, <1>3 DEF OInv, Handled, Current
<1>6. Produced'
  BY DEF OInv, Produced
<1>7. OncePerEvent'
  BY <1>1, <1>2 DEF OInv, OncePerEvent, TypeOK
<1> QED
  BY <1>4, <1>5, <1>6, <1>7 DEF OInv

(* A worker that lets go of a transaction without publishing. *)
LEMMA RollbackStep ==
  ASSUME OInv, TypeOK', NEW w \in Workers, Unlock(w), UNCHANGED tables,
         stage'[w] \in {"idle", "deliver", "fail"},
         claims' \in {claims, [claims EXCEPT ![w] = <<>>]},
         \A x \in Workers \ {w} : stage'[x] = stage[x]
  PROVE  OInv'
<1>1. \A x \in Workers \ {w} : claims'[x] = claims[x] /\ Current(x)' = Current(x)
  BY DEF Current, OInv, TypeOK
<1>2. outbox' = outbox /\ inbox' = inbox /\ effects' = effects
  BY DEF tables
<1>3. Locks'
  BY <1>1, <1>2, UnlockLocks DEF OInv, Locks
<1>4. Handled'
  BY <1>1, <1>2 DEF OInv, Handled, Current
<1>5. Produced'
  <2>1. CASE claims' = claims
    BY <1>2, <2>1 DEF OInv, Produced
  <2>2. CASE claims' = [claims EXCEPT ![w] = <<>>]
    <3>1. claims'[w] = <<>> /\ DOMAIN claims'[w] = {}
      BY <2>2 DEF OInv, TypeOK
    <3> QED
      BY <1>1, <1>2, <3>1 DEF OInv, Produced
  <2> QED
    BY <2>1, <2>2
<1>6. OncePerEvent'
  BY <1>2 DEF OInv, OncePerEvent
<1> QED
  BY <1>3, <1>4, <1>5, <1>6 DEF OInv

(* The lease is settled, refused or lost, and the next claim is taken.       *)
LEMMA NextClaimStep ==
  ASSUME OInv, TypeOK', NEW w \in Workers, NextClaim(w),
         stage[w] \in {"ack", "fail", "reject"},
         UNCHANGED <<inbox, effects, rowLock>>,
         \A e \in Events : outbox'[e].status = "absent" => outbox[e].status = "absent",
         \A e \in Events : outbox'[e].status = "completed" => e \in inbox
  PROVE  OInv'
<1>1. claims[w] \in Seq(Claim) /\ claims[w] # <<>>
  BY CurrentClaim DEF OInv, Busy
<1>2. claims'[w] = Tail(claims[w]) /\ stage'[w] \in {"idle", "deliver"}
  BY DEF NextClaim, OInv, TypeOK
<1>3. \A x \in Workers \ {w} : stage'[x] = stage[x] /\ claims'[x] = claims[x]
  BY DEF NextClaim, OInv, TypeOK
<1>4. \A i \in DOMAIN claims'[w] : outbox[claims'[w][i].event].status # "absent"
  BY <1>1, <1>2, ClaimsTail DEF OInv, Produced
<1> QED
  BY <1>2, <1>3, <1>4, QuietStep


LEMMA OInvStep == OInv /\ [OutboxNext]_vars => OInv'
<1> SUFFICES ASSUME OInv, [OutboxNext]_vars PROVE OInv'
  OBVIOUS
<1>0. TypeOK /\ TypeOK'
  BY TypeStep DEF OInv
<1>1. ASSUME NEW e \in Events, Enqueue(e) \/ BackoffEnds(e) \/ LeaseEnds(e)
      PROVE  OInv'
  <2>1. UNCHANGED <<inbox, effects, rowLock, stage, claims>>
    BY <1>1 DEF Enqueue, BackoffEnds, LeaseEnds
  <2>2. \A f \in Events :
          /\ outbox'[f].status = "absent" => outbox[f].status = "absent"
          /\ outbox'[f].status = "completed" => outbox[f].status = "completed"
    <3>1. outbox \in [Events -> Row] /\ outbox[e] \in Row
      BY <1>0 DEF TypeOK
    <3>2. outbox'[e].status \in {"pending", outbox[e].status}
      BY ZenonT(60), <1>1, <3>1 DEF Enqueue, BackoffEnds, LeaseEnds, Row
    <3>3. \A f \in Events \ {e} : outbox'[f] = outbox[f]
      BY <1>1, <3>1 DEF Enqueue, BackoffEnds, LeaseEnds
    <3> QED
      BY <3>2, <3>3
  <2>3. Locks' /\ OncePerEvent' /\ Handled'
    BY <2>1, <2>2 DEF OInv, Locks, OncePerEvent, Handled, Current
  <2>4. Produced'
    <3>1. ASSUME NEW w \in Workers, NEW i \in DOMAIN claims[w]
          PROVE  claims[w][i].event \in Events
      <4>1. claims[w] \in Seq(Claim)
        BY <1>0 DEF TypeOK
      <4>2. claims[w][i] \in Claim
        BY <4>1, LenProperties
      <4> QED
        BY <4>2 DEF Claim
    <3> QED
      BY <2>1, <2>2, <3>1 DEF OInv, Produced
  <2> QED
    BY <1>0, <2>3, <2>4 DEF OInv
<1>2. ASSUME NEW w \in Workers,
             StartTick(w) \/ EndClaims(w) \/ Unsupported(w) \/ Duplicate(w)
      PROVE  OInv'
  <2>1. /\ UNCHANGED <<outbox, inbox, effects, rowLock, claims>>
        /\ stage[w] # "handle" /\ stage'[w] # "handle"
        /\ \A x \in Workers \ {w} : stage'[x] = stage[x]
    BY <1>0, <1>2 DEF StartTick, EndClaims, Unsupported, Duplicate, tables, TypeOK
  <2>2. stage'[w] = "ack" => Current(w).event \in inbox
    BY <1>0, <1>2 DEF StartTick, EndClaims, Unsupported, Duplicate, TypeOK
  <2>3. Current(w)' = Current(w)
    BY <2>1 DEF Current
  <2> QED
    BY <1>0, <2>1, <2>2, <2>3, QuietStep DEF OInv, Handled, Produced
<1>3. ASSUME NEW w \in Workers, NEW e \in Events, ClaimEvent(w, e)
      PROVE  OInv'
  <2> DEFINE c == [event |-> e, fence |-> outbox[e].fence + 1]
  <2>1. /\ UNCHANGED <<inbox, effects, rowLock, stage>>
        /\ stage[w] = "claim" /\ Claimable(e)
        /\ \A x \in Workers \ {w} : claims'[x] = claims[x]
    BY <1>0, <1>3 DEF ClaimEvent, TypeOK
  <2>2. outbox' = [outbox EXCEPT ![e] = Leased(e, outbox[e].fence + 1)]
    BY <1>3 DEF ClaimEvent
  <2>3. \A f \in Events :
          /\ outbox'[f].status = "absent" => outbox[f].status = "absent"
          /\ outbox'[f].status = "completed" => f \in inbox
    BY <1>0, <2>2 DEF TypeOK, Leased, OInv, Handled
  <2>4. c \in Claim
    <3>1. outbox[e] \in Row
      BY <1>0 DEF TypeOK
    <3> QED
      BY <3>1 DEF Row, Claim
  <2>5. claims[w] \in Seq(Claim) /\ claims'[w] = Append(claims[w], c)
    BY <1>0, <1>3 DEF ClaimEvent, TypeOK
  <2>6. \A i \in DOMAIN claims'[w] : outbox[claims'[w][i].event].status # "absent"
    <3>1. /\ DOMAIN claims[w] = 1..Len(claims[w])
          /\ DOMAIN claims'[w] = 1..Len(claims[w]) + 1
          /\ Len(claims[w]) \in Nat
          /\ \A i \in 1..Len(claims[w]) : claims'[w][i] = claims[w][i]
          /\ claims'[w][Len(claims[w]) + 1] = c
      BY <2>4, <2>5, AppendProperties, LenProperties
    <3>2. outbox[e].status # "absent"
      BY <2>1 DEF Claimable
    <3> QED
      BY <3>1, <3>2 DEF OInv, Produced
  <2> QED
    BY <1>0, <2>1, <2>3, <2>6, QuietStep
<1>4. ASSUME NEW w \in Workers, StartHandler(w)
      PROVE  OInv'
  <2> DEFINE e == Current(w).event
  <2>1. e \in Events
    BY <1>0, <1>4, CurrentClaim DEF StartHandler, Busy, Claim
  <2>2. /\ UNCHANGED <<outbox, inbox, effects, claims>>
        /\ rowLock[e] = NoOne /\ e \notin inbox /\ stage[w] = "deliver"
        /\ rowLock' = [rowLock EXCEPT ![e] = w]
        /\ stage' = [stage EXCEPT ![w] = "handle"]
    BY <1>4 DEF StartHandler, tables
  <2>3. \A x \in Workers : Current(x)' = Current(x)
    BY <2>2 DEF Current
  <2>4. Locks'
    <3>1. ASSUME NEW f \in Events, rowLock'[f] # NoOne
          PROVE  stage'[rowLock'[f]] = "handle" /\ Head(claims'[rowLock'[f]]).event = f
      <4>1. CASE f = e
        BY <1>0, <2>1, <2>2, <4>1 DEF TypeOK, Current
      <4>2. CASE f # e
        <5>1. rowLock'[f] = rowLock[f] /\ rowLock[f] \in Workers
          BY <1>0, <2>1, <2>2, <3>1, <4>2 DEF TypeOK
        <5> QED
          BY <1>0, <2>2, <3>1, <5>1 DEF OInv, Locks, Current, TypeOK
      <4> QED
        BY <4>1, <4>2
    <3>2. ASSUME NEW x \in Workers, stage'[x] = "handle"
          PROVE  rowLock'[Current(x).event] = x /\ Current(x).event \notin inbox
      <4>1. CASE x = w
        BY <1>0, <2>1, <2>2, <4>1 DEF TypeOK
      <4>2. CASE x # w
        <5>1. stage[x] = "handle" /\ rowLock[Current(x).event] = x
              /\ Current(x).event \notin inbox
          BY <1>0, <2>2, <3>2, <4>2 DEF OInv, Locks, TypeOK
        <5>2. Current(x).event # e
          BY <2>2, <5>1, OutboxAssumption
        <5> QED
          BY <1>0, <2>1, <2>2, <5>1, <5>2 DEF TypeOK
      <4> QED
        BY <4>1, <4>2
    <3> QED
      BY <2>2, <2>3, <3>1, <3>2 DEF Locks, Current
  <2>5. Handled' /\ Produced' /\ OncePerEvent'
    BY <1>0, <2>2, <2>3 DEF OInv, Handled, Produced, OncePerEvent, TypeOK
  <2> QED
    BY <1>0, <2>4, <2>5 DEF OInv
<1>5. ASSUME NEW w \in Workers, HandlerCommits(w) \/ CommitAckLost(w)
      PROVE  OInv'
  <2>1. /\ stage[w] = "handle" /\ Publish(w) /\ UNCHANGED <<outbox, claims>>
        /\ stage'[w] \in {"ack", "fail"}
        /\ \A x \in Workers \ {w} : stage'[x] = stage[x]
    BY <1>0, <1>5 DEF HandlerCommits, CommitAckLost, TypeOK
  <2> QED
    BY <1>0, <2>1, PublishStep
<1>6. ASSUME NEW w \in Workers, DeliveryFails(w) \/ Deadlock(w) \/ Crash(w)
      PROVE  OInv'
  <2>1. /\ Unlock(w) /\ UNCHANGED tables
        /\ stage'[w] \in {"idle", "deliver", "fail"}
        /\ claims' \in {claims, [claims EXCEPT ![w] = <<>>]}
        /\ \A x \in Workers \ {w} : stage'[x] = stage[x]
    BY <1>0, <1>6 DEF DeliveryFails, Deadlock, Crash, TypeOK
  <2> QED
    BY <1>0, <2>1, RollbackStep
<1>7. ASSUME NEW w \in Workers, Ack(w) \/ Fail(w) \/ Reject(w)
      PROVE  OInv'
  <2> DEFINE e == Current(w).event
  <2>1. PICK status \in {"completed", "dead_letter", "pending"} :
          /\ stage[w] \in {"ack", "fail", "reject"} /\ Settle(w, status)
          /\ status = "completed" => stage[w] = "ack"
    BY <1>7 DEF Ack, Fail, Reject
  <2>2. /\ NextClaim(w) /\ UNCHANGED <<inbox, effects, rowLock>>
        /\ outbox' = [outbox EXCEPT ![e] = [@ EXCEPT !.status = status]]
    BY <2>1 DEF Settle
  <2>3. e \in Events /\ outbox[e] \in Row /\ outbox \in [Events -> Row]
    BY <1>0, <2>1, CurrentClaim DEF Busy, Claim, TypeOK
  <2>4. \A f \in Events :
          outbox'[f].status = IF f = e THEN status ELSE outbox[f].status
    BY <2>2, <2>3 DEF Row
  <2>5. \A f \in Events : outbox'[f].status = "completed" => f \in inbox
    BY <2>1, <2>4 DEF OInv, Handled
  <2> QED
    BY <1>0, <2>1, <2>2, <2>4, <2>5, NextClaimStep
<1>8. ASSUME NEW w \in Workers, SettleRefused(w) \/ SettleLost(w)
      PROVE  OInv'
  <2>1. /\ stage[w] \in {"ack", "fail", "reject"} /\ NextClaim(w)
        /\ UNCHANGED <<outbox, inbox, effects, rowLock>>
    BY <1>8 DEF SettleRefused, SettleLost, tables
  <2> QED
    BY <1>0, <2>1, NextClaimStep DEF OInv, Handled
<1>9. CASE UNCHANGED vars
  BY <1>0, <1>9 DEF vars, OInv, Locks, Handled, Produced, OncePerEvent, Current
<1> QED
  BY <1>1, <1>2, <1>3, <1>4, <1>5, <1>6, <1>7, <1>8, <1>9
  DEF OutboxNext, WorkerStep, Elapse

LEMMA OInvariance == OutboxSpec => []OInv
  BY OInvInit, OInvStep, PTL DEF OutboxSpec

(* A handler's transactional effects happen exactly as often as its event is  *)
(* in the inbox, once: for any number of workers, deliveries and crashes.    *)
THEOREM EffectsHappenOnce == OutboxSpec => []OncePerEvent
<1>1. OInv => OncePerEvent
  BY DEF OInv
<1> QED
  BY <1>1, OInvariance, PTL


------------------------------------------------------------------------------
(* Fencing *)

(* The steps that make no claim keep a part of each worker's claims, in their *)
(* order, and no row's token changes.                                       *)
LEMMA ClaimsOnlyLeave ==
  ASSUME TypeOK, ClaimsAreFenced,
         \A e \in Events : outbox'[e].fence = outbox[e].fence,
         \A w \in Workers : \/ claims'[w] = claims[w]
                            \/ claims'[w] = <<>>
                            \/ claims[w] # <<>> /\ claims'[w] = Tail(claims[w])
  PROVE  ClaimsAreFenced'
<1>1. ASSUME NEW w \in Workers
      PROVE  \E k \in {0, 1} : \A i \in DOMAIN claims'[w] :
               /\ i \in Nat /\ i + k \in DOMAIN claims[w]
               /\ claims'[w][i] = claims[w][i + k]
  <2>1. claims[w] \in Seq(Claim) /\ DOMAIN claims[w] \subseteq Nat
    <3>1. claims[w] \in Seq(Claim)
      BY DEF TypeOK
    <3>2. DOMAIN claims[w] = 1..Len(claims[w]) /\ Len(claims[w]) \in Nat
      BY <3>1, LenProperties
    <3> QED
      BY <3>1, <3>2
  <2>2. CASE claims'[w] = claims[w]
    <3>1. \A i \in DOMAIN claims'[w] : i \in Nat /\ i + 0 = i
      BY <2>1, <2>2
    <3> QED
      BY <2>2, <3>1
  <2>3. CASE claims'[w] = <<>>
    <3>1. DOMAIN claims'[w] = {}
      BY <2>3
    <3> QED
      BY <3>1
  <2>4. CASE claims[w] # <<>> /\ claims'[w] = Tail(claims[w])
    BY <2>1, <2>4, ClaimsTail
  <2> QED
    BY <2>2, <2>3, <2>4
<1>2. ASSUME NEW w \in Workers, NEW i \in DOMAIN claims[w]
      PROVE  claims[w][i] \in Claim /\ claims[w][i].event \in Events
  <2>1. claims[w] \in Seq(Claim)
    BY DEF TypeOK
  <2>2. claims[w][i] \in Claim
    BY <2>1, LenProperties
  <2> QED
    BY <2>2 DEF Claim
<1>3. ASSUME NEW w \in Workers, NEW x \in Workers,
             NEW i \in DOMAIN claims'[w], NEW j \in DOMAIN claims'[x]
      PROVE  /\ claims'[w][i].fence <= outbox'[claims'[w][i].event].fence
             /\ claims'[w][i] = claims'[x][j] => w = x /\ i = j
  <2>1. PICK k \in {0, 1} : \A n \in DOMAIN claims'[w] :
               /\ n \in Nat /\ n + k \in DOMAIN claims[w]
               /\ claims'[w][n] = claims[w][n + k]
    BY <1>1
  <2>2. PICK l \in {0, 1} : \A n \in DOMAIN claims'[x] :
               /\ n \in Nat /\ n + l \in DOMAIN claims[x]
               /\ claims'[x][n] = claims[x][n + l]
               /\ w = x => l = k
    BY <1>1, <2>1
  <2>3. /\ claims[w][i + k].fence <= outbox[claims[w][i + k].event].fence
        /\ claims[w][i + k] = claims[x][j + l] => w = x /\ i + k = j + l
    BY <2>1, <2>2 DEF ClaimsAreFenced
  <2>4. claims[w][i + k].event \in Events
    BY <1>2, <2>1
  <2> QED
    BY <2>1, <2>2, <2>3, <2>4
<1> QED
  BY <1>3 DEF ClaimsAreFenced

LEMMA FencedStep == TypeOK /\ ClaimsAreFenced /\ [OutboxNext]_vars => ClaimsAreFenced'
<1> SUFFICES ASSUME TypeOK, ClaimsAreFenced, [OutboxNext]_vars PROVE ClaimsAreFenced'
  OBVIOUS
<1>1. ASSUME NEW w \in Workers, NEW e \in Events, ClaimEvent(w, e)
      PROVE  ClaimsAreFenced'
  <2> DEFINE c == [event |-> e, fence |-> outbox[e].fence + 1]
  <2>1. outbox[e] \in Row /\ outbox[e].fence \in Nat /\ c \in Claim
    BY DEF TypeOK, Row, Claim
  <2>2. /\ outbox'[e].fence = outbox[e].fence + 1
        /\ \A f \in Events \ {e} : outbox'[f] = outbox[f]
        /\ \A f \in Events : outbox[f].fence \in Nat
    BY <1>1 DEF ClaimEvent, Leased, TypeOK, Row
  <2>3. /\ claims'[w] = Append(claims[w], c) /\ claims[w] \in Seq(Claim)
        /\ \A x \in Workers \ {w} : claims'[x] = claims[x]
    BY <1>1 DEF ClaimEvent, TypeOK
  <2>4. /\ DOMAIN claims[w] = 1..Len(claims[w]) /\ Len(claims[w]) \in Nat
        /\ DOMAIN claims'[w] = 1..Len(claims[w]) + 1
        /\ \A i \in 1..Len(claims[w]) : claims'[w][i] = claims[w][i]
        /\ claims'[w][Len(claims[w]) + 1] = c
    BY <2>1, <2>3, AppendProperties, LenProperties
  <2>5. ASSUME NEW x \in Workers, NEW i \in DOMAIN claims[x]
        PROVE  /\ claims[x][i] \in Claim
               /\ claims[x][i] # c
               /\ claims[x][i].fence <= outbox'[claims[x][i].event].fence
    <3>1. claims[x] \in Seq(Claim)
      BY DEF TypeOK
    <3>2. claims[x][i] \in Claim
      BY <3>1, LenProperties
    <3>3. claims[x][i].fence <= outbox[claims[x][i].event].fence
      BY DEF ClaimsAreFenced
    <3>4. claims[x][i].fence \in Nat /\ claims[x][i].event \in Events
      BY <3>2 DEF Claim
    <3>5. claims[x][i].event = e => claims[x][i].fence <= outbox[e].fence
      BY <3>3
    <3>6. claims[x][i] # c
      BY <2>1, <3>4, <3>5
    <3>7. claims[x][i].fence <= outbox'[claims[x][i].event].fence
      BY <2>1, <2>2, <3>3, <3>4, <3>5
    <3> QED
      BY <3>2, <3>6, <3>7
  <2>6. ASSUME NEW x \in Workers, NEW i \in DOMAIN claims'[x]
        PROVE  \/ x = w /\ i = Len(claims[w]) + 1 /\ claims'[x][i] = c
               \/ i \in DOMAIN claims[x] /\ claims'[x][i] = claims[x][i]
    <3>1. CASE x = w
      BY <2>4, <3>1
    <3>2. CASE x # w
      BY <2>3, <3>2
    <3> QED
      BY <3>1, <3>2
  <2>7. ASSUME NEW x \in Workers, NEW i \in DOMAIN claims'[x]
        PROVE  claims'[x][i].fence <= outbox'[claims'[x][i].event].fence
    BY <2>1, <2>2, <2>5, <2>6
  <2>8. ASSUME NEW x \in Workers, NEW y \in Workers,
               NEW i \in DOMAIN claims'[x], NEW j \in DOMAIN claims'[y],
               claims'[x][i] = claims'[y][j]
        PROVE  x = y /\ i = j
    <3>1. CASE i \in DOMAIN claims[x] /\ j \in DOMAIN claims[y]
               /\ claims'[x][i] = claims[x][i] /\ claims'[y][j] = claims[y][j]
      <4>1. claims[x][i] = claims[y][j]
        BY <2>8, <3>1
      <4> QED
        BY <3>1, <4>1 DEF ClaimsAreFenced
    <3> QED
      BY <2>5, <2>6, <2>8, <3>1
  <2> QED
    BY <2>7, <2>8 DEF ClaimsAreFenced
<1>2. ASSUME NEW e \in Events, Enqueue(e) \/ BackoffEnds(e) \/ LeaseEnds(e)
      PROVE  ClaimsAreFenced'
  <2>1. \A f \in Events : outbox'[f].fence = outbox[f].fence
    <3>1. outbox \in [Events -> Row] /\ outbox[e] \in Row
      BY DEF TypeOK
    <3>2. outbox'[e].fence = outbox[e].fence
      BY <1>2, <3>1 DEF Enqueue, BackoffEnds, LeaseEnds, Row
    <3>3. \A f \in Events \ {e} : outbox'[f] = outbox[f]
      BY <1>2, <3>1 DEF Enqueue, BackoffEnds, LeaseEnds
    <3> QED
      BY <3>2, <3>3
  <2>2. \A w \in Workers : claims'[w] = claims[w]
    BY <1>2 DEF Enqueue, BackoffEnds, LeaseEnds
  <2> QED
    BY <2>1, <2>2, ClaimsOnlyLeave
<1>3. ASSUME NEW w \in Workers,
             \/ StartTick(w) \/ EndClaims(w) \/ Unsupported(w) \/ Duplicate(w)
             \/ StartHandler(w) \/ HandlerCommits(w) \/ CommitAckLost(w)
             \/ DeliveryFails(w) \/ Deadlock(w) \/ Crash(w)
      PROVE  ClaimsAreFenced'
  <2>1. /\ outbox' = outbox
        /\ \A x \in Workers : claims'[x] = claims[x] \/ claims'[x] = <<>>
    BY <1>3
    DEF StartTick, EndClaims, Unsupported, Duplicate, StartHandler, HandlerCommits,
        CommitAckLost, DeliveryFails, Deadlock, Crash, tables, TypeOK
  <2> QED
    BY <2>1, ClaimsOnlyLeave
<1>4. ASSUME NEW w \in Workers,
             Ack(w) \/ Fail(w) \/ Reject(w) \/ SettleRefused(w) \/ SettleLost(w)
      PROVE  ClaimsAreFenced'
  <2>1. stage[w] \in Busy /\ NextClaim(w)
    BY <1>4 DEF Ack, Fail, Reject, SettleRefused, SettleLost, Settle, Busy
  <2>2. claims[w] # <<>> /\ Current(w).event \in Events
    BY <2>1, CurrentClaim DEF Claim
  <2>3. /\ claims'[w] = Tail(claims[w])
        /\ \A x \in Workers \ {w} : claims'[x] = claims[x]
    BY <2>1 DEF NextClaim, TypeOK
  <2>4. \A f \in Events : outbox'[f].fence = outbox[f].fence
    <3>1. CASE outbox' = outbox
      BY <3>1
    <3>2. CASE Ack(w) \/ Fail(w) \/ Reject(w)
      <4>1. PICK status : outbox' = [outbox EXCEPT ![Current(w).event] =
                                       [@ EXCEPT !.status = status]]
        BY <3>2 DEF Ack, Fail, Reject, Settle
      <4> QED
        BY <2>2, <4>1 DEF TypeOK, Row
    <3> QED
      BY <1>4, <3>1, <3>2 DEF SettleRefused, SettleLost, tables
  <2> QED
    BY <2>2, <2>3, <2>4, ClaimsOnlyLeave
<1>5. CASE UNCHANGED vars
  <2>1. outbox' = outbox /\ \A w \in Workers : claims'[w] = claims[w]
    BY <1>5 DEF vars
  <2> QED
    BY <2>1, ClaimsOnlyLeave
<1> QED
  BY <1>1, <1>2, <1>3, <1>4, <1>5 DEF OutboxNext, WorkerStep, Elapse

(* No two claims ever carry the same fencing token for an event. *)
THEOREM Fencing == OutboxSpec => []ClaimsAreFenced
<1>1. OutboxInit => ClaimsAreFenced
  BY DEF OutboxInit, ClaimsAreFenced
<1> QED
  BY <1>1, FencedStep, OutboxTypeCorrect, PTL DEF OutboxSpec


(* A lease ends in the hands of its holder only. *)
LEMMA SettledByHolder ==
  ASSUME TypeOK, [OutboxNext]_vars, NEW e \in Events,
         outbox[e].status = "leased", outbox'[e].status # "leased"
  PROVE  \E w \in Workers :
           /\ stage[w] \in {"ack", "fail", "reject"}
           /\ Holds(w) /\ Current(w).event = e
<1>1. outbox[e] \in Row /\ outbox \in [Events -> Row]
  BY DEF TypeOK
<1>2. PICK w \in Workers : Ack(w) \/ Fail(w) \/ Reject(w)
  <2>1. ~(\E f \in Events : Enqueue(f) \/ BackoffEnds(f) \/ LeaseEnds(f))
    <3> SUFFICES ASSUME NEW f \in Events, Enqueue(f) \/ BackoffEnds(f) \/ LeaseEnds(f)
                 PROVE  FALSE
      OBVIOUS
    <3>1. CASE f = e
      BY <1>1, <3>1 DEF Enqueue, BackoffEnds, LeaseEnds, Row
    <3>2. CASE f # e
      BY <1>1, <3>2 DEF Enqueue, BackoffEnds, LeaseEnds
    <3> QED
      BY <3>1, <3>2
  <2>2. ~(\E x \in Workers, f \in Events : ClaimEvent(x, f))
    <3> SUFFICES ASSUME NEW x \in Workers, NEW f \in Events, ClaimEvent(x, f)
                 PROVE  FALSE
      OBVIOUS
    <3>1. outbox' = [outbox EXCEPT ![f] = Leased(f, outbox[f].fence + 1)]
      BY DEF ClaimEvent
    <3> QED
      BY <1>1, <3>1 DEF Leased
  <2>3. outbox' # outbox
    OBVIOUS
  <2> QED
    BY <2>1, <2>2, <2>3
    DEF OutboxNext, WorkerStep, Elapse, vars, tables, StartTick, EndClaims, Unsupported,
        Duplicate, StartHandler, HandlerCommits, CommitAckLost, DeliveryFails, Deadlock,
        SettleRefused, SettleLost, Crash
<1>3. stage[w] \in {"ack", "fail", "reject"} /\ Holds(w)
  BY <1>2 DEF Ack, Fail, Reject
<1>4. Current(w).event = e
  <2>1. PICK status : outbox' = [outbox EXCEPT ![Current(w).event] =
                                   [@ EXCEPT !.status = status]]
    BY <1>2 DEF Ack, Fail, Reject, Settle
  <2> QED
    BY <1>1, <2>1
<1> QED
  BY <1>3, <1>4

(* A stale worker cannot acknowledge an event or record a failure of it:     *)
(* the lease it once had is over, or somebody else's.                       *)
THEOREM StaleWorkersSettleNothing == OutboxSpec => StaleNeverSettles
<1>1. TypeOK /\ [OutboxNext]_vars =>
        [\A e \in Events :
           outbox[e].status = "leased" /\ outbox'[e].status # "leased" =>
             /\ ~outbox[e].lapsed
             /\ \E w \in Workers :
                  /\ stage[w] \in {"ack", "fail", "reject"}
                  /\ Current(w) = [event |-> e, fence |-> outbox[e].fence]]_vars
  <2> SUFFICES ASSUME TypeOK, [OutboxNext]_vars, NEW e \in Events,
                      outbox[e].status = "leased", outbox'[e].status # "leased"
               PROVE  /\ ~outbox[e].lapsed
                      /\ \E w \in Workers :
                           /\ stage[w] \in {"ack", "fail", "reject"}
                           /\ Current(w) = [event |-> e, fence |-> outbox[e].fence]
    OBVIOUS
  <2>1. PICK w \in Workers : /\ stage[w] \in {"ack", "fail", "reject"}
                             /\ Holds(w) /\ Current(w).event = e
    BY SettledByHolder
  <2>2. Current(w) \in Claim
    BY <2>1, CurrentClaim DEF Busy
  <2>3. Current(w) = [event |-> e, fence |-> outbox[e].fence]
    BY <2>1, <2>2 DEF Claim, Holds
  <2> QED
    BY <2>1, <2>3 DEF Holds
<1> QED
  BY <1>1, OutboxTypeCorrect, PTL DEF OutboxSpec, StaleNeverSettles

------------------------------------------------------------------------------
(* Refinement *)

LEMMA RefineInit == OutboxInit => Delivery!EDInit
  BY DEF OutboxInit, Delivery!EDInit, Outcome

(* A step that changes the outcome of e alone changes the function at e. *)
LEMMA OutcomeChange ==
  ASSUME NEW e \in Events, NEW o,
         \A f \in Events \ {e} : Outcome(f)' = Outcome(f),
         Outcome(e)' = o
  PROVE  [f \in Events |-> Outcome(f)]' =
           [[f \in Events |-> Outcome(f)] EXCEPT ![e] = o]
  OBVIOUS

LEMMA RefineStep == OInv /\ [OutboxNext]_vars => [Delivery!EDNext]_(Delivery!vars)
<1> SUFFICES ASSUME OInv, [OutboxNext]_vars
             PROVE  Delivery!EDNext \/ UNCHANGED Delivery!vars
  OBVIOUS
<1>0. TypeOK /\ outbox \in [Events -> Row]
  BY DEF OInv, TypeOK
<1>1. ASSUME inbox' = inbox, \A e \in Events : Outcome(e)' = Outcome(e)
      PROVE  UNCHANGED Delivery!vars
  BY <1>1 DEF Delivery!vars
<1>2. ASSUME inbox' = inbox, outbox' = outbox
      PROVE  UNCHANGED Delivery!vars
  BY <1>1, <1>2 DEF Outcome
<1>3. ASSUME NEW e \in Events, Enqueue(e)
      PROVE  Delivery!EDNext
  <2>1. /\ outbox[e].status = "absent" /\ outbox'[e].status = "pending"
        /\ inbox' = inbox
        /\ \A f \in Events \ {e} : outbox'[f] = outbox[f]
    BY <1>0, <1>3 DEF Enqueue, Row
  <2>2. /\ Outcome(e) = "absent" /\ Outcome(e)' = "open"
        /\ \A f \in Events \ {e} : Outcome(f)' = Outcome(f)
    BY <2>1 DEF Outcome
  <2>3. Delivery!Produced(e)
    BY <2>1, <2>2, OutcomeChange DEF Delivery!Produced
  <2> QED
    BY <2>3 DEF Delivery!EDNext
<1>4. ASSUME NEW e \in Events, BackoffEnds(e) \/ LeaseEnds(e)
      PROVE  UNCHANGED Delivery!vars
  <2>1. /\ inbox' = inbox /\ outbox'[e].status = outbox[e].status
        /\ \A f \in Events \ {e} : outbox'[f] = outbox[f]
    BY <1>0, <1>4 DEF BackoffEnds, LeaseEnds, Row
  <2> QED
    BY <1>1, <2>1 DEF Outcome
<1>5. ASSUME NEW w \in Workers, NEW e \in Events, ClaimEvent(w, e)
      PROVE  UNCHANGED Delivery!vars
  <2>1. /\ inbox' = inbox
        /\ outbox[e].status \in {"pending", "leased"} /\ outbox'[e].status = "leased"
        /\ \A f \in Events \ {e} : outbox'[f] = outbox[f]
    BY <1>0, <1>5 DEF ClaimEvent, Claimable, Leased
  <2> QED
    BY <1>1, <2>1 DEF Outcome
<1>6. ASSUME NEW w \in Workers, HandlerCommits(w) \/ CommitAckLost(w)
      PROVE  Delivery!EDNext
  <2>0. stage[w] = "handle"
    BY <1>6 DEF HandlerCommits, CommitAckLost
  <2> PICK e \in Events : e = Current(w).event
    BY <1>0, <2>0, CurrentClaim DEF Busy, Claim
  <2>1. /\ stage[w] = "handle" /\ outbox' = outbox
        /\ inbox' = inbox \union {e}
    BY <1>6 DEF HandlerCommits, CommitAckLost, Publish
  <2>2. /\ e \in Events /\ e \notin inbox
        /\ outbox[e].status \notin {"absent", "completed"}
    <3>1. e \in Events /\ Current(w) = claims[w][1] /\ 1 \in DOMAIN claims[w]
      BY <1>0, <2>1, CurrentClaim DEF Busy, Claim
    <3> QED
      BY <2>1, <3>1 DEF OInv, Locks, Handled, Produced
  <2>3. Outcome(e) \in {"open", "dead"}
    BY <1>0, <2>2 DEF Outcome, Row
  <2>4. \A f \in Events : Outcome(f)' = Outcome(f)
    BY <2>1 DEF Outcome
  <2>5. Delivery!Handle(e)
    BY <2>1, <2>2, <2>3, <2>4 DEF Delivery!Handle
  <2> QED
    BY <2>2, <2>5 DEF Delivery!EDNext
<1>7. ASSUME NEW w \in Workers, Ack(w) \/ Fail(w) \/ Reject(w)
      PROVE  Delivery!EDNext \/ UNCHANGED Delivery!vars
  <2>0. stage[w] \in Busy
    BY <1>7 DEF Ack, Fail, Reject, Busy
  <2> PICK e \in Events : e = Current(w).event
    BY <1>0, <2>0, CurrentClaim DEF Claim
  <2>1. PICK status \in {"completed", "dead_letter", "pending"} :
          /\ stage[w] \in {"ack", "fail", "reject"} /\ Settle(w, status) /\ Holds(w)
          /\ status = "completed" => stage[w] = "ack"
    BY <1>7 DEF Ack, Fail, Reject
  <2>2. e \in Events /\ outbox[e] \in Row
    BY <1>0, <2>1, CurrentClaim DEF Busy, Claim
  <2>3. /\ inbox' = inbox /\ outbox[e].status = "leased" /\ outbox'[e].status = status
        /\ \A f \in Events \ {e} : outbox'[f] = outbox[f]
    BY <1>0, <2>1, <2>2 DEF Settle, Holds, Row
  <2>4. /\ Outcome(e) = "open"
        /\ \A f \in Events \ {e} : Outcome(f)' = Outcome(f)
    BY <2>3 DEF Outcome
  <2>5. CASE status = "completed"
    <3>1. Outcome(e)' = "done" /\ e \in inbox
      BY <2>1, <2>3, <2>5 DEF Outcome, OInv, Handled
    <3>2. Delivery!Finish(e)
      BY <2>2, <2>3, <2>4, <3>1, OutcomeChange DEF Delivery!Finish
    <3> QED
      BY <2>2, <3>2 DEF Delivery!EDNext
  <2>6. CASE status = "dead_letter"
    <3>1. Outcome(e)' = "dead"
      BY <2>3, <2>6 DEF Outcome
    <3>2. Delivery!GiveUp(e)
      BY <2>2, <2>3, <2>4, <3>1, OutcomeChange DEF Delivery!GiveUp
    <3> QED
      BY <2>2, <3>2 DEF Delivery!EDNext
  <2>7. CASE status = "pending"
    <3>1. Outcome(e)' = "open"
      BY <2>3, <2>7 DEF Outcome
    <3> QED
      BY <1>1, <2>3, <2>4, <3>1
  <2> QED
    BY <2>5, <2>6, <2>7
<1>8. ASSUME NEW w \in Workers,
             \/ StartTick(w) \/ EndClaims(w) \/ Unsupported(w) \/ Duplicate(w)
             \/ StartHandler(w) \/ DeliveryFails(w) \/ Deadlock(w) \/ Crash(w)
             \/ SettleRefused(w) \/ SettleLost(w)
      PROVE  UNCHANGED Delivery!vars
  BY <1>2, <1>8
  DEF StartTick, EndClaims, Unsupported, Duplicate, StartHandler, DeliveryFails, Deadlock,
      Crash, SettleRefused, SettleLost, tables
<1>9. CASE UNCHANGED vars
  BY <1>2, <1>9 DEF vars
<1> QED
  BY <1>3, <1>4, <1>5, <1>6, <1>7, <1>8, <1>9 DEF OutboxNext, WorkerStep, Elapse

(* The outbox, its workers and the inbox together deliver as EventDelivery    *)
(* says: at most one effect, and no event finished without it.              *)
THEOREM DeliveryRefinement == OutboxSpec => ImplementsDelivery
  BY RefineInit, RefineStep, OInvariance, PTL
  DEF OutboxSpec, ImplementsDelivery, Delivery!EDSpec

------------------------------------------------------------------------------
(* Fair claims: the cursor *)

(* The organizations that the cursor has still to pass before it is o's turn. *)
Dist(a, o) == IF o > a THEN o - a - 1 ELSE OrgCount - a + o - 1

(* In a tick a worker has a page; between its ticks it keeps the cursor only. *)
AtRest(w) ==
  IF phase[w] = "claim" THEN orgIds[w] # <<>>
  ELSE /\ orgIds[w] = <<>> /\ claimed[w] = <<>> /\ drained[w] = {}
       /\ turn[w] = 1 /\ round[w] = 1

(* The page is in order, behind the cursor, and leaves nobody out between its *)
(* entries.                                                                *)
InOrder(w) ==
  phase[w] = "claim" =>
    /\ \A i \in DOMAIN orgIds[w] : orgIds[w][i] > afterOrgId[w]
    /\ \A i, j \in DOMAIN orgIds[w] : i < j => orgIds[w][i] < orgIds[w][j]
    /\ \A o \in missed[w] : o > afterOrgId[w] =>
         \/ \E j \in DOMAIN orgIds[w] : orgIds[w][j] = o
         \/ \A i \in DOMAIN orgIds[w] : orgIds[w][i] < o

(* Who is missed has not had its turn, and the claims were made for those     *)
(* that had.                                                               *)
Turns(w) ==
  /\ \A k \in DOMAIN claimed[w] : \E i \in DOMAIN orgIds[w] :
       claimed[w][k] = orgIds[w][i] /\ (round[w] = 1 => i < turn[w])
  /\ \A j \in DOMAIN orgIds[w] :
       phase[w] = "claim" /\ orgIds[w][j] \in missed[w] => round[w] = 1 /\ turn[w] <= j

(* Who waits has something ready; each tick that missed it brought the cursor *)
(* nearer.                                                                 *)
Waits(w) ==
  \A o \in Orgs :
    /\ waited[w][o] > 0 \/ o \in missed[w] => backlog[o] > 0
    /\ phase[w] = "claim" /\ waited[w][o] > 0 => o \in missed[w]
    /\ waited[w][o] + Dist(afterOrgId[w], o) < OrgCount

FairInv ==
  /\ FairTypeOK
  /\ \A w \in JobWorkers : AtRest(w) /\ InOrder(w) /\ Turns(w) /\ Waits(w)

------------------------------------------------------------------------------
(* Fair claims: types and the operators *)

LEMMA MinTwo ==
  ASSUME NEW a \in Nat, NEW b \in Nat
  PROVE  Min({a, b}) = IF a <= b THEN a ELSE b
<1> DEFINE m == IF a <= b THEN a ELSE b
<1>1. m \in {a, b} /\ \A y \in {a, b} : m <= y
  OBVIOUS
<1>2. \A x \in {a, b} : (\A y \in {a, b} : x <= y) => x = m
  OBVIOUS
<1> QED
  BY <1>1, <1>2 DEF Min

LEMMA OrgsType ==
  /\ OrgCount \in Nat /\ TickSize \in Nat \ {0} /\ MaxOrganizations \in Nat \ {0}
  /\ MaxPerOrganization \in 1..TickSize /\ MaxBacklog \in Nat
  /\ Orgs \subseteq Nat /\ Orgs \subseteq Int /\ IsFiniteSet(Orgs)
  /\ \A o \in Orgs : 1 <= o /\ o <= OrgCount
<1>1. OrgCount \in Nat /\ 1 \in Int /\ OrgCount \in Int
  BY FairAssumption
<1>2. IsFiniteSet(1..OrgCount)
  BY <1>1, FS_Interval
<1> QED
  BY <1>1, <1>2, FairAssumption DEF Orgs

LEMMA DistType ==
  ASSUME NEW a \in 0..OrgCount, NEW o \in Orgs
  PROVE  Dist(a, o) \in 0..OrgCount - 1
BY OrgsType DEF Dist

(* A page holds the first of the organizations in order. *)
LEMMA PageOrdered ==
  ASSUME NEW S \in SUBSET Orgs, S # {}, NEW page, page = Page(S)
  PROVE  /\ page \in Seq(Orgs) /\ page # <<>> /\ Len(page) <= MaxOrganizations
         /\ \A i \in DOMAIN page : page[i] \in S
         /\ \A i, j \in DOMAIN page : i < j => page[i] < page[j]
         /\ \A o \in S : \/ \E j \in DOMAIN page : page[j] = o
                         \/ \A i \in DOMAIN page : page[i] < o
<1> DEFINE c == Cardinality(S)
           n == Min({MaxOrganizations, c})
           rank(o) == Cardinality(Below(S, o))
<1>1. IsFiniteSet(S) /\ S \in SUBSET Int
  BY OrgsType, FS_Subset
<1>2. c \in Nat \ {0}
  BY <1>1, FS_CardinalityType, FS_EmptySet
<1>3. n \in Nat \ {0} /\ n <= c /\ n <= MaxOrganizations /\ (n = c \/ n = MaxOrganizations)
  BY <1>2, OrgsType, MinTwo
<1>4. /\ \A o \in S : rank(o) \in 0..c - 1
      /\ \A o, q \in S : rank(o) = rank(q) => o = q
      /\ \A k \in 0..c - 1 : \E o \in S : rank(o) = k
  BY <1>1, Ranking
<1> HIDE DEF n
<1>5. page = [i \in 1..n |-> CHOOSE o \in S : rank(o) = i - 1]
  BY DEF Page, n, Below
<1>6. ASSUME NEW i \in 1..n PROVE page[i] \in S /\ rank(page[i]) = i - 1
  <2>1. i - 1 \in 0..c - 1
    BY <1>2, <1>3
  <2>2. \E o \in S : rank(o) = i - 1
    BY <1>4, <2>1
  <2>3. page[i] = CHOOSE o \in S : rank(o) = i - 1
    BY <1>5
  <2> QED
    BY <2>2, <2>3
<1>7. page \in Seq(Orgs) /\ Len(page) = n /\ DOMAIN page = 1..n
  <2>1. page \in [1..n -> Orgs]
    BY <1>5, <1>6
  <2> QED
    BY <1>3, <2>1
<1>8. ASSUME NEW o \in S, NEW q \in S, rank(o) < rank(q)
      PROVE  o < q
  <2>1. SUFFICES ASSUME q <= o PROVE FALSE
    BY <1>1
  <2>2. Below(S, q) \in SUBSET Below(S, o) /\ IsFiniteSet(Below(S, o))
    <3>1. \A h \in S : h \in Int
      BY <1>1
    <3>2. \A h \in S : h < q => h < o
      BY <2>1, <3>1
    <3> QED
      BY <1>1, <3>2, FS_Subset DEF Below
  <2>3. rank(q) <= rank(o)
    BY <2>2, FS_Subset
  <2> QED
    BY <1>4, <1>8, <2>3
<1> HIDE DEF rank
<1>9. \A i, j \in 1..n : i < j => page[i] < page[j]
  BY <1>6, <1>8, <1>3
<1>10. ASSUME NEW o \in S, ~ \E j \in 1..n : page[j] = o
       PROVE  \A i \in 1..n : page[i] < o
  <2>1. rank(o) \in Nat
    BY <1>4
  <2>2. rank(o) >= n
    <3>1. SUFFICES ASSUME rank(o) < n PROVE FALSE
      BY <1>3, <2>1
    <3>2. rank(o) + 1 \in 1..n
      BY <1>3, <2>1, <3>1
    <3>3. rank(page[rank(o) + 1]) = rank(o) /\ page[rank(o) + 1] \in S
      BY <1>6, <2>1, <3>2
    <3> QED
      BY <1>4, <1>10, <3>2, <3>3
  <2>3. \A i \in 1..n : rank(page[i]) < rank(o) /\ page[i] \in S
    BY <1>3, <1>6, <2>1, <2>2
  <2> QED
    BY <1>8, <2>3
<1>11. page # <<>>
  BY <1>3, <1>7
<1> QED
  BY <1>3, <1>6, <1>7, <1>9, <1>10, <1>11

(* What TypeOK says of one worker. *)
LEMMA TickType ==
  ASSUME FairTypeOK, NEW w \in JobWorkers
  PROVE  /\ afterOrgId[w] \in 0..OrgCount /\ phase[w] \in {"idle", "list", "claim"}
         /\ orgIds[w] \in Seq(Orgs) /\ claimed[w] \in Seq(Orgs)
         /\ turn[w] \in Nat \ {0} /\ round[w] \in Nat \ {0} /\ progress[w] \in BOOLEAN
         /\ drained[w] \subseteq Orgs /\ missed[w] \subseteq Orgs
         /\ waited[w] \in [Orgs -> 0..OrgCount]
         /\ Len(orgIds[w]) \in Nat /\ DOMAIN orgIds[w] = 1..Len(orgIds[w])
         /\ Len(claimed[w]) \in Nat /\ DOMAIN claimed[w] = 1..Len(claimed[w])
         /\ \A i \in DOMAIN orgIds[w] : orgIds[w][i] \in Orgs
         /\ \A k \in DOMAIN claimed[w] : claimed[w][k] \in Orgs
<1>1. orgIds[w] \in Seq(Orgs) /\ claimed[w] \in Seq(Orgs)
  BY DEF FairTypeOK
<1>2. /\ Len(orgIds[w]) \in Nat /\ DOMAIN orgIds[w] = 1..Len(orgIds[w])
      /\ Len(claimed[w]) \in Nat /\ DOMAIN claimed[w] = 1..Len(claimed[w])
  BY <1>1, LenProperties
<1>3. /\ \A i \in DOMAIN orgIds[w] : orgIds[w][i] \in Orgs
      /\ \A k \in DOMAIN claimed[w] : claimed[w][k] \in Orgs
  BY <1>1, <1>2, ElementOfSeq
<1> QED
  BY <1>1, <1>2, <1>3 DEF FairTypeOK

(* What claimBatch returns is nothing or one event of the organization. *)
LEMMA RowsType ==
  ASSUME FairTypeOK, NEW w \in JobWorkers, phase[w] = "claim", ~Done(w), turn[w] <= Len(orgIds[w]),
         NEW o, o = orgIds[w][turn[w]]
  PROVE  /\ o \in Orgs /\ turn[w] \in DOMAIN orgIds[w] /\ Len(claimed[w]) < TickSize
         /\ backlog[o] \in 0..MaxBacklog
         /\ RowsClaimed(w) = IF backlog[o] = 0 THEN 0 ELSE 1
<1>1. turn[w] \in DOMAIN orgIds[w] /\ o \in Orgs /\ Len(claimed[w]) \in Nat
  BY TickType
<1>2. Len(claimed[w]) < TickSize
  BY <1>1, OrgsType DEF Done, BatchFull
<1>3. TickSize - Len(claimed[w]) \in Nat \ {0}
  BY <1>1, <1>2, OrgsType
<1>4. Limit(w) = 1
  BY <1>3, MinTwo DEF Limit
<1>5. backlog[o] \in 0..MaxBacklog /\ backlog[o] \in Nat
  BY <1>1, OrgsType DEF FairTypeOK
<1>6. RowsClaimed(w) = Min({1, backlog[o]})
  BY <1>4 DEF RowsClaimed
<1>7. RowsClaimed(w) = IF backlog[o] = 0 THEN 0 ELSE 1
  BY <1>5, <1>6, MinTwo
<1> QED
  BY <1>1, <1>2, <1>5, <1>7

(* The claims of a turn. *)
LEMMA ClaimsType ==
  ASSUME FairTypeOK, NEW w \in JobWorkers, ClaimTurn(w), NEW o, o = orgIds[w][turn[w]]
  PROVE  /\ o \in Orgs /\ turn[w] \in DOMAIN orgIds[w]
         /\ \/ /\ backlog[o] = 0
               /\ backlog' = backlog /\ claimed' = claimed
               /\ missed' = missed /\ waited' = waited
               /\ drained' = [drained EXCEPT ![w] = @ \union {o}]
            \/ /\ backlog[o] \in 1..MaxBacklog
               /\ backlog' = [backlog EXCEPT ![o] = @ - 1]
               /\ claimed' = [claimed EXCEPT ![w] = Append(@, o)]
               /\ Len(claimed[w]) < TickSize
               /\ missed' = [x \in JobWorkers |-> missed[x] \ {o}]
               /\ waited' = [x \in JobWorkers |-> [waited[x] EXCEPT ![o] = 0]]
               /\ drained' = drained
<1>1. /\ o \in Orgs /\ turn[w] \in DOMAIN orgIds[w] /\ Len(claimed[w]) < TickSize
      /\ backlog[o] \in 0..MaxBacklog
      /\ RowsClaimed(w) = IF backlog[o] = 0 THEN 0 ELSE 1
  BY RowsType DEF ClaimTurn
<1>2. claimed[w] \in Seq(Orgs) /\ claimed \in [JobWorkers -> Seq(Orgs)]
      /\ drained \in [JobWorkers -> SUBSET Orgs] /\ backlog \in [Orgs -> 0..MaxBacklog]
  BY DEF FairTypeOK
<1>3. CASE backlog[o] = 0
  <2>1. RowsClaimed(w) = 0
    BY <1>1, <1>3
  <2>2. claimed[w] \o [i \in 1..0 |-> o] = claimed[w]
    BY <1>2
  <2>3. /\ backlog' = [backlog EXCEPT ![o] = @ - 0]
        /\ claimed' = [claimed EXCEPT ![w] = claimed[w] \o [i \in 1..0 |-> o]]
        /\ drained' = [drained EXCEPT ![w] = @ \union {o}]
        /\ missed' = missed /\ waited' = waited
    BY <2>1 DEF ClaimTurn
  <2>4. backlog' = backlog
    BY <1>1, <1>2, <1>3, <2>3
  <2>5. claimed' = claimed
    BY <1>2, <2>2, <2>3
  <2> QED
    BY <1>1, <1>3, <2>3, <2>4, <2>5
<1>4. CASE backlog[o] # 0
  <2>1. RowsClaimed(w) = 1
    BY <1>1, <1>4
  <2>2. claimed[w] \o [i \in 1..1 |-> o] = Append(claimed[w], o)
    BY <1>1, <1>2
  <2>3. /\ backlog' = [backlog EXCEPT ![o] = @ - 1]
        /\ claimed' = [claimed EXCEPT ![w] = claimed[w] \o [i \in 1..1 |-> o]]
        /\ drained' = [drained EXCEPT ![w] = @]
        /\ missed' = [x \in JobWorkers |-> missed[x] \ {o}]
        /\ waited' = [x \in JobWorkers |-> [waited[x] EXCEPT ![o] = 0]]
    BY <2>1 DEF ClaimTurn
  <2>4. drained' = drained
    BY <1>2, <2>3
  <2>5. backlog[o] \in 1..MaxBacklog
    BY <1>1, <1>4, OrgsType
  <2> QED
    BY <1>1, <2>2, <2>3, <2>4, <2>5
<1> QED
  BY <1>1, <1>3, <1>4

(* Where the cursor goes: to an organization of the page. *)
LEMMA CursorType ==
  ASSUME FairTypeOK, NEW w \in JobWorkers, orgIds[w] # <<>>,
         NEW c, c = CursorAfter(claimed[w], orgIds[w])
  PROVE  /\ c \in Orgs
         /\ \/ \E k \in DOMAIN claimed[w] : c = claimed[w][k]
            \/ claimed[w] = <<>> /\ \E i \in DOMAIN orgIds[w] : c = orgIds[w][i]
<1>1. /\ Len(orgIds[w]) \in Nat /\ DOMAIN orgIds[w] = 1..Len(orgIds[w])
      /\ Len(claimed[w]) \in Nat /\ DOMAIN claimed[w] = 1..Len(claimed[w])
      /\ \A i \in DOMAIN orgIds[w] : orgIds[w][i] \in Orgs
      /\ \A k \in DOMAIN claimed[w] : claimed[w][k] \in Orgs
      /\ orgIds[w] \in Seq(Orgs) /\ claimed[w] \in Seq(Orgs)
  BY TickType
<1>2. CASE claimed[w] # <<>>
  <2>1. Len(claimed[w]) \in DOMAIN claimed[w]
    BY <1>1, <1>2, EmptySeq
  <2>2. c = claimed[w][Len(claimed[w])]
    BY <1>2 DEF CursorAfter, Last
  <2> QED
    BY <1>1, <2>1, <2>2
<1>3. CASE claimed[w] = <<>>
  <2>1. Len(orgIds[w]) \in DOMAIN orgIds[w]
    BY <1>1, EmptySeq
  <2>2. c = orgIds[w][Len(orgIds[w])]
    BY <1>3 DEF CursorAfter, Last
  <2> QED
    BY <1>1, <1>3, <2>1, <2>2
<1> QED
  BY <1>2, <1>3

LEMMA FairTypeInit == FairInit => FairTypeOK /\ \A w \in JobWorkers : AtRest(w)
<1> SUFFICES ASSUME FairInit
             PROVE  FairTypeOK /\ \A w \in JobWorkers : AtRest(w)
  OBVIOUS
<1>1. MaxPerOrganization \in Nat \ {0} /\ OrgCount \in Nat
  BY OrgsType
<1> QED
  BY <1>1, OrgsType DEF FairInit, FairTypeOK, AtRest

(* The variables are functions of these types. *)
LEMMA FairFunctions ==
  ASSUME FairTypeOK
  PROVE  /\ backlog \in [Orgs -> 0..MaxBacklog]
         /\ afterOrgId \in [JobWorkers -> 0..OrgCount]
         /\ phase \in [JobWorkers -> {"idle", "list", "claim"}]
         /\ orgIds \in [JobWorkers -> Seq(Orgs)] /\ claimed \in [JobWorkers -> Seq(Orgs)]
         /\ turn \in [JobWorkers -> Nat \ {0}] /\ round \in [JobWorkers -> Nat \ {0}]
         /\ progress \in [JobWorkers -> BOOLEAN]
         /\ drained \in [JobWorkers -> SUBSET Orgs] /\ missed \in [JobWorkers -> SUBSET Orgs]
         /\ waited \in [JobWorkers -> [Orgs -> 0..OrgCount]]
BY DEF FairTypeOK

(* What a worker's own step does not touch: the tick and the cursor of the others. *)
SameTick(v) ==
  /\ phase'[v] = phase[v] /\ afterOrgId'[v] = afterOrgId[v]
  /\ orgIds'[v] = orgIds[v] /\ claimed'[v] = claimed[v] /\ drained'[v] = drained[v]
  /\ turn'[v] = turn[v] /\ round'[v] = round[v]

LEMMA OthersKeepTick ==
  ASSUME FairTypeOK, NEW w \in JobWorkers, TickStep(w), NEW v \in JobWorkers, v # w
  PROVE  SameTick(v)
<1>0. USE FairFunctions
<1>1. CASE RunOnce(w)
  BY <1>1 DEF RunOnce, tick, SameTick
<1>2. CASE ListOrganizations(w)
  BY <1>2 DEF ListOrganizations, SameTick
<1>3. CASE WrapAround(w)
  BY <1>3 DEF WrapAround, tick, SameTick
<1>4. CASE NothingReady(w)
  BY <1>4 DEF NothingReady, tick, SameTick
<1>5. CASE ClaimTurn(w)
  BY <1>5 DEF ClaimTurn, SameTick
<1>6. CASE NextRound(w)
  BY <1>6 DEF NextRound, SameTick
<1>7. CASE EndTick(w)
  BY <1>7 DEF EndTick, SameTick
<1> QED
  BY <1>1, <1>2, <1>3, <1>4, <1>5, <1>6, <1>7 DEF TickStep

(* The limits of one worker's tick. *)
WithinLimits(w) ==
  /\ Len(orgIds[w]) <= MaxOrganizations /\ Len(claimed[w]) <= TickSize
  /\ turn[w] <= Len(orgIds[w]) + 1 /\ round[w] <= MaxPerOrganization

(* A step of w keeps the types if it keeps those of the functions and of w's tick. *)
LEMMA TypesKept ==
  ASSUME FairTypeOK, \A v \in JobWorkers : AtRest(v), NEW w \in JobWorkers, TickStep(w),
         backlog' \in [Orgs -> 0..MaxBacklog],
         afterOrgId' \in [JobWorkers -> 0..OrgCount],
         phase' \in [JobWorkers -> {"idle", "list", "claim"}],
         orgIds' \in [JobWorkers -> Seq(Orgs)], claimed' \in [JobWorkers -> Seq(Orgs)],
         turn' \in [JobWorkers -> Nat \ {0}], round' \in [JobWorkers -> Nat \ {0}],
         progress' \in [JobWorkers -> BOOLEAN],
         drained' \in [JobWorkers -> SUBSET Orgs], missed' \in [JobWorkers -> SUBSET Orgs],
         waited' \in [JobWorkers -> [Orgs -> 0..OrgCount]],
         WithinLimits(w)', AtRest(w)'
  PROVE  FairTypeOK' /\ \A v \in JobWorkers : AtRest(v)'
<1>1. ASSUME NEW v \in JobWorkers, v # w
      PROVE  WithinLimits(v)' /\ AtRest(v)'
  <2>1. SameTick(v)
    BY <1>1, OthersKeepTick
  <2>2. WithinLimits(v)
    BY DEF FairTypeOK, WithinLimits
  <2> QED
    BY <2>1, <2>2 DEF SameTick, WithinLimits, AtRest
<1>2. \A v \in JobWorkers : WithinLimits(v)' /\ AtRest(v)'
  BY <1>1
<1>3. FairTypeOK'
  BY <1>2 DEF FairTypeOK, WithinLimits
<1> QED
  BY <1>2, <1>3

LEMMA FairTypeOwnStep ==
  ASSUME FairTypeOK, \A v \in JobWorkers : AtRest(v), NEW w \in JobWorkers, TickStep(w)
  PROVE  FairTypeOK' /\ \A v \in JobWorkers : AtRest(v)'
<1> DEFINE Goal == FairTypeOK' /\ \A v \in JobWorkers : AtRest(v)'
<1>0. /\ OrgCount \in Nat /\ MaxBacklog \in Nat /\ MaxPerOrganization \in Nat \ {0} /\ TickSize \in Nat
      /\ MaxOrganizations \in Nat /\ 0 \in 0..OrgCount
  BY OrgsType
<1>f. /\ backlog \in [Orgs -> 0..MaxBacklog]
      /\ afterOrgId \in [JobWorkers -> 0..OrgCount]
      /\ phase \in [JobWorkers -> {"idle", "list", "claim"}]
      /\ orgIds \in [JobWorkers -> Seq(Orgs)] /\ claimed \in [JobWorkers -> Seq(Orgs)]
      /\ turn \in [JobWorkers -> Nat \ {0}] /\ round \in [JobWorkers -> Nat \ {0}]
      /\ progress \in [JobWorkers -> BOOLEAN]
      /\ drained \in [JobWorkers -> SUBSET Orgs] /\ missed \in [JobWorkers -> SUBSET Orgs]
      /\ waited \in [JobWorkers -> [Orgs -> 0..OrgCount]]
  BY FairFunctions
<1>w. WithinLimits(w) /\ AtRest(w)
  BY DEF FairTypeOK, WithinLimits
<1>1. CASE RunOnce(w) \/ WrapAround(w) \/ NothingReady(w)
  <2>1. /\ UNCHANGED <<backlog, orgIds, turn, round, claimed, progress, drained, missed, waited>>
        /\ phase[w] # "claim"
    BY <1>1 DEF RunOnce, WrapAround, NothingReady, tick
  <2>2. phase' \in [JobWorkers -> {"idle", "list", "claim"}] /\ phase'[w] # "claim"
    BY <1>1, <1>f DEF RunOnce, WrapAround, NothingReady
  <2>3. afterOrgId' \in [JobWorkers -> 0..OrgCount]
    <3>1. [afterOrgId EXCEPT ![w] = 0] \in [JobWorkers -> 0..OrgCount]
      BY <1>0, <1>f
    <3>2. afterOrgId' = afterOrgId \/ afterOrgId' = [afterOrgId EXCEPT ![w] = 0]
      BY <1>1 DEF RunOnce, WrapAround, NothingReady
    <3> QED
      BY <1>f, <3>1, <3>2
  <2>4. WithinLimits(w)' /\ AtRest(w)'
    BY <1>w, <2>1, <2>2 DEF WithinLimits, AtRest
  <2> QED
    BY <1>f, <2>1, <2>2, <2>3, <2>4, TypesKept
<1>2. CASE ListOrganizations(w)
  <2>1. PICK page : page = Page(Candidates(w))
    OBVIOUS
  <2>2. page \in Seq(Orgs) /\ Len(page) <= MaxOrganizations /\ page # <<>>
    BY <1>2, <2>1, PageOrdered DEF ListOrganizations, Candidates
  <2>3. /\ orgIds' = [orgIds EXCEPT ![w] = page] /\ phase' = [phase EXCEPT ![w] = "claim"]
        /\ UNCHANGED <<backlog, afterOrgId, turn, round, claimed, progress, drained, waited>>
        /\ phase[w] = "list"
    BY <1>2, <2>1 DEF ListOrganizations
  <2>4. missed' \in [JobWorkers -> SUBSET Orgs]
    BY <1>2, <1>f DEF ListOrganizations
  <2>5. orgIds' \in [JobWorkers -> Seq(Orgs)] /\ orgIds'[w] = page
    BY <1>f, <2>2, <2>3
  <2>6. phase' \in [JobWorkers -> {"idle", "list", "claim"}] /\ phase'[w] = "claim"
    BY <1>f, <2>3
  <2>7. turn[w] = 1 /\ Len(page) \in Nat
    BY <1>w, <2>2, <2>3 DEF AtRest
  <2>8. WithinLimits(w)' /\ AtRest(w)'
    BY <1>w, <2>2, <2>3, <2>5, <2>6, <2>7 DEF WithinLimits, AtRest
  <2> QED
    BY <1>f, <2>3, <2>4, <2>5, <2>6, <2>8, TypesKept
<1>3. CASE ClaimTurn(w)
  <2>1. PICK o : o = orgIds[w][turn[w]]
    OBVIOUS
  <2>2. o \in Orgs
    BY <1>3, <2>1, ClaimsType
  <2>3. /\ turn' = [turn EXCEPT ![w] = @ + 1]
        /\ progress' = [progress EXCEPT ![w] = @ \/ RowsClaimed(w) > 0]
        /\ UNCHANGED <<afterOrgId, phase, orgIds, round>> /\ phase[w] = "claim"
        /\ turn[w] <= Len(orgIds[w])
    BY <1>3 DEF ClaimTurn
  <2>4. turn' \in [JobWorkers -> Nat \ {0}] /\ turn'[w] = turn[w] + 1
    BY <1>f, <2>3
  <2>5. progress' \in [JobWorkers -> BOOLEAN]
    BY Zenon, <1>f, <2>3
  <2>6. /\ backlog' \in [Orgs -> 0..MaxBacklog]
        /\ drained' \in [JobWorkers -> SUBSET Orgs] /\ missed' \in [JobWorkers -> SUBSET Orgs]
        /\ waited' \in [JobWorkers -> [Orgs -> 0..OrgCount]]
        /\ claimed' \in [JobWorkers -> Seq(Orgs)] /\ Len(claimed'[w]) <= TickSize
    <3>1. CASE /\ backlog[o] = 0
               /\ backlog' = backlog /\ claimed' = claimed
               /\ missed' = missed /\ waited' = waited
               /\ drained' = [drained EXCEPT ![w] = @ \union {o}]
      <4>1. drained' \in [JobWorkers -> SUBSET Orgs]
        BY <1>f, <2>2, <3>1
      <4> QED
        BY <1>f, <1>w, <3>1, <4>1 DEF WithinLimits
    <3>2. CASE /\ backlog[o] \in 1..MaxBacklog
               /\ backlog' = [backlog EXCEPT ![o] = @ - 1]
               /\ claimed' = [claimed EXCEPT ![w] = Append(@, o)]
               /\ Len(claimed[w]) < TickSize
               /\ missed' = [x \in JobWorkers |-> missed[x] \ {o}]
               /\ waited' = [x \in JobWorkers |-> [waited[x] EXCEPT ![o] = 0]]
               /\ drained' = drained
      <4>1. backlog' \in [Orgs -> 0..MaxBacklog]
        BY <1>0, <1>f, <2>2, <3>2
      <4>2. missed' \in [JobWorkers -> SUBSET Orgs]
        BY <1>f, <3>2
      <4>3. waited' \in [JobWorkers -> [Orgs -> 0..OrgCount]]
        <5>1. \A x \in JobWorkers : [waited[x] EXCEPT ![o] = 0] \in [Orgs -> 0..OrgCount]
          BY <1>0, <1>f
        <5> QED
          BY <3>2, <5>1
      <4>4. /\ claimed[w] \in Seq(Orgs) /\ Append(claimed[w], o) \in Seq(Orgs)
            /\ Len(Append(claimed[w], o)) = Len(claimed[w]) + 1 /\ Len(claimed[w]) \in Nat
        BY <1>f, <2>2
      <4>5. Len(Append(claimed[w], o)) <= TickSize
        BY <1>0, <3>2, <4>4
      <4>6. claimed' \in [JobWorkers -> Seq(Orgs)] /\ claimed'[w] = Append(claimed[w], o)
        BY <1>f, <3>2, <4>4
      <4> QED
        BY <1>f, <3>2, <4>1, <4>2, <4>3, <4>5, <4>6
    <3>3. \/ /\ backlog[o] = 0
             /\ backlog' = backlog /\ claimed' = claimed
             /\ missed' = missed /\ waited' = waited
             /\ drained' = [drained EXCEPT ![w] = @ \union {o}]
          \/ /\ backlog[o] \in 1..MaxBacklog
             /\ backlog' = [backlog EXCEPT ![o] = @ - 1]
             /\ claimed' = [claimed EXCEPT ![w] = Append(@, o)]
             /\ Len(claimed[w]) < TickSize
             /\ missed' = [x \in JobWorkers |-> missed[x] \ {o}]
             /\ waited' = [x \in JobWorkers |-> [waited[x] EXCEPT ![o] = 0]]
             /\ drained' = drained
      BY <1>3, <2>1, ClaimsType
    <3> QED
      BY <3>1, <3>2, <3>3
  <2>7. WithinLimits(w)'
    <3>1. turn[w] \in Nat /\ Len(orgIds[w]) \in Nat
      BY TickType
    <3> QED
      BY <1>w, <2>3, <2>4, <2>6, <3>1 DEF WithinLimits
  <2>8. AtRest(w)'
    BY <1>w, <2>3 DEF AtRest
  <2> QED
    BY <1>f, <2>3, <2>4, <2>5, <2>6, <2>7, <2>8, TypesKept
<1>4. CASE NextRound(w)
  <2>1. /\ turn' = [turn EXCEPT ![w] = 1] /\ round' = [round EXCEPT ![w] = @ + 1]
        /\ progress' = [progress EXCEPT ![w] = FALSE]
        /\ UNCHANGED <<backlog, afterOrgId, phase, orgIds, claimed, drained, missed, waited>>
        /\ phase[w] = "claim" /\ round[w] # MaxPerOrganization
    BY <1>4 DEF NextRound, Done
  <2>2. round[w] \in Nat \ {0} /\ Len(orgIds[w]) \in Nat /\ round[w] <= MaxPerOrganization
    BY <1>w, TickType DEF WithinLimits
  <2>3. turn' \in [JobWorkers -> Nat \ {0}] /\ turn'[w] = 1
    BY <1>f, <2>1
  <2>4. round' \in [JobWorkers -> Nat \ {0}] /\ round'[w] = round[w] + 1
    BY <1>f, <2>1
  <2>5. progress' \in [JobWorkers -> BOOLEAN]
    BY <1>f, <2>1
  <2>6. WithinLimits(w)' /\ AtRest(w)'
    BY <1>0, <1>w, <2>1, <2>2, <2>3, <2>4 DEF WithinLimits, AtRest
  <2> QED
    BY <1>f, <2>1, <2>3, <2>4, <2>5, <2>6, TypesKept
<1>5. CASE EndTick(w)
  <2>1. PICK c : c = CursorAfter(claimed[w], orgIds[w])
    OBVIOUS
  <2>2. c \in 0..OrgCount
    <3>1. phase[w] = "claim" /\ orgIds[w] # <<>>
      BY <1>5, <1>w DEF EndTick, AtRest
    <3>2. c \in Orgs
      BY <2>1, <3>1, CursorType
    <3> QED
      BY <1>0, <3>2, OrgsType
  <2>3. /\ afterOrgId' = [afterOrgId EXCEPT ![w] = c] /\ phase' = [phase EXCEPT ![w] = "idle"]
        /\ orgIds' = [orgIds EXCEPT ![w] = <<>>] /\ turn' = [turn EXCEPT ![w] = 1]
        /\ round' = [round EXCEPT ![w] = 1] /\ claimed' = [claimed EXCEPT ![w] = <<>>]
        /\ progress' = [progress EXCEPT ![w] = FALSE] /\ drained' = [drained EXCEPT ![w] = {}]
        /\ UNCHANGED <<backlog, missed>>
    BY <1>5, <2>1 DEF EndTick
  <2>4. afterOrgId' \in [JobWorkers -> 0..OrgCount]
    BY <1>f, <2>2, <2>3
  <2>5. phase' \in [JobWorkers -> {"idle", "list", "claim"}] /\ phase'[w] = "idle"
    BY <1>f, <2>3
  <2>6. /\ <<>> \in Seq(Orgs) /\ Len(<<>>) = 0
        /\ orgIds' \in [JobWorkers -> Seq(Orgs)] /\ claimed' \in [JobWorkers -> Seq(Orgs)]
        /\ orgIds'[w] = <<>> /\ claimed'[w] = <<>>
    BY <1>f, <2>3
  <2>7. /\ turn' \in [JobWorkers -> Nat \ {0}] /\ round' \in [JobWorkers -> Nat \ {0}]
        /\ turn'[w] = 1 /\ round'[w] = 1
    BY <1>f, <2>3
  <2>8. progress' \in [JobWorkers -> BOOLEAN]
    BY <1>f, <2>3
  <2>9. drained' \in [JobWorkers -> SUBSET Orgs] /\ drained'[w] = {}
    BY <1>f, <2>3
  <2>10. waited' \in [JobWorkers -> [Orgs -> 0..OrgCount]]
    <3>1. /\ waited' = [waited EXCEPT ![w] = [o \in Orgs |->
                IF o \in missed[w] THEN Min({OrgCount, @[o] + 1}) ELSE @[o]]]
      BY <1>5 DEF EndTick
    <3>2. PICK ws : ws = [o \in Orgs |->
                IF o \in missed[w] THEN Min({OrgCount, waited[w][o] + 1}) ELSE waited[w][o]]
      OBVIOUS
    <3>3. \A o \in Orgs : waited[w][o] \in 0..OrgCount /\ waited[w][o] + 1 \in Nat
      BY <1>0, <1>f
    <3>4. \A o \in Orgs : Min({OrgCount, waited[w][o] + 1}) \in 0..OrgCount
      BY <1>0, <3>3, MinTwo
    <3>5. ws \in [Orgs -> 0..OrgCount]
      BY <3>2, <3>3, <3>4
    <3>6. waited' = [waited EXCEPT ![w] = ws]
      BY <3>1, <3>2
    <3> QED
      BY <1>f, <3>5, <3>6
  <2>11. WithinLimits(w)' /\ AtRest(w)'
    BY <1>0, <2>5, <2>6, <2>7, <2>9 DEF WithinLimits, AtRest
  <2> QED
    BY <1>f, <2>3, <2>4, <2>5, <2>6, <2>7, <2>8, <2>9, <2>10, <2>11, TypesKept
<1> QED
  BY <1>1, <1>2, <1>3, <1>4, <1>5 DEF TickStep

LEMMA FairTypeNext ==
  ASSUME FairTypeOK, \A w \in JobWorkers : AtRest(w), [FairNext]_fairVars
  PROVE  FairTypeOK' /\ \A w \in JobWorkers : AtRest(w)'
<1> DEFINE Goal == FairTypeOK' /\ \A w \in JobWorkers : AtRest(w)'
<1>0. OrgCount \in Nat /\ MaxBacklog \in Nat
  BY OrgsType
<1>1. ASSUME NEW o \in Orgs, Arrive(o)
      PROVE  Goal
  BY <1>0, <1>1 DEF Arrive, FairTypeOK, tick, AtRest
<1>2. ASSUME NEW o \in Orgs, ClaimedElsewhere(o)
      PROVE  Goal
  BY <1>0, <1>2 DEF ClaimedElsewhere, FairTypeOK, tick, AtRest
<1>3. ASSUME NEW w \in JobWorkers, TickStep(w)
      PROVE  Goal
  BY <1>3, FairTypeOwnStep
<1>4. CASE UNCHANGED fairVars
  BY <1>4 DEF fairVars, tick, FairTypeOK, AtRest
<1> QED
  BY <1>1, <1>2, <1>3, <1>4 DEF FairNext

------------------------------------------------------------------------------
(* Fair claims: the bounded wait *)

(* What the claims of others may do to the waits of v: an organization keeps   *)
(* what it has, or is served.                                              *)
KeptOrServed(v) ==
  \A o \in Orgs :
    \/ /\ waited'[v][o] = waited[v][o] /\ (o \in missed'[v] <=> o \in missed[v])
       /\ backlog[o] > 0 => backlog'[o] > 0
    \/ waited'[v][o] = 0 /\ o \notin missed'[v]

LEMMA WaitsKept ==
  ASSUME FairTypeOK, FairTypeOK', NEW v \in JobWorkers, SameTick(v), KeptOrServed(v),
         InOrder(v), Turns(v), Waits(v)
  PROVE  InOrder(v)' /\ Turns(v)' /\ Waits(v)'
<1>1. /\ \A o \in Orgs : waited[v][o] \in 0..OrgCount
      /\ afterOrgId[v] \in 0..OrgCount
      /\ missed[v] \subseteq Orgs /\ missed'[v] \subseteq Orgs
      /\ \A i \in DOMAIN orgIds[v] : orgIds[v][i] \in Orgs
      /\ OrgCount \in Nat
  BY FairFunctions, TickType, OrgsType DEF FairTypeOK
<1>2. missed'[v] \subseteq missed[v]
  BY <1>1 DEF KeptOrServed
<1>3. InOrder(v)'
  BY <1>2 DEF SameTick, InOrder
<1>4. Turns(v)'
  BY <1>1, <1>2 DEF SameTick, Turns
<1>5. ASSUME NEW o \in Orgs
      PROVE  /\ waited'[v][o] > 0 \/ o \in missed'[v] => backlog'[o] > 0
             /\ phase'[v] = "claim" /\ waited'[v][o] > 0 => o \in missed'[v]
             /\ waited'[v][o] + Dist(afterOrgId'[v], o) < OrgCount
  <2>1. afterOrgId'[v] = afterOrgId[v] /\ phase'[v] = phase[v]
    BY DEF SameTick
  <2>2. Dist(afterOrgId[v], o) \in 0..OrgCount - 1
    BY <1>1, DistType
  <2>3. /\ waited[v][o] > 0 \/ o \in missed[v] => backlog[o] > 0
        /\ phase[v] = "claim" /\ waited[v][o] > 0 => o \in missed[v]
        /\ waited[v][o] + Dist(afterOrgId[v], o) < OrgCount
    BY DEF Waits
  <2>4. CASE waited'[v][o] = 0 /\ o \notin missed'[v]
    BY <1>1, <2>1, <2>2, <2>4
  <2>5. CASE /\ waited'[v][o] = waited[v][o] /\ (o \in missed'[v] <=> o \in missed[v])
             /\ backlog[o] > 0 => backlog'[o] > 0
    BY <2>1, <2>3, <2>5
  <2> QED
    BY <2>4, <2>5 DEF KeptOrServed
<1>6. Waits(v)'
  BY <1>5 DEF Waits
<1> QED
  BY <1>3, <1>4, <1>6

LEMMA OthersKeptOrServed ==
  ASSUME FairTypeOK, NEW w \in JobWorkers, TickStep(w), NEW v \in JobWorkers, v # w
  PROVE  KeptOrServed(v)
<1>f. /\ backlog \in [Orgs -> 0..MaxBacklog]
      /\ missed \in [JobWorkers -> SUBSET Orgs]
      /\ waited \in [JobWorkers -> [Orgs -> 0..OrgCount]]
  BY FairFunctions
<1>1. CASE RunOnce(w) \/ WrapAround(w) \/ NothingReady(w) \/ NextRound(w)
  BY <1>1 DEF RunOnce, WrapAround, NothingReady, NextRound, KeptOrServed
<1>2. CASE ListOrganizations(w)
  <2>1. missed'[v] = missed[v] /\ waited' = waited /\ backlog' = backlog
    BY <1>2, <1>f DEF ListOrganizations
  <2> QED
    BY <2>1 DEF KeptOrServed
<1>3. CASE ClaimTurn(w)
  <2>1. PICK o : o = orgIds[w][turn[w]]
    OBVIOUS
  <2>2. o \in Orgs
    BY <1>3, <2>1, ClaimsType
  <2>3. \/ backlog' = backlog /\ missed' = missed /\ waited' = waited
        \/ /\ backlog' = [backlog EXCEPT ![o] = @ - 1]
           /\ missed' = [x \in JobWorkers |-> missed[x] \ {o}]
           /\ waited' = [x \in JobWorkers |-> [waited[x] EXCEPT ![o] = 0]]
    BY <1>3, <2>1, ClaimsType
  <2>4. CASE backlog' = backlog /\ missed' = missed /\ waited' = waited
    BY <2>4 DEF KeptOrServed
  <2>5. CASE /\ backlog' = [backlog EXCEPT ![o] = @ - 1]
             /\ missed' = [x \in JobWorkers |-> missed[x] \ {o}]
             /\ waited' = [x \in JobWorkers |-> [waited[x] EXCEPT ![o] = 0]]
    <3>1. missed'[v] = missed[v] \ {o} /\ waited'[v] = [waited[v] EXCEPT ![o] = 0]
      BY <2>5
    <3>2. waited[v] \in [Orgs -> 0..OrgCount]
      BY <1>f
    <3>3. \A q \in Orgs : q # o => backlog'[q] = backlog[q] /\ waited'[v][q] = waited[v][q]
      BY <1>f, <2>5, <3>1, <3>2
    <3>4. waited'[v][o] = 0
      BY <2>2, <3>1, <3>2
    <3> QED
      BY <3>1, <3>3, <3>4 DEF KeptOrServed
  <2> QED
    BY <2>3, <2>4, <2>5
<1>4. CASE EndTick(w)
  <2>1. missed' = missed /\ backlog' = backlog
    BY <1>4 DEF EndTick
  <2>2. waited'[v] = waited[v]
    BY <1>4, <1>f DEF EndTick
  <2> QED
    BY <2>1, <2>2 DEF KeptOrServed
<1> QED
  BY <1>1, <1>2, <1>3, <1>4 DEF TickStep

(* The cursor comes nearer to everybody that the tick missed. *)
LEMMA CursorNearer ==
  ASSUME FairTypeOK, NEW w \in JobWorkers, AtRest(w), InOrder(w), Turns(w),
         phase[w] = "claim", Done(w), NEW c, c = CursorAfter(claimed[w], orgIds[w]),
         NEW o \in missed[w]
  PROVE  Dist(c, o) < Dist(afterOrgId[w], o)
<1> DEFINE a == afterOrgId[w]
<1>1. /\ a \in 0..OrgCount /\ orgIds[w] # <<>> /\ missed[w] \subseteq Orgs
      /\ Len(orgIds[w]) \in Nat /\ DOMAIN orgIds[w] = 1..Len(orgIds[w])
      /\ \A i \in DOMAIN orgIds[w] : orgIds[w][i] \in Orgs
      /\ turn[w] \in Nat /\ Len(claimed[w]) \in Nat
      /\ claimed[w] \in Seq(Orgs)
  BY TickType DEF AtRest
<1>2. o \in Orgs /\ o \in Nat /\ OrgCount \in Nat /\ Orgs \subseteq Nat /\ TickSize \in Nat \ {0}
  BY <1>1, OrgsType
<1>3. /\ c \in Orgs
      /\ \/ \E k \in DOMAIN claimed[w] : c = claimed[w][k]
         \/ claimed[w] = <<>> /\ \E i \in DOMAIN orgIds[w] : c = orgIds[w][i]
  BY <1>1, CursorType
<1>4. PICK i \in DOMAIN orgIds[w] :
        c = orgIds[w][i] /\ (claimed[w] # <<>> /\ round[w] = 1 => i < turn[w])
  <2>1. CASE claimed[w] = <<>>
    <3>1. ~ \E k \in DOMAIN claimed[w] : TRUE
      BY <2>1
    <3> QED
      BY <1>3, <2>1, <3>1
  <2>2. CASE claimed[w] # <<>>
    BY <1>3, <2>2 DEF Turns
  <2> QED
    BY <2>1, <2>2
<1>5. a < c
  BY <1>4 DEF InOrder
<1>6. c \in Nat /\ a \in Nat /\ c <= OrgCount
  <2>1. c \in Nat /\ c <= OrgCount
    BY <1>3, OrgsType
  <2>2. a \in Nat
    BY <1>1, <1>2
  <2> QED
    BY <2>1, <2>2
<1>7. CASE o <= a
  BY <1>2, <1>5, <1>6, <1>7 DEF Dist
<1>8. CASE o > a
  <2>1. c < o
    <3>1. CASE \A j \in DOMAIN orgIds[w] : orgIds[w][j] < o
      BY <1>4, <3>1
    <3>2. CASE \E j \in DOMAIN orgIds[w] : orgIds[w][j] = o
      <4>1. PICK j \in DOMAIN orgIds[w] : orgIds[w][j] = o
        BY <3>2
      <4>2. round[w] = 1 /\ turn[w] <= j
        BY <4>1 DEF Turns
      <4>3. j \in Nat /\ j <= Len(orgIds[w]) /\ i \in Nat
        BY <1>1, <4>1
      <4>4. BatchFull(claimed[w])
        BY <1>1, <4>2, <4>3 DEF Done
      <4>5. claimed[w] # <<>>
        BY <1>1, <1>2, <4>4 DEF BatchFull
      <4>6. i < turn[w]
        BY <1>4, <4>2, <4>5
      <4>7. i < j
        BY <1>1, <4>2, <4>3, <4>6
      <4> QED
        BY <1>4, <4>1, <4>7 DEF InOrder
    <3> QED
      BY <1>8, <3>1, <3>2 DEF InOrder
  <2> QED
    BY <1>2, <1>5, <1>6, <1>8, <2>1 DEF Dist
<1> QED
  BY <1>2, <1>6, <1>7, <1>8

(* The claims of a worker that keeps its cursor bound what it lets wait. *)
LEMMA WaitsOwnStep ==
  ASSUME KeepsWorker, FairTypeOK, FairTypeOK', NEW w \in JobWorkers, TickStep(w), AtRest(w), AtRest(w)',
         InOrder(w), Turns(w), Waits(w)
  PROVE  InOrder(w)' /\ Turns(w)' /\ Waits(w)'
<1> DEFINE Goal == InOrder(w)' /\ Turns(w)' /\ Waits(w)'
<1>f. /\ backlog \in [Orgs -> 0..MaxBacklog]
      /\ afterOrgId \in [JobWorkers -> 0..OrgCount]
      /\ phase \in [JobWorkers -> {"idle", "list", "claim"}]
      /\ orgIds \in [JobWorkers -> Seq(Orgs)] /\ claimed \in [JobWorkers -> Seq(Orgs)]
      /\ turn \in [JobWorkers -> Nat \ {0}] /\ round \in [JobWorkers -> Nat \ {0}]
      /\ missed \in [JobWorkers -> SUBSET Orgs]
      /\ waited \in [JobWorkers -> [Orgs -> 0..OrgCount]]
  BY FairFunctions
<1>0. /\ OrgCount \in Nat /\ MaxBacklog \in Nat /\ Orgs \subseteq Nat
      /\ \A o \in Orgs : 1 <= o /\ o <= OrgCount
  BY OrgsType
<1>t. /\ afterOrgId[w] \in 0..OrgCount /\ turn[w] \in Nat /\ round[w] \in Nat
      /\ Len(orgIds[w]) \in Nat /\ DOMAIN orgIds[w] = 1..Len(orgIds[w])
      /\ Len(claimed[w]) \in Nat /\ DOMAIN claimed[w] = 1..Len(claimed[w])
      /\ \A i \in DOMAIN orgIds[w] : orgIds[w][i] \in Orgs
      /\ \A o \in Orgs : waited[w][o] \in 0..OrgCount
  BY <1>f, TickType
<1>1. CASE RunOnce(w) \/ NothingReady(w)
  <2>1. /\ UNCHANGED <<backlog, orgIds, turn, round, claimed, missed, waited>>
        /\ phase[w] # "claim" /\ afterOrgId' = afterOrgId
    BY <1>1 DEF RunOnce, NothingReady, tick
  <2>2. phase'[w] # "claim"
    BY <1>1, <1>f DEF RunOnce, NothingReady
  <2>3. InOrder(w)'
    BY <2>2 DEF InOrder
  <2>4. Turns(w)'
    BY <2>1, <2>2 DEF Turns
  <2>5. Waits(w)'
    BY <2>1, <2>2 DEF Waits
  <2> QED
    BY <2>3, <2>4, <2>5
<1>2. CASE WrapAround(w)
  <2>1. /\ UNCHANGED <<backlog, orgIds, turn, round, claimed, phase, missed, waited>>
        /\ phase[w] = "list" /\ afterOrgId'[w] = 0
        /\ \A o \in Orgs : ~(backlog[o] > 0 /\ o > afterOrgId[w])
    BY <1>2, <1>f DEF WrapAround, tick, Candidates
  <2>2. InOrder(w)' /\ Turns(w)'
    BY <2>1 DEF InOrder, Turns
  <2>3. ASSUME NEW o \in Orgs
        PROVE  waited[w][o] + Dist(0, o) < OrgCount
    <3>1. CASE waited[w][o] = 0
      BY <1>0, <3>1 DEF Dist
    <3>2. CASE waited[w][o] # 0
      <4>1. backlog[o] > 0 /\ waited[w][o] + Dist(afterOrgId[w], o) < OrgCount
        BY <1>t, <3>2 DEF Waits
      <4>2. ~(o > afterOrgId[w])
        BY <2>1, <4>1
      <4>3. Dist(0, o) <= Dist(afterOrgId[w], o) /\ Dist(0, o) \in Int /\ Dist(afterOrgId[w], o) \in Int
        BY <1>0, <1>t, <4>2 DEF Dist
      <4> QED
        BY <1>0, <1>t, <4>1, <4>3
    <3> QED
      BY <3>1, <3>2
  <2>4. Waits(w)'
    BY <2>1, <2>3 DEF Waits
  <2> QED
    BY <2>2, <2>4
<1>3. CASE ListOrganizations(w)
  <2>1. PICK page : page = Page(Candidates(w))
    OBVIOUS
  <2>2. /\ phase[w] = "list" /\ Candidates(w) # {}
        /\ orgIds'[w] = page /\ phase'[w] = "claim"
        /\ missed'[w] = {o \in Orgs : backlog[o] > 0}
        /\ UNCHANGED <<backlog, afterOrgId, turn, round, claimed, waited>>
    BY <1>3, <1>f, <2>1 DEF ListOrganizations
  <2>3. /\ \A i \in DOMAIN page : page[i] \in Candidates(w)
        /\ \A i, j \in DOMAIN page : i < j => page[i] < page[j]
        /\ \A o \in Candidates(w) : \/ \E j \in DOMAIN page : page[j] = o
                                    \/ \A i \in DOMAIN page : page[i] < o
        /\ DOMAIN page = 1..Len(page)
    <3>1. Candidates(w) \in SUBSET Orgs
      BY DEF Candidates
    <3> QED
      BY <2>1, <2>2, <3>1, PageOrdered
  <2>4. InOrder(w)'
    BY <2>2, <2>3 DEF InOrder, Candidates
  <2>5. claimed[w] = <<>> /\ turn[w] = 1 /\ round[w] = 1
    BY <2>2 DEF AtRest
  <2>6. Turns(w)'
    <3>1. DOMAIN claimed'[w] = {}
      BY <2>2, <2>5
    <3>2. \A j \in DOMAIN orgIds'[w] : round'[w] = 1 /\ turn'[w] <= j
      BY <2>2, <2>3, <2>5
    <3> QED
      BY <3>1, <3>2 DEF Turns
  <2>7. Waits(w)'
    BY <2>2 DEF Waits
  <2> QED
    BY <2>4, <2>6, <2>7
<1>4. CASE ClaimTurn(w)
  <2>1. PICK o : o = orgIds[w][turn[w]]
    OBVIOUS
  <2>2. /\ o \in Orgs /\ turn[w] \in DOMAIN orgIds[w]
        /\ phase[w] = "claim" /\ turn'[w] = turn[w] + 1
        /\ UNCHANGED <<afterOrgId, phase, orgIds, round>>
    BY <1>4, <1>f, <2>1, ClaimsType DEF ClaimTurn
  <2>3. \/ /\ backlog[o] = 0
           /\ backlog' = backlog /\ claimed' = claimed
           /\ missed' = missed /\ waited' = waited
        \/ /\ backlog' = [backlog EXCEPT ![o] = @ - 1]
           /\ claimed' = [claimed EXCEPT ![w] = Append(@, o)]
           /\ missed' = [x \in JobWorkers |-> missed[x] \ {o}]
           /\ waited' = [x \in JobWorkers |-> [waited[x] EXCEPT ![o] = 0]]
    BY <1>4, <2>1, ClaimsType
  <2>4. /\ o \notin missed'[w] /\ missed'[w] \subseteq missed[w]
        /\ waited'[w][o] = 0
        /\ \A q \in Orgs : q # o => /\ waited'[w][q] = waited[w][q] /\ backlog'[q] = backlog[q]
                                    /\ q \in missed[w] => q \in missed'[w]
        /\ \/ claimed'[w] = claimed[w]
           \/ claimed'[w] = Append(claimed[w], o)
    <3>1. CASE /\ backlog[o] = 0
               /\ backlog' = backlog /\ claimed' = claimed
               /\ missed' = missed /\ waited' = waited
      <4>1. o \notin missed[w] /\ ~(waited[w][o] > 0)
        BY <2>2, <3>1 DEF Waits
      <4> QED
        BY <1>t, <2>2, <3>1, <4>1
    <3>2. CASE /\ backlog' = [backlog EXCEPT ![o] = @ - 1]
               /\ claimed' = [claimed EXCEPT ![w] = Append(@, o)]
               /\ missed' = [x \in JobWorkers |-> missed[x] \ {o}]
               /\ waited' = [x \in JobWorkers |-> [waited[x] EXCEPT ![o] = 0]]
      <4>1. missed'[w] = missed[w] \ {o} /\ waited'[w] = [waited[w] EXCEPT ![o] = 0]
            /\ waited[w] \in [Orgs -> 0..OrgCount]
        BY <1>f, <3>2
      <4>2. waited'[w][o] = 0 /\ \A q \in Orgs : q # o => waited'[w][q] = waited[w][q]
        BY <2>2, <4>1
      <4>3. \A q \in Orgs : q # o => backlog'[q] = backlog[q]
        BY <1>f, <3>2
      <4>4. claimed'[w] = Append(claimed[w], o)
        BY <1>f, <3>2
      <4> QED
        BY <4>1, <4>2, <4>3, <4>4
    <3> QED
      BY <2>3, <3>1, <3>2
  <2>5. InOrder(w)'
    BY <2>2, <2>4 DEF InOrder
  <2>6. ASSUME NEW k \in DOMAIN claimed'[w]
        PROVE  \E i \in DOMAIN orgIds[w] :
                 claimed'[w][k] = orgIds[w][i] /\ (round[w] = 1 => i < turn[w] + 1)
    <3>1. ASSUME k \in DOMAIN claimed[w], claimed'[w][k] = claimed[w][k]
          PROVE  \E i \in DOMAIN orgIds[w] :
                   claimed'[w][k] = orgIds[w][i] /\ (round[w] = 1 => i < turn[w] + 1)
      <4>1. PICK i \in DOMAIN orgIds[w] :
              claimed[w][k] = orgIds[w][i] /\ (round[w] = 1 => i < turn[w])
        BY <3>1 DEF Turns
      <4>2. i < turn[w] => i < turn[w] + 1
        BY <1>t
      <4> QED
        BY <3>1, <4>1, <4>2
    <3>2. CASE claimed'[w] = claimed[w]
      BY <3>1, <3>2
    <3>3. CASE claimed'[w] = Append(claimed[w], o)
      <4>1. /\ claimed[w] \in Seq(Orgs)
            /\ Len(Append(claimed[w], o)) = Len(claimed[w]) + 1
            /\ \A x \in 1..Len(claimed[w]) : Append(claimed[w], o)[x] = claimed[w][x]
            /\ Append(claimed[w], o)[Len(claimed[w]) + 1] = o
            /\ DOMAIN Append(claimed[w], o) = 1..Len(claimed[w]) + 1
        BY <1>f, <2>2
      <4>2. CASE k \in 1..Len(claimed[w])
        BY <1>t, <3>1, <3>3, <4>1, <4>2
      <4>3. CASE k = Len(claimed[w]) + 1
        <5>1. claimed'[w][k] = o
          BY <3>3, <4>1, <4>3
        <5>2. turn[w] < turn[w] + 1
          BY <1>t
        <5> QED
          BY <2>1, <2>2, <5>1, <5>2
      <4> QED
        BY <1>t, <2>6, <3>3, <4>1, <4>2, <4>3
    <3> QED
      BY <2>4, <3>2, <3>3
  <2>7. ASSUME NEW j \in DOMAIN orgIds[w], orgIds[w][j] \in missed'[w]
        PROVE  round[w] = 1 /\ turn[w] + 1 <= j
    <3>1. round[w] = 1 /\ turn[w] <= j
      BY <2>2, <2>4, <2>7 DEF Turns
    <3>2. j # turn[w] /\ j \in Nat
      BY <1>t, <2>1, <2>4, <2>7
    <3> QED
      BY <1>t, <3>1, <3>2
  <2>8. Turns(w)'
    BY <2>2, <2>6, <2>7 DEF Turns
  <2>9. ASSUME NEW q \in Orgs
        PROVE  /\ waited'[w][q] > 0 \/ q \in missed'[w] => backlog'[q] > 0
               /\ phase'[w] = "claim" /\ waited'[w][q] > 0 => q \in missed'[w]
               /\ waited'[w][q] + Dist(afterOrgId'[w], q) < OrgCount
    <3>1. CASE q = o
      <4>1. Dist(afterOrgId[w], q) \in 0..OrgCount - 1
        BY <1>t, DistType
      <4> QED
        BY <1>0, <2>2, <2>4, <3>1, <4>1
    <3>2. CASE q # o
      BY <2>2, <2>4, <3>2 DEF Waits
    <3> QED
      BY <3>1, <3>2
  <2>10. Waits(w)'
    BY <2>9 DEF Waits
  <2> QED
    BY <2>5, <2>8, <2>10
<1>5. CASE NextRound(w)
  <2>1. /\ phase[w] = "claim" /\ turn[w] > Len(orgIds[w])
        /\ turn'[w] = 1 /\ round'[w] = round[w] + 1
        /\ UNCHANGED <<backlog, afterOrgId, phase, orgIds, claimed, missed, waited>>
    BY <1>5, <1>f DEF NextRound
  <2>2. InOrder(w)' /\ Waits(w)'
    BY <2>1 DEF InOrder, Waits
  <2>3. round'[w] # 1
    <3>1. round[w] \in Nat \ {0}
      BY <1>f
    <3> QED
      BY <2>1, <3>1
  <2>4. \A j \in DOMAIN orgIds[w] : orgIds[w][j] \notin missed[w]
    BY <1>t, <2>1 DEF Turns
  <2>5. \A k \in DOMAIN claimed[w] : \E i \in DOMAIN orgIds[w] : claimed[w][k] = orgIds[w][i]
    BY DEF Turns
  <2>6. Turns(w)'
    BY <2>1, <2>3, <2>4, <2>5 DEF Turns
  <2> QED
    BY <2>2, <2>6
<1>6. CASE EndTick(w)
  <2>1. PICK c : c = CursorAfter(claimed[w], orgIds[w])
    OBVIOUS
  <2>2. /\ phase[w] = "claim" /\ Done(w)
        /\ afterOrgId'[w] = c /\ phase'[w] = "idle"
        /\ waited'[w] = [o \in Orgs |-> IF o \in missed[w] THEN Min({OrgCount, waited[w][o] + 1})
                                        ELSE waited[w][o]]
        /\ orgIds'[w] = <<>> /\ claimed'[w] = <<>>
        /\ UNCHANGED <<backlog, missed>>
    BY <1>6, <1>f, <2>1 DEF EndTick
  <2>3. InOrder(w)'
    BY <2>2 DEF InOrder
  <2>4. DOMAIN claimed'[w] = {} /\ DOMAIN orgIds'[w] = {}
    BY <2>2
  <2>5. Turns(w)'
    BY <2>4 DEF Turns
  <2>6. ASSUME NEW o \in Orgs
        PROVE  /\ waited'[w][o] > 0 \/ o \in missed'[w] => backlog'[o] > 0
               /\ phase'[w] = "claim" /\ waited'[w][o] > 0 => o \in missed'[w]
               /\ waited'[w][o] + Dist(afterOrgId'[w], o) < OrgCount
    <3>1. c \in Orgs
      BY <2>1, <2>2, CursorType DEF AtRest
    <3>2. /\ waited[w][o] + Dist(afterOrgId[w], o) < OrgCount
          /\ waited[w][o] > 0 => o \in missed[w]
          /\ o \in missed[w] => backlog[o] > 0
      BY <2>2 DEF Waits
    <3>3. /\ Dist(c, o) \in 0..OrgCount - 1 /\ Dist(afterOrgId[w], o) \in 0..OrgCount - 1
          /\ waited[w][o] \in Nat
      BY <1>0, <1>t, <3>1, DistType
    <3>4. CASE o \in missed[w]
      <4>1. Dist(c, o) < Dist(afterOrgId[w], o)
        BY <2>1, <2>2, <3>4, CursorNearer
      <4>2. waited[w][o] + 1 + Dist(c, o) < OrgCount
        <5>1. \A x, d, e, n \in Int : x + d < n /\ e < d => x + 1 + e < n
          OBVIOUS
        <5>2. /\ waited[w][o] \in Int /\ OrgCount \in Int
              /\ Dist(c, o) \in Int /\ Dist(afterOrgId[w], o) \in Int
          BY <1>0, <3>3
        <5> QED
          BY <3>2, <4>1, <5>1, <5>2
      <4>3. Min({OrgCount, waited[w][o] + 1}) = waited[w][o] + 1
        <5>1. OrgCount \in Nat /\ waited[w][o] + 1 \in Nat /\ Dist(c, o) \in Nat
          BY <1>0, <3>3
        <5>2. ~(OrgCount <= waited[w][o] + 1)
          BY <4>2, <5>1
        <5> QED
          BY <5>1, <5>2, MinTwo
      <4>4. waited'[w][o] = waited[w][o] + 1
        BY <2>2, <3>4, <4>3
      <4> QED
        BY <2>2, <3>2, <3>4, <4>2, <4>4
    <3>5. CASE o \notin missed[w]
      <4>1. waited[w][o] = 0
        BY <3>2, <3>3, <3>5
      <4>2. waited'[w][o] = 0
        BY <2>2, <3>5, <4>1
      <4> QED
        BY <1>0, <2>2, <3>3, <3>5, <4>2
    <3> QED
      BY <3>4, <3>5
  <2>7. Waits(w)'
    BY <2>6 DEF Waits
  <2> QED
    BY <2>3, <2>5, <2>7
<1> QED
  BY <1>1, <1>2, <1>3, <1>4, <1>5, <1>6 DEF TickStep

LEMMA FairInvInit == FairInit => FairInv
<1> SUFFICES ASSUME FairInit
             PROVE  FairInv
  OBVIOUS
<1>1. FairTypeOK /\ \A w \in JobWorkers : AtRest(w)
  BY FairTypeInit
<1>2. ASSUME NEW w \in JobWorkers
      PROVE  InOrder(w) /\ Turns(w) /\ Waits(w)
  <2>1. /\ phase[w] = "idle" /\ afterOrgId[w] = 0 /\ missed[w] = {}
        /\ orgIds[w] = <<>> /\ claimed[w] = <<>>
        /\ \A o \in Orgs : waited[w][o] = 0
    BY DEF FairInit
  <2>2. InOrder(w)
    BY <2>1 DEF InOrder
  <2>3. DOMAIN claimed[w] = {} /\ DOMAIN orgIds[w] = {}
    BY <2>1
  <2>4. Turns(w)
    BY <2>3 DEF Turns
  <2>5. Waits(w)
    <3>1. OrgCount \in Nat /\ 0 \in 0..OrgCount
      BY OrgsType
    <3>2. \A o \in Orgs : 0 + Dist(0, o) < OrgCount
      BY <3>1, DistType
    <3> QED
      BY <2>1, <3>2 DEF Waits
  <2> QED
    BY <2>2, <2>4, <2>5
<1> QED
  BY <1>1, <1>2 DEF FairInv

LEMMA FairInvNext ==
  ASSUME KeepsWorker, FairInv, [FairNext]_fairVars
  PROVE  FairInv'
<1>1. FairTypeOK' /\ \A w \in JobWorkers : AtRest(w)'
  BY FairTypeNext DEF FairInv
<1>f. /\ backlog \in [Orgs -> 0..MaxBacklog]
      /\ missed \in [JobWorkers -> SUBSET Orgs]
      /\ waited \in [JobWorkers -> [Orgs -> 0..OrgCount]]
      /\ MaxBacklog \in Nat
  BY FairFunctions, OrgsType DEF FairInv
<1>2. ASSUME NEW v \in JobWorkers, SameTick(v), KeptOrServed(v)
      PROVE  InOrder(v)' /\ Turns(v)' /\ Waits(v)'
  BY <1>1, <1>2, WaitsKept DEF FairInv
<1>3. ASSUME NEW v \in JobWorkers
      PROVE  InOrder(v)' /\ Turns(v)' /\ Waits(v)'
  <2>1. CASE \E o \in Orgs : Arrive(o)
    <3>1. PICK o \in Orgs : Arrive(o)
      BY <2>1
    <3>2. SameTick(v)
      BY <3>1 DEF Arrive, tick, SameTick
    <3>3. KeptOrServed(v)
      BY <1>f, <3>1 DEF Arrive, KeptOrServed
    <3> QED
      BY <1>2, <3>2, <3>3
  <2>2. CASE \E o \in Orgs : ClaimedElsewhere(o)
    <3>1. PICK o \in Orgs : ClaimedElsewhere(o)
      BY <2>2
    <3>2. SameTick(v)
      BY <3>1 DEF ClaimedElsewhere, tick, SameTick
    <3>3. missed'[v] = missed[v] \ {o} /\ waited'[v] = [waited[v] EXCEPT ![o] = 0]
          /\ backlog' = [backlog EXCEPT ![o] = @ - 1]
      BY <3>1 DEF ClaimedElsewhere
    <3>4. \A q \in Orgs : q # o => backlog'[q] = backlog[q] /\ waited'[v][q] = waited[v][q]
      BY <1>f, <3>3
    <3>5. waited'[v][o] = 0
      BY <1>f, <3>3
    <3>6. KeptOrServed(v)
      BY <3>3, <3>4, <3>5 DEF KeptOrServed
    <3> QED
      BY <1>2, <3>2, <3>6
  <2>3. CASE \E w \in JobWorkers : TickStep(w)
    <3>1. PICK w \in JobWorkers : TickStep(w)
      BY <2>3
    <3>2. CASE w = v
      BY <1>1, <3>1, <3>2, WaitsOwnStep DEF FairInv
    <3>3. CASE w # v
      BY <1>2, <3>1, <3>3, OthersKeepTick, OthersKeptOrServed DEF FairInv
    <3> QED
      BY <3>2, <3>3
  <2>4. CASE UNCHANGED fairVars
    <3>1. SameTick(v) /\ KeptOrServed(v)
      BY <2>4 DEF fairVars, tick, SameTick, KeptOrServed
    <3> QED
      BY <1>2, <3>1
  <2> QED
    BY <2>1, <2>2, <2>3, <2>4 DEF FairNext
<1> QED
  BY <1>1, <1>3 DEF FairInv

(* Every variable of the claims has its type, a page holds at most             *)
(* maxOrganizations, a batch at most batchSize, and the rounds end at           *)
(* maxPerOrganization, whether the worker outlives its tick or not.           *)
THEOREM FairTypes == FairSpec => []FairTypeOK
<1> DEFINE TInv == FairTypeOK /\ \A w \in JobWorkers : AtRest(w)
<1>1. FairInit => TInv
  BY FairTypeInit
<1>2. TInv /\ [FairNext]_fairVars => TInv'
  BY FairTypeNext
<1>3. TInv => FairTypeOK
  OBVIOUS
<1> HIDE DEF TInv
<1> QED
  BY <1>1, <1>2, <1>3, PTL DEF FairSpec

(* A worker that keeps its cursor passes an organization with something ready  *)
(* at most OrgCount - 1 times in a row: each tick that missed it leaves the     *)
(* cursor nearer to it, however many organizations, workers and events there   *)
(* are and however small the page and the batch.                            *)
THEOREM WaitIsBounded ==
  ASSUME KeepsWorker
  PROVE  FairSpec => []BoundedWait
<1>1. FairInit => FairInv
  BY FairInvInit
<1>2. FairInv /\ [FairNext]_fairVars => FairInv'
  BY FairInvNext
<1>3. FairInv => BoundedWait
  <2> SUFFICES ASSUME FairInv, NEW w \in JobWorkers, NEW o \in Orgs
               PROVE  waited[w][o] < OrgCount
    BY DEF BoundedWait
  <2>1. waited[w][o] + Dist(afterOrgId[w], o) < OrgCount
    BY DEF FairInv, Waits
  <2>2. /\ waited[w][o] \in 0..OrgCount /\ afterOrgId[w] \in 0..OrgCount
        /\ OrgCount \in Nat
    BY FairFunctions, OrgsType DEF FairInv
  <2>3. Dist(afterOrgId[w], o) \in 0..OrgCount - 1
    BY <2>2, DistType
  <2> QED
    BY <2>1, <2>2, <2>3
<1> QED
  BY <1>1, <1>2, <1>3, PTL DEF FairSpec

------------------------------------------------------------------------------
(* Fair claims: the bounded share *)

Distinct(w) ==
  \A i, j \in DOMAIN orgIds[w] : i # j => orgIds[w][i] # orgIds[w][j]

(* In each round everybody on the page has got one more, unless it had nothing. *)
Due(w, i) == (round[w] - 1) + (IF i < turn[w] THEN 1 ELSE 0)

Shares(w) ==
  \A i \in DOMAIN orgIds[w] :
    /\ Share(w, orgIds[w][i]) <= Due(w, i)
    /\ orgIds[w][i] \in drained[w] \/ Share(w, orgIds[w][i]) = Due(w, i)

ShareInv ==
  /\ FairTypeOK
  /\ \A w \in JobWorkers : AtRest(w) /\ Distinct(w) /\ Shares(w)

(* How often o is in a sequence of claims *)
Got(cs, o) == Cardinality({i \in DOMAIN cs : cs[i] = o})

LEMMA ShareIsGot == \A w, o : Share(w, o) = Got(claimed[w], o)
BY DEF Share, Got

LEMMA GotEmpty == \A o : Got(<<>>, o) = 0
<1>1. \A o : {i \in DOMAIN <<>> : <<>>[i] = o} = {}
  OBVIOUS
<1> QED
  BY <1>1, FS_EmptySet DEF Got

LEMMA GotAppend ==
  ASSUME NEW cs \in Seq(Orgs), NEW o \in Orgs, NEW q
  PROVE  /\ Got(cs, q) \in Nat
         /\ Got(Append(cs, o), q) = IF q = o THEN Got(cs, q) + 1 ELSE Got(cs, q)
<1> DEFINE n == Len(cs)
           D == {i \in DOMAIN cs : cs[i] = q}
           E == {i \in DOMAIN Append(cs, o) : Append(cs, o)[i] = q}
<1>1. /\ n \in Nat /\ DOMAIN cs = 1..n /\ DOMAIN Append(cs, o) = 1..(n + 1)
      /\ \A i \in 1..n : Append(cs, o)[i] = cs[i]
      /\ Append(cs, o)[n + 1] = o
  OBVIOUS
<1>2. IsFiniteSet(D)
  <2>1. IsFiniteSet(1..n)
    BY <1>1, FS_Interval
  <2>2. D \subseteq 1..n
    BY <1>1
  <2> QED
    BY <2>1, <2>2, FS_Subset
<1>3. Cardinality(D) \in Nat /\ n + 1 \notin D
  BY <1>1, <1>2, FS_CardinalityType
<1>4. CASE q = o
  <2>1. E = D \union {n + 1}
    BY <1>1, <1>4
  <2>2. Cardinality(E) = Cardinality(D) + 1
    BY <1>2, <1>3, <2>1, FS_AddElement
  <2> QED
    BY <1>3, <1>4, <2>2 DEF Got
<1>5. CASE q # o
  <2>1. E = D
    BY <1>1, <1>5
  <2> QED
    BY <1>3, <1>5, <2>1 DEF Got
<1> QED
  BY <1>4, <1>5

LEMMA SharesKept ==
  ASSUME NEW v \in JobWorkers, SameTick(v), Distinct(v), Shares(v)
  PROVE  Distinct(v)' /\ Shares(v)'
<1>1. Distinct(v)'
  BY DEF SameTick, Distinct
<1>2. \A o : Share(v, o)' = Share(v, o)
  BY DEF SameTick, Share
<1>3. \A i : Due(v, i)' = Due(v, i)
  BY DEF SameTick, Due
<1> QED
  BY <1>1, <1>2, <1>3 DEF SameTick, Shares

LEMMA SharesOwnStep ==
  ASSUME FairTypeOK, NEW w \in JobWorkers, TickStep(w), AtRest(w), AtRest(w)',
         Distinct(w), Shares(w)
  PROVE  Distinct(w)' /\ Shares(w)'
<1>f. /\ phase \in [JobWorkers -> {"idle", "list", "claim"}]
      /\ orgIds \in [JobWorkers -> Seq(Orgs)] /\ claimed \in [JobWorkers -> Seq(Orgs)]
      /\ turn \in [JobWorkers -> Nat \ {0}] /\ round \in [JobWorkers -> Nat \ {0}]
      /\ drained \in [JobWorkers -> SUBSET Orgs]
  BY FairFunctions
<1>t. /\ turn[w] \in Nat /\ round[w] \in Nat \ {0}
      /\ Len(orgIds[w]) \in Nat /\ DOMAIN orgIds[w] = 1..Len(orgIds[w])
      /\ \A i \in DOMAIN orgIds[w] : orgIds[w][i] \in Orgs
      /\ claimed[w] \in Seq(Orgs)
  BY <1>f, TickType
<1>1. CASE RunOnce(w) \/ WrapAround(w) \/ NothingReady(w)
  <2>1. UNCHANGED <<orgIds, turn, round, claimed, drained>>
    BY <1>1 DEF RunOnce, WrapAround, NothingReady, tick
  <2>2. \A o : Share(w, o)' = Share(w, o)
    BY <2>1 DEF Share
  <2>3. \A i : Due(w, i)' = Due(w, i)
    BY <2>1 DEF Due
  <2> QED
    BY <2>1, <2>2, <2>3 DEF Distinct, Shares
<1>2. CASE ListOrganizations(w)
  <2>1. PICK page : page = Page(Candidates(w))
    OBVIOUS
  <2>2. /\ phase[w] = "list" /\ Candidates(w) # {} /\ orgIds'[w] = page
        /\ UNCHANGED <<turn, round, claimed, drained>>
    BY <1>2, <1>f, <2>1 DEF ListOrganizations
  <2>3. /\ \A i, j \in DOMAIN page : i < j => page[i] < page[j]
        /\ \A i \in DOMAIN page : page[i] \in Nat
        /\ DOMAIN page = 1..Len(page) /\ Len(page) \in Nat
    <3>1. Candidates(w) \in SUBSET Orgs /\ Orgs \subseteq Nat
      BY OrgsType DEF Candidates
    <3>2. /\ \A i, j \in DOMAIN page : i < j => page[i] < page[j]
          /\ \A i \in DOMAIN page : page[i] \in Candidates(w)
          /\ page \in Seq(Orgs)
      BY <2>1, <2>2, <3>1, PageOrdered
    <3>3. \A i \in DOMAIN page : page[i] \in Nat
      BY <3>1, <3>2
    <3>4. DOMAIN page = 1..Len(page) /\ Len(page) \in Nat
      BY <3>2, LenProperties
    <3> QED
      BY <3>2, <3>3, <3>4
  <2>4. Distinct(w)'
    BY <2>2, <2>3 DEF Distinct
  <2>5. claimed[w] = <<>> /\ turn[w] = 1 /\ round[w] = 1
    BY <2>2 DEF AtRest
  <2>6. \A o : Share(w, o)' = 0
    BY <2>2, <2>5, GotEmpty DEF Share, Got
  <2>7. \A i \in DOMAIN page : Due(w, i)' = 0
    BY <2>2, <2>3, <2>5 DEF Due
  <2> QED
    BY <2>2, <2>4, <2>6, <2>7 DEF Shares
<1>3. CASE ClaimTurn(w)
  <2>1. PICK o : o = orgIds[w][turn[w]]
    OBVIOUS
  <2>2. /\ o \in Orgs /\ turn[w] \in DOMAIN orgIds[w]
        /\ turn'[w] = turn[w] + 1
        /\ UNCHANGED <<orgIds, round>>
    BY <1>3, <1>f, <2>1, ClaimsType DEF ClaimTurn
  <2>3. \/ /\ claimed'[w] = claimed[w]
           /\ drained'[w] = drained[w] \union {o}
        \/ /\ claimed'[w] = Append(claimed[w], o)
           /\ drained'[w] = drained[w]
    <3>1. \/ claimed' = claimed /\ drained' = [drained EXCEPT ![w] = @ \union {o}]
          \/ claimed' = [claimed EXCEPT ![w] = Append(@, o)] /\ drained' = drained
      BY <1>3, <2>1, ClaimsType
    <3> QED
      BY <1>f, <3>1
  <2>4. Distinct(w)'
    BY <2>2 DEF Distinct
  <2>5. ASSUME NEW i \in DOMAIN orgIds[w]
        PROVE  LET q == orgIds[w][i] IN
               /\ Got(claimed'[w], q) <= Due(w, i)'
               /\ q \in drained'[w] \/ Got(claimed'[w], q) = Due(w, i)'
    <3> DEFINE q == orgIds[w][i]
               g == Got(claimed[w], q)
               d == Due(w, i)
    <3>1. g <= d /\ (q \in drained[w] \/ g = d)
      BY ShareIsGot DEF Shares
    <3>2. /\ g \in Nat /\ d \in Nat
          /\ Got(Append(claimed[w], o), q) = IF q = o THEN g + 1 ELSE g
      BY <1>t, <2>2, GotAppend DEF Due
    <3>3. i = turn[w] <=> q = o
      BY <2>1, <2>2 DEF Distinct
    <3>4. Due(w, i)' = IF i = turn[w] THEN d + 1 ELSE d
      BY <1>t, <2>2 DEF Due
    <3>5. CASE claimed'[w] = claimed[w] /\ drained'[w] = drained[w] \union {o}
      BY <3>1, <3>2, <3>3, <3>4, <3>5
    <3>6. CASE claimed'[w] = Append(claimed[w], o) /\ drained'[w] = drained[w]
      BY <3>1, <3>2, <3>3, <3>4, <3>6
    <3> QED
      BY <2>3, <3>5, <3>6
  <2>6. \A q : Share(w, q)' = Got(claimed'[w], q)
    BY DEF Share, Got
  <2>7. Shares(w)'
    BY <2>2, <2>5, <2>6 DEF Shares
  <2> QED
    BY <2>4, <2>7
<1>4. CASE NextRound(w)
  <2>1. /\ turn[w] > Len(orgIds[w]) /\ turn'[w] = 1 /\ round'[w] = round[w] + 1
        /\ UNCHANGED <<orgIds, claimed, drained>>
    BY <1>4, <1>f DEF NextRound
  <2>2. \A q : Share(w, q)' = Share(w, q)
    BY <2>1 DEF Share
  <2>3. \A i \in DOMAIN orgIds[w] : Due(w, i)' = Due(w, i)
    BY <1>t, <2>1 DEF Due
  <2> QED
    BY <2>1, <2>2, <2>3 DEF Distinct, Shares
<1>5. CASE EndTick(w)
  <2>1. orgIds'[w] = <<>>
    BY <1>5, <1>f DEF EndTick
  <2>2. DOMAIN orgIds'[w] = {}
    BY <2>1
  <2> QED
    BY <2>2 DEF Distinct, Shares
<1> QED
  BY <1>1, <1>2, <1>3, <1>4, <1>5 DEF TickStep

LEMMA ShareInvNext ==
  ASSUME ShareInv, [FairNext]_fairVars
  PROVE  ShareInv'
<1>1. FairTypeOK' /\ \A w \in JobWorkers : AtRest(w)'
  BY FairTypeNext DEF ShareInv
<1>2. ASSUME NEW v \in JobWorkers
      PROVE  Distinct(v)' /\ Shares(v)'
  <2>1. CASE (\E o \in Orgs : Arrive(o) \/ ClaimedElsewhere(o)) \/ UNCHANGED fairVars
    <3>1. SameTick(v)
      BY <2>1 DEF Arrive, ClaimedElsewhere, fairVars, tick, SameTick
    <3> QED
      BY <3>1, SharesKept DEF ShareInv
  <2>2. CASE \E w \in JobWorkers : TickStep(w)
    <3>1. PICK w \in JobWorkers : TickStep(w)
      BY <2>2
    <3>2. CASE w = v
      BY <1>1, <3>1, <3>2, SharesOwnStep DEF ShareInv
    <3>3. CASE w # v
      BY <3>1, <3>3, OthersKeepTick, SharesKept DEF ShareInv
    <3> QED
      BY <3>2, <3>3
  <2> QED
    BY <2>1, <2>2 DEF FairNext
<1> QED
  BY <1>1, <1>2 DEF ShareInv

(* No backlog monopolizes a batch, whatever the worker's cursor does: as long   *)
(* as an organization of the page has not come up empty, no other one is more   *)
(* than one claim ahead of it.                                              *)
THEOREM ShareIsBounded == FairSpec => []BoundedShare
<1>1. FairInit => ShareInv
  <2> SUFFICES ASSUME FairInit PROVE ShareInv
    OBVIOUS
  <2>1. FairTypeOK /\ \A w \in JobWorkers : AtRest(w)
    BY FairTypeInit
  <2>2. \A w \in JobWorkers : DOMAIN orgIds[w] = {}
    BY DEF FairInit
  <2> QED
    BY <2>1, <2>2 DEF ShareInv, Distinct, Shares
<1>2. ShareInv /\ [FairNext]_fairVars => ShareInv'
  BY ShareInvNext
<1>3. ShareInv => BoundedShare
  <2> SUFFICES ASSUME ShareInv, NEW w \in JobWorkers, NEW i \in DOMAIN orgIds[w],
                      NEW j \in DOMAIN orgIds[w], orgIds[w][j] \notin drained[w]
               PROVE  ~(Share(w, orgIds[w][i]) > Share(w, orgIds[w][j]) + 1)
    BY DEF BoundedShare
  <2>1. /\ Share(w, orgIds[w][i]) <= Due(w, i)
        /\ Share(w, orgIds[w][j]) = Due(w, j)
    BY DEF ShareInv, Shares
  <2>2. Share(w, orgIds[w][i]) \in Nat /\ round[w] \in Nat /\ turn[w] \in Nat
    <3>1. /\ claimed[w] \in Seq(Orgs) /\ round[w] \in Nat /\ turn[w] \in Nat
          /\ orgIds[w][i] \in Orgs
      BY TickType DEF ShareInv
    <3> QED
      BY <3>1, ShareIsGot, GotAppend
  <2>3. Due(w, i) <= Due(w, j) + 1 /\ Due(w, i) \in Int /\ Due(w, j) \in Int
    BY <2>2 DEF Due
  <2> QED
    BY <2>1, <2>2, <2>3
<1> QED
  BY <1>1, <1>2, <1>3, PTL DEF FairSpec

================================================================================
