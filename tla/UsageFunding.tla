----------------------------- MODULE UsageFunding -----------------------------
(***************************************************************************)
(* Usage funding of one workspace: application/usageFunding.js and         *)
(* application/settleUsage.js over modules/funding, modules/credits and    *)
(* modules/postpaid.                                                       *)
(*                                                                         *)
(* A usage operation is funded ahead: reserveUsage holds prepaid credits   *)
(* (positions of credit grants) and, past them, postpaid exposure.         *)
(* extendUsage adds to the hold, releaseUsage gives it back. What was      *)
(* really used arrives as usage events; the revisions of a component are   *)
(* cumulative, and settle charges the difference to the hold, or restores  *)
(* it when a later revision is lower. The expiry job empties grants that   *)
(* are due.                                                                *)
(*                                                                         *)
(* Each command is one callback of the unit of work, so the commands of an *)
(* organization do not interleave (UnitOfWork.tla, LockSerializes) and a   *)
(* command that throws leaves nothing behind. The loop iterations of a     *)
(* callback are steps of their own: they work on tx.draft, which becomes   *)
(* the ledger when the transaction commits.                                *)
(***************************************************************************)
EXTENDS Integers, Sequences, FiniteSets, FiniteSetsExt, Functions

CONSTANTS
  Grants,         \* credit grants with a position in the workspace's pool
  Kind,           \* "subscription" or "topup"
  ExpiresAt,      \* when a grant expires, or Never
  IdOrder,        \* order of the grant ids
  Granted,        \* units of each grant allocated to the workspace
  Reservations,   \* usage operations; each has at most one reservation
  Components,     \* priced components (source, component key) of usage
  OperationOf,    \* the usage operation a component belongs to
  MaxRevision,    \* bound: revisions of a component
  PostpaidMode,   \* "disabled", "limited" or "unlimited"
  PostpaidLimit,  \* cycle limit of a limited workspace
  CycleCap,       \* workspace cycle cap, or None
  MaxUnits,       \* bound: units of one request or event
  MaxVersion,     \* bound: changes of one reservation
  MaxTime,        \* bound: instants
  MaxWait,        \* bound: instants a command waits for its transaction
  Never, None, Postpaid, NoTx

ASSUME FundingAssumption ==
  /\ IsFiniteSet(Grants) /\ IsFiniteSet(Reservations) /\ IsFiniteSet(Components)
  /\ Kind \in [Grants -> {"subscription", "topup"}]
  /\ ExpiresAt \in [Grants -> Nat \union {Never}]
  /\ Never \notin Nat
  /\ IdOrder \in [Grants -> Nat]
  /\ Granted \in [Grants -> Nat]
  /\ OperationOf \in [Components -> Reservations]
  /\ PostpaidMode \in {"disabled", "limited", "unlimited"}
  /\ PostpaidLimit \in Nat
  /\ CycleCap \in Nat \union {None}
  /\ None \notin Nat
  /\ MaxRevision \in Nat /\ MaxUnits \in Nat /\ MaxVersion \in Nat
  /\ MaxTime \in Nat /\ MaxWait \in Nat
  /\ Postpaid \notin Grants

VARIABLES
  clock,    \* the time
  ledger,   \* the committed billing tables
  tx        \* the open transaction, or NoTx

vars == <<clock, ledger, tx>>

------------------------------------------------------------------------------
(* The tables *)

Sources == Grants \union {Postpaid}
Events == Components \X (1..MaxRevision)
Instants == 0..MaxTime
Open == {"reserved", "partially_consumed"}
Closed == {"settled", "released"}

Line == [source: Sources, held: Nat, consumed: Nat, released: Nat]

Reservation == [status: {"none"} \union Open \union Closed,
                version: 0..MaxVersion, until: Nat]

Event == [units: 0..MaxUnits, at: Instants]

Ledger ==
  [balance: [Grants -> Nat],        \* positions: balance_units
   held: [Grants -> Nat],           \* positions: reserved_units
   expired: [Grants -> Nat],        \* units moved to the expiry clearing account
   active: [Grants -> BOOLEAN],     \* grant status: active, or expired
   swept: [Grants -> BOOLEAN],      \* the expiry command of the position is done
   exposure: [reserved: Nat, settled: Nat],  \* postpaid totals of the period
   reservation: [Reservations -> Reservation],
   lines: [Reservations -> Seq(Line)],
   event: [Events -> Event \union {None}],   \* recorded usage events
   charge: [Events -> [Sources -> Int]],     \* journal entries of each event
   settled: SUBSET Events,          \* history: events whose settlement committed
   unposted: SUBSET Events,         \* history: those of which one left no journal entry
   outOfTurn: SUBSET Components,    \* history: components with one settled out of turn
   forfeited: [Events -> Nat]]      \* history: units an event did not restore

Remaining(line) == line.held - line.consumed - line.released

(* Lines of a reservation with units that are neither used nor given back. *)
Unused(lines) == {i \in DOMAIN lines : Remaining(lines[i]) > 0}

(* The next line a loop over the lines acts on: in order, skipping used up ones. *)
NextUnused(lines, i) ==
  /\ i \in Unused(lines)
  /\ \A j \in Unused(lines) : i <= j

SmallerOf(a, b) == IF a < b THEN a ELSE b

Due(g, t) == ExpiresAt[g] # Never /\ t >= ExpiresAt[g]

(* What the planners call an expired grant. *)
Expired(d, g, now) == ~d.active[g] \/ Due(g, now)

(* The lines of the reservations R on the sources S, and the units they hold. *)
LinesOn(d, R, S) ==
  {x \in UNION {{r} \X DOMAIN d.lines[r] : r \in R} :
     d.lines[x[1]][x[2]].source \in S}

HeldBy(d, R, S) ==
  SumFunction([x \in LinesOn(d, R, S) |-> Remaining(d.lines[x[1]][x[2]])])

(* Units the events E were charged to the sources S, less what was restored. *)
Charged(d, E, S) == SumFunction([x \in E \X S |-> d.charge[x[1]][x[2]]])

FundingInit ==
  /\ clock = 0
  /\ ledger =
       [balance |-> Granted,
        held |-> [g \in Grants |-> 0],
        expired |-> [g \in Grants |-> 0],
        active |-> [g \in Grants |-> TRUE],
        swept |-> [g \in Grants |-> FALSE],
        exposure |-> [reserved |-> 0, settled |-> 0],
        reservation |-> [r \in Reservations |->
                           [status |-> "none", version |-> 0, until |-> 0]],
        lines |-> [r \in Reservations |-> <<>>],
        event |-> [e \in Events |-> None],
        charge |-> [e \in Events |-> [s \in Sources |-> 0]],
        settled |-> {}, unposted |-> {}, outOfTurn |-> {},
        forfeited |-> [e \in Events |-> 0]]
  /\ tx = NoTx

------------------------------------------------------------------------------
(* Transactions *)

(* Every command reads clock.now() before it waits for its transaction. *)
ReadsClock(now) == now \in Instants /\ now <= clock /\ clock - now <= MaxWait

Began(command, r, now, stage, left) ==
  [command |-> command, reservation |-> r, now |-> now, stage |-> stage,
   left |-> left, until |-> 0, event |-> None, finalize |-> FALSE,
   reversed |-> {}, draft |-> ledger]

(* A step of the open transaction: its draft, the units left, the next stage. *)
Proceed(draft, left, stage) ==
  /\ tx' = [tx EXCEPT !.draft = draft, !.left = left, !.stage = stage]
  /\ UNCHANGED <<clock, ledger>>

Commit(draft) ==
  /\ ledger' = draft
  /\ tx' = NoTx
  /\ UNCHANGED clock

(* The callback throws (no other step of it is enabled, or the statement    *)
(* fails), the connection is lost or the process dies.                      *)
Rollback ==
  /\ tx # NoTx
  /\ tx' = NoTx
  /\ UNCHANGED <<clock, ledger>>

Tick ==
  /\ clock < MaxTime
  /\ clock' = clock + 1
  /\ UNCHANGED <<ledger, tx>>

(* The position of grant g changes; updatePosition refuses an unsound one. *)
CanMove(d, g, balance, held) ==
  /\ d.held[g] + held >= 0
  /\ d.held[g] + held <= d.balance[g] + balance

Moved(d, g, balance, held) ==
  [d EXCEPT !.balance[g] = @ + balance, !.held[g] = @ + held]

(* The postpaid totals of the period change. *)
Exposed(d, reserved, settled) ==
  [d EXCEPT !.exposure = [reserved |-> @.reserved + reserved,
                          settled |-> @.settled + settled]]

(* A journal entry of the event that is settled. *)
Posted(d, source, units) == [d EXCEPT !.charge[tx.event][source] = @ + units]

------------------------------------------------------------------------------
(* Planning the funds of a request *)

(* A position the planner may draw on for a reservation that ends at until:  *)
(* no hold may cross the expiry of its grant.                              *)
Eligible(d, g, now, until) ==
  /\ d.active[g]
  /\ Kind[g] = "subscription" => ExpiresAt[g] # Never
  /\ ~Due(g, now)
  /\ ExpiresAt[g] # Never => until <= ExpiresAt[g]
  /\ d.balance[g] > d.held[g]

(* Subscription credits first, those that expire earliest first. *)
Precedes(g, h) ==
  \/ Kind[g] = "subscription" /\ Kind[h] = "topup"
  \/ /\ Kind[g] = Kind[h]
     /\ \/ Kind[g] = "subscription" /\ ExpiresAt[g] < ExpiresAt[h]
        \/ /\ Kind[g] = "topup" \/ ExpiresAt[g] = ExpiresAt[h]
           /\ IdOrder[g] < IdOrder[h]

(* Credits consumed in the cycle and postpaid exposure settled in it. Units  *)
(* that a correction restored still count as consumed.                     *)
CycleUsed(d) ==
  SumFunction([x \in Events \X Grants |->
                 IF d.charge[x[1]][x[2]] > 0 THEN d.charge[x[1]][x[2]] ELSE 0])
  + d.exposure.settled

(* planFunding's check of the cap: what was used, what is held, and the request. *)
CycleAllows(d, units) ==
  CycleCap # None => CycleUsed(d) + HeldBy(d, Reservations, Sources) + units <= CycleCap

(* reserveExposure, for a workspace whose postpaid policy is enabled. *)
PostpaidAllows(d, units) ==
  \/ PostpaidMode = "unlimited"
  \/ /\ PostpaidMode = "limited"
     /\ d.exposure.settled + d.exposure.reserved + units <= PostpaidLimit

NewLine(source, units) ==
  [source |-> source, held |-> units, consumed |-> 0, released |-> 0]

Appended(d, r, line) == [d EXCEPT !.lines[r] = Append(@, line)]

(* reserveUsage of an operation that has no reservation yet; a second call  *)
(* for the operation is told the first one's reservation, or refused.      *)
BeginReserve(r, units, until, now) ==
  /\ tx = NoTx
  /\ ReadsClock(now)
  /\ ledger.reservation[r].status = "none"
  /\ ledger.reservation[r].version < MaxVersion
  /\ until > now
  /\ CycleAllows(ledger, units)
  /\ tx' = [Began("reserve", r, now, "fund", units) EXCEPT !.until = until]
  /\ UNCHANGED <<clock, ledger>>

(* Mutant: the extension does not look at the lines already held. *)
BeginExtend_AnyUntil(r, units, until, now) ==
  LET reservation == ledger.reservation[r] IN
  /\ tx = NoTx
  /\ ReadsClock(now)
  /\ reservation.status \in Open
  /\ reservation.version < MaxVersion
  /\ reservation.until > now
  /\ until > now /\ until >= reservation.until
  /\ CycleAllows(ledger, units)
  /\ tx' = [Began("extend", r, now, "fund", units) EXCEPT !.until = until]
  /\ UNCHANGED <<clock, ledger>>

(* extendUsage with the current version of the reservation (with any other  *)
(* version it is refused).                                                 *)
BeginExtend(r, units, until, now) ==
  LET reservation == ledger.reservation[r] IN
  /\ tx = NoTx
  /\ ReadsClock(now)
  /\ reservation.status \in Open
  /\ reservation.version < MaxVersion
  /\ reservation.until > now
  /\ until > now /\ until >= reservation.until
  /\ \A i \in Unused(ledger.lines[r]) :
       LET g == ledger.lines[r][i].source IN
       g # Postpaid /\ ExpiresAt[g] # Never => until <= ExpiresAt[g]
  /\ CycleAllows(ledger, units)
  /\ tx' = [Began("extend", r, now, "fund", units) EXCEPT !.until = until]
  /\ UNCHANGED <<clock, ledger>>

(* The next line of the plan and its hold: the first eligible position gives *)
(* what it has.                                                            *)
HoldCredits(g) ==
  LET d == tx.draft
      units == SmallerOf(d.balance[g] - d.held[g], tx.left)
  IN
  /\ tx # NoTx /\ tx.stage = "fund" /\ tx.left > 0
  /\ Eligible(d, g, tx.now, tx.until)
  /\ \A h \in Grants \ {g} : Eligible(d, h, tx.now, tx.until) => Precedes(g, h)
  /\ CanMove(d, g, 0, units)
  /\ Proceed(Appended(Moved(d, g, 0, units), tx.reservation, NewLine(g, units)),
             tx.left - units, "fund")

(* The rest is postpaid; without it the request fails for want of credits. *)
HoldPostpaid ==
  LET d == tx.draft IN
  /\ tx # NoTx /\ tx.stage = "fund" /\ tx.left > 0
  /\ \A g \in Grants : ~Eligible(d, g, tx.now, tx.until)
  /\ PostpaidAllows(d, tx.left)
  /\ Proceed(Appended(Exposed(d, tx.left, 0), tx.reservation,
                      NewLine(Postpaid, tx.left)),
             0, "fund")

(* updateReservation; for a new reservation, createReservation. *)
Updated(d, r, status, until) ==
  [d EXCEPT !.reservation[r] =
     [status |-> status, version |-> @.version + 1, until |-> until]]

(* The plan is held: the reservation is written with the status it had. *)
CommitFunding ==
  LET r == tx.reservation
      old == tx.draft.reservation[r].status
  IN
  /\ tx # NoTx /\ tx.stage = "fund" /\ tx.left = 0
  /\ Commit(Updated(tx.draft, r, IF old = "none" THEN "reserved" ELSE old, tx.until))

------------------------------------------------------------------------------
(* Giving back what is held *)

(* releaseUsage; a released reservation answers as before, a settled one is *)
(* refused.                                                                *)
BeginRelease(r, now) ==
  LET reservation == ledger.reservation[r] IN
  /\ tx = NoTx
  /\ ReadsClock(now)
  /\ reservation.status \in Open
  /\ reservation.version < MaxVersion
  /\ tx' = Began("release", r, now, "release", 0)
  /\ UNCHANGED <<clock, ledger>>

MarkReleased(d, r, i) ==
  [d EXCEPT !.lines[r][i].released = @ + Remaining(d.lines[r][i])]

(* Mutant: expired units leave the position and reach no account. *)
ReleaseCredits_Drops(d, g, units) ==
  IF Expired(d, g, tx.now)
    THEN [Moved(d, g, -units, -units) EXCEPT !.active[g] = FALSE]
    ELSE Moved(d, g, 0, -units)

(* planRelease: an expired grant's units leave with the hold. *)
ReleaseCredits(d, g, units) ==
  IF Expired(d, g, tx.now)
    THEN [Moved(d, g, -units, -units) EXCEPT !.expired[g] = @ + units,
                                             !.active[g] = FALSE]
    ELSE Moved(d, g, 0, -units)

(* Mutant: the lines of a postpaid hold are closed, its exposure is not. *)
ReleasePostpaid_Keeps(d, units) == d

(* releaseExposure. *)
ReleasePostpaid(d, units) == Exposed(d, -units, 0)

(* One line of the release loop, of releaseUsage or of a final settlement. *)
ReleaseLine(i) ==
  LET d == tx.draft
      r == tx.reservation
      line == d.lines[r][i]
      units == Remaining(line)
  IN
  /\ tx # NoTx /\ tx.stage = "release"
  /\ NextUnused(d.lines[r], i)
  /\ \/ /\ line.source = Postpaid
        /\ units <= d.exposure.reserved
        /\ Proceed(MarkReleased(ReleasePostpaid(d, units), r, i), tx.left, "release")
     \/ /\ line.source # Postpaid
        /\ units <= d.held[line.source]
        /\ Proceed(MarkReleased(ReleaseCredits(d, line.source, units), r, i),
                   tx.left, "release")

(* hasSettlement: the event has a credit or a postpaid journal entry. *)
HasSettlement(d, e) == \E s \in Sources : d.charge[e][s] # 0

(* getPreviousRevision: k is the latest recorded revision before e. *)
Previous(d, e, k) ==
  /\ d.event[<<e[1], k>>] # None
  /\ \A j \in (k + 1)..(e[2] - 1) : d.event[<<e[1], j>>] = None

(* e is settled after the revision recorded before it, and before those after it. *)
InTurn(d, e) ==
  /\ \A k \in 1..(e[2] - 1) : Previous(d, e, k) => <<e[1], k>> \in d.settled
  /\ \A k \in (e[2] + 1)..MaxRevision : <<e[1], k>> \notin d.settled

(* The settlement of e commits, for the first time or again (history). *)
Recorded(d, e) ==
  [d EXCEPT !.settled = @ \union {e},
            !.unposted = IF HasSettlement(d, e) THEN @ ELSE @ \union {e},
            !.outOfTurn = IF e \in d.settled \/ InTurn(d, e)
                            THEN @ ELSE @ \union {e[1]}]

(* The release loop is over: the reservation closes. *)
CommitRelease ==
  LET d == tx.draft
      r == tx.reservation
      used == \E i \in DOMAIN d.lines[r] : d.lines[r][i].consumed > 0
      status == IF tx.command = "settle" /\ used THEN "settled" ELSE "released"
      closed == Updated(d, r, status, d.reservation[r].until)
  IN
  /\ tx # NoTx /\ tx.stage = "release"
  /\ Unused(d.lines[r]) = {}
  /\ Commit(IF tx.command = "settle"
              THEN Recorded(closed, tx.event) ELSE closed)

------------------------------------------------------------------------------
(* Usage events and their settlement *)

(* usageEventRepository.record, in a transaction of its own: revisions come  *)
(* in any order, and whether or not the ones before are settled.            *)
RecordEvent(e, units, at) ==
  /\ tx = NoTx
  /\ ledger.event[e] = None
  /\ at \in Instants /\ at <= clock /\ clock - at <= MaxWait
  /\ ledger' = [ledger EXCEPT !.event[e] = [units |-> units, at |-> at]]
  /\ UNCHANGED <<clock, tx>>

(* What the previous recorded revision was charged, if it was settled. *)
PriorUnits(d, e) ==
  LET earlier == 1..(e[2] - 1) IN
  IF \E k \in earlier : Previous(d, e, k) /\ HasSettlement(d, <<e[1], k>>)
    THEN d.event[<<e[1], CHOOSE k \in earlier : Previous(d, e, k)>>].units
    ELSE 0

(* Net units the earlier revisions of e's component charged to a source. *)
NetPrior(d, e, s) ==
  Charged(d, {<<e[1], k>> : k \in 1..(e[2] - 1)}, {s})

AfterCharge(finalize) == IF finalize THEN "release" ELSE "close"

(* Mutant: an event that was charged already is charged again. *)
Delta_Again(d, e) == d.event[e].units - PriorUnits(d, e)

Delta(d, e) ==
  IF HasSettlement(d, e) THEN 0 ELSE d.event[e].units - PriorUnits(d, e)

(* settle of a recorded event, with the current version of the reservation, *)
(* whatever its status. A charged event that is not final only answers.     *)
BeginSettle(e, finalize, now) ==
  LET d == ledger
      r == OperationOf[e[1]]
      delta == Delta(d, e)
      charging == IF delta > 0 THEN Began("settle", r, now, "consume", delta)
                  ELSE IF delta < 0 THEN Began("settle", r, now, "reverse", -delta)
                  ELSE Began("settle", r, now, AfterCharge(finalize), 0)
  IN
  /\ tx = NoTx
  /\ ReadsClock(now)
  /\ d.event[e] # None
  /\ d.reservation[r].status # "none"
  /\ d.reservation[r].version < MaxVersion
  /\ HasSettlement(d, e) => finalize
  /\ tx' = [charging EXCEPT !.event = e, !.finalize = finalize]
  /\ UNCHANGED <<clock, ledger>>

Spend(d, r, i, source, units) ==
  Posted([d EXCEPT !.lines[r][i].consumed = @ + units], source, units)

(* Mutant: the credits are consumed and the hold on them stays. *)
ConsumeCredits_KeepsHold(d, g, units) == Moved(d, g, -units, 0)

ConsumeCredits(d, g, units) == Moved(d, g, -units, -units)

SettlePostpaid(d, units) == Exposed(d, -units, units)

(* One line of the charging loop. planConsume lets usage of before the      *)
(* grant's expiry through, however late it is settled, and no other.        *)
ConsumeLine(i) ==
  LET d == tx.draft
      r == tx.reservation
      line == d.lines[r][i]
      units == SmallerOf(Remaining(line), tx.left)
      left == tx.left - units
      next == IF left = 0 THEN AfterCharge(tx.finalize) ELSE "consume"
  IN
  /\ tx # NoTx /\ tx.stage = "consume"
  /\ NextUnused(d.lines[r], i)
  /\ \/ /\ line.source = Postpaid
        /\ units <= d.exposure.reserved
        /\ Proceed(Spend(SettlePostpaid(d, units), r, i, Postpaid, units), left, next)
     \/ /\ line.source # Postpaid
        /\ units <= d.held[line.source]
        /\ ~Due(line.source, d.event[tx.event].at)
        /\ Proceed(Spend(ConsumeCredits(d, line.source, units), r, i, line.source, units),
                   left, next)

(* More was used than is held: postpaid has to take the rest, on a line of  *)
(* its own, or the settlement fails for want of credits.                    *)
Overrun ==
  LET d == tx.draft
      r == tx.reservation
      line == [NewLine(Postpaid, tx.left) EXCEPT !.consumed = tx.left]
  IN
  /\ tx # NoTx /\ tx.stage = "consume"
  /\ Unused(d.lines[r]) = {}
  /\ CycleAllows(d, tx.left)
  /\ PostpaidAllows(d, tx.left)
  /\ Proceed(Posted(Exposed(Appended(d, r, line), 0, tx.left), Postpaid, tx.left),
             0, AfterCharge(tx.finalize))

(* A lower revision: the grants its predecessors were charged to, in the     *)
(* order of their latest journals, which two entries of one command leave   *)
(* open (any order, here).                                                  *)
Reversible(s) ==
  /\ s \notin tx.reversed
  /\ NetPrior(tx.draft, tx.event, s) > 0

Reverses(s, units) ==
  /\ Reversible(s)
  /\ units = SmallerOf(NetPrior(tx.draft, tx.event, s), tx.left)

NextReversal(draft, s, units) ==
  /\ tx' = [tx EXCEPT !.draft = draft, !.left = @ - units,
                      !.reversed = @ \union {s}]
  /\ UNCHANGED <<clock, ledger>>

(* Credits of a live grant go back to its position, and off the first line   *)
(* that can bear it; the position's hold does not grow with the line's.     *)
RestoreCredits(g, i, units) ==
  LET d == tx.draft
      r == tx.reservation
      Bears(j) == d.lines[r][j].source = g /\ d.lines[r][j].consumed >= units
  IN
  /\ tx # NoTx /\ tx.stage = "reverse" /\ tx.left > 0
  /\ Reverses(g, units)
  /\ ~Expired(d, g, tx.now)
  /\ i \in DOMAIN d.lines[r] /\ Bears(i)
  /\ \A j \in DOMAIN d.lines[r] : Bears(j) => i <= j
  /\ NextReversal(Spend(Moved(d, g, units, 0), r, i, g, -units), g, units)

(* Credits of an expired grant are not recreated. *)
ForfeitCredits(g, units) ==
  LET d == tx.draft IN
  /\ tx # NoTx /\ tx.stage = "reverse" /\ tx.left > 0
  /\ Reverses(g, units)
  /\ Expired(d, g, tx.now)
  /\ NextReversal([d EXCEPT !.forfeited[tx.event] = @ + units], g, units)

(* The rest comes off the postpaid debt, by an adjustment of the journal.    *)
ReversePostpaid(units) ==
  LET d == tx.draft
      repaid == SmallerOf(d.exposure.settled, units)
  IN
  /\ tx # NoTx /\ tx.stage = "reverse" /\ tx.left > 0
  /\ \A g \in Grants : ~Reversible(g)
  /\ Reverses(Postpaid, units)
  /\ NextReversal(Posted(Exposed(d, 0, -repaid), Postpaid, -units), Postpaid, units)

EndReversal ==
  /\ tx # NoTx /\ tx.stage = "reverse"
  /\ tx.left = 0 \/ \A s \in Sources : ~Reversible(s)
  /\ Proceed(tx.draft, 0, AfterCharge(tx.finalize))

(* A settlement that is not final leaves the reservation partially consumed, *)
(* also one that was closed.                                               *)
CommitSettle ==
  LET d == tx.draft
      r == tx.reservation
      open == Updated(d, r, "partially_consumed", d.reservation[r].until)
  IN
  /\ tx # NoTx /\ tx.stage = "close"
  /\ Commit(Recorded(open, tx.event))

------------------------------------------------------------------------------
(* The expiry job *)

(* expireGrantPosition of a due grant: what is not held moves to the expiry  *)
(* clearing account. Its operation id is fixed: later runs are replays.     *)
ExpireGrant(g) ==
  LET available == ledger.balance[g] - ledger.held[g] IN
  /\ tx = NoTx
  /\ Due(g, clock)
  /\ ~ledger.swept[g]
  /\ ledger' = [Moved(ledger, g, -available, 0) EXCEPT
                   !.expired[g] = @ + available,
                   !.active[g] = FALSE, !.swept[g] = TRUE]
  /\ UNCHANGED <<clock, tx>>

------------------------------------------------------------------------------
FundStep == HoldPostpaid \/ CommitFunding \/ \E g \in Grants : HoldCredits(g)

ReleaseStep ==
  \/ tx # NoTx /\ \E i \in DOMAIN tx.draft.lines[tx.reservation] : ReleaseLine(i)
  \/ CommitRelease

ReverseStep ==
  \/ tx # NoTx /\ \E units \in 1..tx.left :
       \/ \E g \in Grants, i \in DOMAIN tx.draft.lines[tx.reservation] :
            RestoreCredits(g, i, units)
       \/ \E g \in Grants : ForfeitCredits(g, units)
       \/ ReversePostpaid(units)
  \/ EndReversal

SettleStep ==
  \/ tx # NoTx /\ \E i \in DOMAIN tx.draft.lines[tx.reservation] : ConsumeLine(i)
  \/ Overrun
  \/ ReverseStep
  \/ CommitSettle

Begin ==
  \/ \E r \in Reservations, units \in 1..MaxUnits,
        until \in 1..(MaxTime + 1), now \in Instants :
       BeginReserve(r, units, until, now) \/ BeginExtend(r, units, until, now)
  \/ \E r \in Reservations, now \in Instants : BeginRelease(r, now)
  \/ \E e \in Events, finalize \in BOOLEAN, now \in Instants :
       BeginSettle(e, finalize, now)

FundingNext ==
  \/ Tick
  \/ Begin
  \/ FundStep
  \/ ReleaseStep
  \/ SettleStep
  \/ Rollback
  \/ \E e \in Events, units \in 0..MaxUnits, at \in Instants : RecordEvent(e, units, at)
  \/ \E g \in Grants : ExpireGrant(g)

FundingSpec == FundingInit /\ [][FundingNext]_vars

------------------------------------------------------------------------------
(* Properties *)

Stages == {"fund", "release", "consume", "reverse", "close"}

Transaction ==
  [command: {"reserve", "extend", "release", "settle"},
   reservation: Reservations, now: Instants, stage: Stages, left: Nat,
   until: Nat, event: Events \union {None}, finalize: BOOLEAN,
   reversed: SUBSET Sources, draft: Ledger]

(* Every table and the open transaction have their types; in particular no   *)
(* position, line or total is ever negative, in the middle of a command    *)
(* either.                                                                 *)
TypeOK ==
  /\ clock \in Instants
  /\ ledger \in Ledger
  /\ tx # NoTx => tx \in Transaction

(* No unit of a grant is lost or made: what was allocated is in the position, *)
(* charged to usage or expired, after every split hold, overrun, correction *)
(* and late release.                                                       *)
CreditsConserved ==
  \A g \in Grants :
    Granted[g] = ledger.balance[g] + ledger.expired[g] + Charged(ledger, Events, {g})

(* No correction has given units of a grant back. *)
Unrestored(d, g) == \A e \in Events : d.charge[e][g] >= 0

(* What a position holds is what the lines on it have not used or returned:  *)
(* each line can be charged or released in full, and nothing is held that no *)
(* line will release. (Corrections that restore credits do break this: see  *)
(* ReleaseIsBacked.)                                                       *)
HoldsMatchLines ==
  \A g \in Grants :
    Unrestored(ledger, g) =>
      ledger.held[g] = HeldBy(ledger, Reservations, {g})

(* releaseUsage releases all unconsumed held units of an open reservation:  *)
(* the positions hold what its lines say, so planRelease lets it through.   *)
ReleaseIsBacked ==
  \A r \in Reservations, g \in Grants :
    ledger.reservation[r].status \in Open =>
      HeldBy(ledger, {r}, {g}) <= ledger.held[g]

(* A closed reservation holds nothing, prepaid or postpaid. *)
ClosedEmpty(d, r) ==
  d.reservation[r].status \in Closed => Unused(d.lines[r]) = {}

ClosedHoldsNothing == \A r \in Reservations : ClosedEmpty(ledger, r)

(* Nothing a reservation holds that ends at until outlives its grant.        *)
WithinExpiry(d, r, until) ==
  \A i \in Unused(d.lines[r]) :
    LET g == d.lines[r][i].source IN
    g # Postpaid /\ ExpiresAt[g] # Never /\ Unrestored(d, g) => until <= ExpiresAt[g]

(* No hold crosses the expiry of its grant, whatever extensions and other    *)
(* settlements happened to the reservation. (A correction can give a used up *)
(* line units again after the reservation was extended past its grant.)     *)
NoHoldCrossesExpiry ==
  \A r \in Reservations : WithinExpiry(ledger, r, ledger.reservation[r].until)

(* Once the expiry job has been at a grant, all that is left of it is held   *)
(* for usage that is still to be settled: nothing becomes available again.  *)
SweptHeld(d) ==
  \A g \in Grants : d.swept[g] => ~d.active[g] /\ d.balance[g] = d.held[g]

SweptIsHeld == SweptHeld(ledger)

(* The postpaid exposure is exactly the open postpaid lines plus the debt in *)
(* the journal: no correction takes more off the debt than the journal has   *)
(* of it (that is capped by the debt, and never less), as long as every      *)
(* settlement left an entry and came in its turn. The code ensures neither.  *)
PostpaidExact ==
  /\ ledger.exposure.reserved = HeldBy(ledger, Reservations, {Postpaid})
  /\ ledger.exposure.settled >= Charged(ledger, Events, {Postpaid})
  /\ ledger.unposted = {} /\ ledger.outOfTurn = {} =>
       ledger.exposure.settled = Charged(ledger, Events, {Postpaid})

(* The exposure stays within the workspace's limit, whatever the order of    *)
(* holds, overruns, corrections and releases.                              *)
WithinLimit(d) ==
  LET total == d.exposure.reserved + d.exposure.settled IN
  /\ PostpaidMode = "limited" => total <= PostpaidLimit
  /\ PostpaidMode = "disabled" => total = 0

PostpaidWithinLimit == WithinLimit(ledger)

(* Credits used in the cycle plus all open holds stay within the cap.        *)
WithinCycleCap ==
  CycleCap # None /\ (\A g \in Grants : Unrestored(ledger, g)) =>
    CycleUsed(ledger) + HeldBy(ledger, Reservations, Sources) <= CycleCap

RevisionsOf(c) == {<<c, k>> : k \in 1..MaxRevision}

(* Net units a component was charged, what expired grants kept of its         *)
(* corrections, and what its latest settled revision says it used.         *)
NetCharge(d, c) == Charged(d, RevisionsOf(c), Sources)

Forfeited(d, c) == SumFunctionOnSet(d.forfeited, RevisionsOf(c))

LatestUnits(d, c) ==
  LET done == {k \in 1..MaxRevision : <<c, k>> \in d.settled} IN
  IF done = {} THEN 0 ELSE d.event[<<c, Max(done)>>].units

(* What a component was charged is what its latest settled revision says,    *)
(* plus what expired grants kept of a correction, however often commands    *)
(* are repeated and whatever was recorded in between, as long as every       *)
(* settlement of the component left an entry and came in its turn: after the *)
(* revision recorded before it, and before the later ones. The code ensures  *)
(* neither (see ChargedByDelta).                                            *)
ChargedOnce ==
  \A c \in Components \ ledger.outOfTurn :
    RevisionsOf(c) \intersect ledger.unposted = {}
    => NetCharge(ledger, c) = LatestUnits(ledger, c) + Forfeited(ledger, c)

(* The documented rule, without conditions: each revision is charged by its    *)
(* delta from the latest previously settled one.                           *)
ChargedByDelta ==
  \A c \in Components :
    NetCharge(ledger, c) = LatestUnits(ledger, c) + Forfeited(ledger, c)

==============================================================================
