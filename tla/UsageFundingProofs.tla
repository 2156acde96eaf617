-------------------------- MODULE UsageFundingProofs --------------------------
(***************************************************************************)
(* Proofs about UsageFunding for every set of grants, reservations and     *)
(* components, every policy and every bound: the types of the tables and   *)
(* of the open transaction, what is left of a grant the expiry job has     *)
(* swept, the postpaid limit, that closed reservations hold nothing, that  *)
(* no hold crosses the expiry of its grant; and what adds up: the units of *)
(* a grant, the holds of the positions and of the exposure, the cycle cap. *)
(* Last, for a provider that settles each revision before it records the   *)
(* next: what a component is charged, and the postpaid debt.               *)
(***************************************************************************)
EXTENDS UsageFunding, SequenceTheorems, SumTheorems, TLAPS

(* What each step of a command keeps of the tables it works on.            *)
Sound(d) ==
  /\ d \in Ledger
  /\ \A g \in Grants : d.held[g] <= d.balance[g]
  /\ SweptHeld(d)
  /\ WithinLimit(d)

(* Only the reservation of the open transaction may be closed and not empty. *)
EmptyBut(d, R) == \A r \in Reservations \ R : ClosedEmpty(d, r)

(* The open transaction: sound at every step, and no later than the point at *)
(* which its reservation's version and its event were checked.              *)
Pending ==
  LET reservation == tx.draft.reservation[tx.reservation] IN
  /\ tx \in Transaction
  /\ Sound(tx.draft)
  /\ EmptyBut(tx.draft, {tx.reservation})
  /\ reservation.version < MaxVersion
  /\ tx.stage = "fund" => reservation.status \in {"none"} \union Open
  /\ tx.command = "settle" \/ tx.stage \in {"consume", "reverse", "close"} =>
       tx.event \in Events /\ tx.draft.event[tx.event] # None

FInv ==
  /\ clock \in Instants
  /\ Sound(ledger)
  /\ EmptyBut(ledger, {})
  /\ tx # NoTx => Pending

(* A step of a command leaves the reservations, the events and the lines of *)
(* other reservations alone.                                                *)
Keeps(d, e, r) ==
  /\ e.reservation = d.reservation
  /\ e.event = d.event
  /\ \A q \in Reservations \ {r} : e.lines[q] = d.lines[q]

------------------------------------------------------------------------------
(* The operators on the tables *)

(* A position moves: updatePosition's check keeps its hold within its balance. *)
LEMMA MovedSound ==
  ASSUME NEW d, Sound(d), NEW g \in Grants, NEW b \in Int, NEW h \in Int,
         CanMove(d, g, b, h), d.swept[g] => b = h
  PROVE  /\ Sound(Moved(d, g, b, h))
         /\ Moved(d, g, b, h).lines = d.lines
         /\ Moved(d, g, b, h).reservation = d.reservation
         /\ Moved(d, g, b, h).event = d.event
         /\ Moved(d, g, b, h).active = d.active
         /\ Moved(d, g, b, h).expired = d.expired
         /\ Moved(d, g, b, h).swept = d.swept
<1> DEFINE e == Moved(d, g, b, h)
<1>1. d \in Ledger
  BY DEF Sound
<1>2. /\ e.held = [d.held EXCEPT ![g] = @ + h]
      /\ e.balance = [d.balance EXCEPT ![g] = @ + b]
      /\ e.lines = d.lines /\ e.reservation = d.reservation
      /\ e.event = d.event /\ e.active = d.active /\ e.swept = d.swept
      /\ e.expired = d.expired /\ e.exposure = d.exposure
  BY <1>1 DEF Moved, Ledger
<1>3. /\ d.held[g] + h \in Nat /\ d.balance[g] + b \in Nat
      /\ d.held[g] + h <= d.balance[g] + b
  BY <1>1 DEF CanMove, Ledger
<1>4. e \in Ledger
  BY <1>1, <1>3 DEF Moved, Ledger
<1>5. \A k \in Grants : e.held[k] <= e.balance[k]
  BY <1>1, <1>2, <1>3 DEF Sound, Ledger
<1>6. SweptHeld(e)
  BY <1>1, <1>2 DEF Sound, SweptHeld, Ledger
<1>7. WithinLimit(e)
  BY <1>2 DEF Sound, WithinLimit
<1> QED
  BY <1>2, <1>4, <1>5, <1>6, <1>7 DEF Sound

(* A line is appended to a reservation.                                     *)
LEMMA AppendedSound ==
  ASSUME NEW d, Sound(d), NEW r \in Reservations, NEW line \in Line
  PROVE  /\ Sound(Appended(d, r, line))
         /\ Keeps(d, Appended(d, r, line), r)
<1> DEFINE e == Appended(d, r, line)
<1>1. d \in Ledger
  BY DEF Sound
<1>2. d.lines \in [Reservations -> Seq(Line)]
  BY <1>1 DEF Ledger
<1>3. Append(d.lines[r], line) \in Seq(Line)
  BY <1>2, AppendProperties
<1>4. e = [d EXCEPT !.lines = [d.lines EXCEPT ![r] = Append(d.lines[r], line)]]
  BY <1>1, <1>2 DEF Appended, Ledger
<1>5. [d.lines EXCEPT ![r] = Append(d.lines[r], line)]
        \in [Reservations -> Seq(Line)]
  BY <1>2, <1>3
<1>6. e \in Ledger
  BY <1>1, <1>4, <1>5 DEF Ledger
<1>7. /\ e.held = d.held /\ e.balance = d.balance /\ e.swept = d.swept
      /\ e.active = d.active /\ e.exposure = d.exposure
      /\ e.reservation = d.reservation /\ e.event = d.event
      /\ \A q \in Reservations \ {r} : e.lines[q] = d.lines[q]
  BY <1>1, <1>2, <1>4 DEF Ledger
<1> QED
  BY <1>6, <1>7 DEF Sound, SweptHeld, WithinLimit, Keeps

(* One line of a reservation is rewritten.                                  *)
LEMMA LineSound ==
  ASSUME NEW d, Sound(d), NEW r \in Reservations, NEW i \in DOMAIN d.lines[r],
         NEW line \in Line
  PROVE  /\ Sound([d EXCEPT !.lines[r][i] = line])
         /\ Keeps(d, [d EXCEPT !.lines[r][i] = line], r)
         /\ [d EXCEPT !.lines[r][i] = line].charge = d.charge
<1> DEFINE e == [d EXCEPT !.lines[r][i] = line]
<1>1. d \in Ledger
  BY DEF Sound
<1>2. d.lines \in [Reservations -> Seq(Line)]
  BY <1>1 DEF Ledger
<1>3. [d.lines[r] EXCEPT ![i] = line] \in Seq(Line)
  <2>1. d.lines[r] \in Seq(Line)
    BY <1>2
  <2>2. i \in 1..Len(d.lines[r])
    BY <2>1, LenProperties
  <2> QED
    BY <2>1, <2>2, ExceptSeq
<1>4. e = [d EXCEPT !.lines =
             [d.lines EXCEPT ![r] = [d.lines[r] EXCEPT ![i] = line]]]
  BY <1>1, <1>2 DEF Ledger
<1>5. [d.lines EXCEPT ![r] = [d.lines[r] EXCEPT ![i] = line]]
        \in [Reservations -> Seq(Line)]
  BY <1>2, <1>3
<1>6. e \in Ledger
  BY <1>1, <1>4, <1>5 DEF Ledger
<1>7. /\ e.held = d.held /\ e.balance = d.balance /\ e.swept = d.swept
      /\ e.active = d.active /\ e.exposure = d.exposure
      /\ e.reservation = d.reservation /\ e.event = d.event
      /\ e.charge = d.charge
      /\ \A q \in Reservations \ {r} : e.lines[q] = d.lines[q]
  BY <1>1, <1>2, <1>4 DEF Ledger
<1> QED
  BY <1>6, <1>7 DEF Sound, SweptHeld, WithinLimit, Keeps

(* The total of the postpaid exposure, unpacked.                             *)
LEMMA ExposureFacts ==
  ASSUME NEW d, Sound(d)
  PROVE  /\ d.exposure.reserved \in Nat /\ d.exposure.settled \in Nat
         /\ PostpaidMode = "limited" =>
              d.exposure.reserved + d.exposure.settled <= PostpaidLimit
         /\ PostpaidMode = "disabled" =>
              d.exposure.reserved + d.exposure.settled = 0
<1>1. d.exposure \in [reserved: Nat, settled: Nat]
  BY DEF Sound, Ledger
<1> QED
  BY <1>1 DEF Sound, WithinLimit

(* The postpaid totals change, within the limit.                            *)
LEMMA ExposedSound ==
  ASSUME NEW d, Sound(d), NEW a \in Int, NEW b \in Int,
         d.exposure.reserved + a >= 0, d.exposure.settled + b >= 0,
         a + b <= 0 \/ PostpaidAllows(d, a + b)
  PROVE  /\ Sound(Exposed(d, a, b))
         /\ Exposed(d, a, b).lines = d.lines
         /\ Exposed(d, a, b).reservation = d.reservation
         /\ Exposed(d, a, b).event = d.event
<1> DEFINE x == [reserved |-> d.exposure.reserved + a,
                 settled |-> d.exposure.settled + b]
           e == [d EXCEPT !.exposure = x]
<1>1. d \in Ledger
  BY DEF Sound
<1>2. /\ x.reserved = d.exposure.reserved + a
      /\ x.settled = d.exposure.settled + b
      /\ x \in [reserved: Nat, settled: Nat]
  BY ExposureFacts
<1>3. /\ PostpaidMode = "limited" => x.reserved + x.settled <= PostpaidLimit
      /\ PostpaidMode = "disabled" => x.reserved + x.settled = 0
  <2> DEFINE p == d.exposure.reserved
             q == d.exposure.settled
  <2>1. /\ p \in Nat /\ q \in Nat
        /\ PostpaidMode = "limited" => p + q <= PostpaidLimit
        /\ PostpaidMode = "disabled" => p + q = 0
    BY ExposureFacts
  <2>2. x.reserved = p + a /\ x.settled = q + b
    BY <1>2
  <2>3. CASE PostpaidAllows(d, a + b)
    <3>1. \/ PostpaidMode = "unlimited"
          \/ PostpaidMode = "limited" /\ q + p + (a + b) <= PostpaidLimit
      BY <2>3 DEF PostpaidAllows
    <3> HIDE DEF x, p, q
    <3> QED
      BY <2>1, <2>2, <3>1, FundingAssumption
  <2>4. CASE a + b <= 0
    <3>1. p + a >= 0 /\ q + b >= 0
      OBVIOUS
    <3> HIDE DEF x, p, q
    <3> QED
      BY <2>1, <2>2, <2>4, <3>1, FundingAssumption
  <2> QED
    BY <2>3, <2>4
<1>4. Exposed(d, a, b) = e
  BY DEF Exposed
<1> HIDE DEF x
<1>5. e \in Ledger
  BY <1>1, <1>2 DEF Ledger
<1>6. /\ e.held = d.held /\ e.balance = d.balance /\ e.swept = d.swept
      /\ e.active = d.active /\ e.exposure = x
      /\ e.reservation = d.reservation /\ e.event = d.event
      /\ e.lines = d.lines
  BY <1>1 DEF Ledger
<1> HIDE DEF e
<1> QED
  BY <1>3, <1>4, <1>5, <1>6 DEF Sound, SweptHeld, WithinLimit

(* A journal entry of the event that is settled.                             *)
LEMMA PostedSound ==
  ASSUME NEW d, Sound(d), NEW s \in Sources, NEW u \in Int, tx.event \in Events
  PROVE  /\ Sound(Posted(d, s, u))
         /\ Posted(d, s, u).lines = d.lines
         /\ Posted(d, s, u).reservation = d.reservation
         /\ Posted(d, s, u).event = d.event
<1> DEFINE charge == [d.charge EXCEPT ![tx.event][s] = @ + u]
           e == [d EXCEPT !.charge = charge]
<1>1. d \in Ledger /\ d.charge \in [Events -> [Sources -> Int]]
  BY DEF Sound, Ledger
<1>2. charge \in [Events -> [Sources -> Int]]
  BY <1>1
<1>3. Posted(d, s, u) = e
  BY <1>1 DEF Posted
<1> HIDE DEF charge
<1>4. e \in Ledger
  BY <1>1, <1>2 DEF Ledger
<1>5. /\ e.held = d.held /\ e.balance = d.balance /\ e.swept = d.swept
      /\ e.active = d.active /\ e.exposure = d.exposure
      /\ e.reservation = d.reservation /\ e.event = d.event
      /\ e.lines = d.lines
  BY <1>1 DEF Ledger
<1> HIDE DEF e
<1> QED
  BY <1>3, <1>4, <1>5 DEF Sound, SweptHeld, WithinLimit

(* What Remaining and SmallerOf return.                                     *)
LEMMA Arithmetic ==
  /\ \A line \in Line : Remaining(line) \in Int
  /\ \A a \in Nat, b \in Nat :
       SmallerOf(a, b) \in Nat /\ SmallerOf(a, b) <= a /\ SmallerOf(a, b) <= b
  BY DEF Remaining, SmallerOf, Line

(* planRelease of held units: an expired grant's units leave its position.  *)
LEMMA ReleaseCreditsSound ==
  ASSUME NEW d, Sound(d), NEW g \in Grants, NEW u \in Nat, u <= d.held[g]
  PROVE  /\ Sound(ReleaseCredits(d, g, u))
         /\ ReleaseCredits(d, g, u).lines = d.lines
         /\ ReleaseCredits(d, g, u).reservation = d.reservation
         /\ ReleaseCredits(d, g, u).event = d.event
<1>1. d \in Ledger /\ d.held[g] \in Nat /\ d.balance[g] \in Nat
  BY DEF Sound, Ledger
<1>2. d.held[g] <= d.balance[g]
  BY DEF Sound
<1>3. CASE ~Expired(d, g, tx.now)
  <2>1. CanMove(d, g, 0, -u) /\ ~d.swept[g]
    BY <1>1, <1>2, <1>3 DEF CanMove, Expired, Sound, SweptHeld
  <2>2. ReleaseCredits(d, g, u) = Moved(d, g, 0, -u)
    BY <1>3 DEF ReleaseCredits
  <2> QED
    BY <2>1, <2>2, MovedSound
<1>4. CASE Expired(d, g, tx.now)
  <2> DEFINE m == Moved(d, g, -u, -u)
             e == [m EXCEPT !.expired[g] = @ + u, !.active[g] = FALSE]
  <2>1. CanMove(d, g, -u, -u)
    BY <1>1, <1>2 DEF CanMove
  <2>2. /\ Sound(m) /\ m.lines = d.lines /\ m.reservation = d.reservation
        /\ m.event = d.event
    BY <2>1, MovedSound
  <2>3. ReleaseCredits(d, g, u) = e
    BY <1>4 DEF ReleaseCredits
  <2> HIDE DEF m
  <2>4. m \in Ledger
    BY <2>2 DEF Sound
  <2>5. e \in Ledger
    <3>1. /\ [m.expired EXCEPT ![g] = @ + u] \in [Grants -> Nat]
          /\ [m.active EXCEPT ![g] = FALSE] \in [Grants -> BOOLEAN]
      BY <2>4 DEF Ledger
    <3>2. e = [m EXCEPT !.expired = [m.expired EXCEPT ![g] = @ + u],
                        !.active = [m.active EXCEPT ![g] = FALSE]]
      BY <2>4 DEF Ledger
    <3> QED
      BY <2>4, <3>1, <3>2 DEF Ledger
  <2>6. /\ e.held = m.held /\ e.balance = m.balance /\ e.swept = m.swept
        /\ e.active = [m.active EXCEPT ![g] = FALSE]
        /\ e.exposure = m.exposure /\ e.lines = m.lines
        /\ e.reservation = m.reservation /\ e.event = m.event
    BY <2>4 DEF Ledger
  <2>7. SweptHeld(e)
    BY <2>2, <2>4, <2>6 DEF Sound, SweptHeld, Ledger
  <2> HIDE DEF e
  <2>8. WithinLimit(e)
    BY <2>2, <2>6 DEF Sound, WithinLimit
  <2>9. \A k \in Grants : e.held[k] <= e.balance[k]
    BY <2>2, <2>6 DEF Sound
  <2>10. Sound(e)
    BY <2>5, <2>7, <2>8, <2>9 DEF Sound
  <2> QED
    BY <2>2, <2>3, <2>6, <2>10
<1> QED
  BY <1>3, <1>4

(* A line's remaining units are marked released.                            *)
LEMMA MarkReleasedSound ==
  ASSUME NEW d, Sound(d), NEW r \in Reservations, NEW i \in Unused(d.lines[r])
  PROVE  /\ Sound(MarkReleased(d, r, i))
         /\ Keeps(d, MarkReleased(d, r, i), r)
<1> DEFINE old == d.lines[r][i]
           line == [old EXCEPT !.released = @ + Remaining(old)]
<1>1. d.lines \in [Reservations -> Seq(Line)]
  BY DEF Sound, Ledger
<1>2. i \in DOMAIN d.lines[r] /\ Remaining(old) > 0
  BY DEF Unused
<1>3. old \in Line
  BY <1>1, <1>2, LenProperties, ElementOfSeq
<1>4. line \in Line
  BY <1>2, <1>3, Arithmetic DEF Line
<1>5. d \in Ledger
  BY DEF Sound
<1>6. MarkReleased(d, r, i) = [d EXCEPT !.lines[r][i] = line]
  <2>1. [old EXCEPT !.released = @ + Remaining(old)]
          = [old EXCEPT !.released = old.released + Remaining(old)]
    OBVIOUS
  <2> QED
    BY <1>1, <1>2, <1>5, <2>1 DEF MarkReleased
<1> HIDE DEF line
<1> QED
  BY <1>2, <1>4, <1>6, LineSound

(* Units of a line are charged to the event that is settled, or given back.  *)
LEMMA SpendSound ==
  ASSUME NEW d, Sound(d), NEW r \in Reservations, NEW i \in DOMAIN d.lines[r],
         NEW s \in Sources, NEW u \in Int, d.lines[r][i].consumed + u >= 0,
         tx.event \in Events
  PROVE  /\ Sound(Spend(d, r, i, s, u))
         /\ Keeps(d, Spend(d, r, i, s, u), r)
<1> DEFINE old == d.lines[r][i]
           line == [old EXCEPT !.consumed = old.consumed + u]
           m == [d EXCEPT !.lines[r][i] = line]
<1>1. d \in Ledger /\ d.lines \in [Reservations -> Seq(Line)]
  BY DEF Sound, Ledger
<1>2. old \in Line
  BY <1>1, LenProperties, ElementOfSeq
<1>3. line \in Line
  BY <1>2 DEF Line
<1>4. Spend(d, r, i, s, u) = Posted(m, s, u)
  BY <1>1 DEF Spend
<1> HIDE DEF line
<1>5. Sound(m) /\ Keeps(d, m, r)
  BY <1>3, LineSound
<1> HIDE DEF m
<1>6. /\ Sound(Posted(m, s, u)) /\ Posted(m, s, u).lines = m.lines
      /\ Posted(m, s, u).reservation = m.reservation
      /\ Posted(m, s, u).event = m.event
  BY <1>5, PostedSound
<1> QED
  BY <1>4, <1>5, <1>6 DEF Keeps

(* planConsume of held units: they leave the position with their hold.      *)
LEMMA ConsumeCreditsSound ==
  ASSUME NEW d, Sound(d), NEW g \in Grants, NEW u \in Nat, u <= d.held[g]
  PROVE  /\ Sound(ConsumeCredits(d, g, u))
         /\ ConsumeCredits(d, g, u).lines = d.lines
         /\ ConsumeCredits(d, g, u).reservation = d.reservation
         /\ ConsumeCredits(d, g, u).event = d.event
<1>1. /\ d.held[g] \in Nat /\ d.balance[g] \in Nat
      /\ d.held[g] <= d.balance[g]
  BY DEF Sound, Ledger
<1>2. CanMove(d, g, -u, -u)
  BY <1>1 DEF CanMove
<1> QED
  BY <1>2, MovedSound DEF ConsumeCredits

------------------------------------------------------------------------------
(* The steps *)

(* A step of the open transaction that keeps its draft sound.               *)
LEMMA ProceedKeeps ==
  ASSUME Pending, NEW d, NEW left \in Nat, NEW stage \in Stages,
         NEW reversed \in SUBSET Sources,
         Sound(d), Keeps(tx.draft, d, tx.reservation),
         stage = "fund" => tx.stage = "fund",
         stage \in {"consume", "reverse", "close"} =>
           tx.stage \in {"consume", "reverse", "close"},
         tx' = [tx EXCEPT !.draft = d, !.left = left, !.stage = stage,
                          !.reversed = reversed]
  PROVE  Pending'
<1>1. tx \in Transaction /\ d \in Ledger
  BY DEF Pending, Sound
<1>2. tx' \in Transaction
  BY <1>1 DEF Transaction
<1>3. /\ tx'.draft = d /\ tx'.reservation = tx.reservation
      /\ tx'.stage = stage /\ tx'.command = tx.command /\ tx'.event = tx.event
      /\ tx.reservation \in Reservations
  BY <1>1 DEF Transaction
<1>4. EmptyBut(d, {tx.reservation})
  BY DEF Pending, EmptyBut, ClosedEmpty, Keeps
<1>5. /\ Sound(tx'.draft) /\ EmptyBut(tx'.draft, {tx'.reservation})
      /\ tx'.draft.reservation = tx.draft.reservation
      /\ tx'.draft.event = tx.draft.event
  BY <1>3, <1>4 DEF Keeps
<1> QED
  BY <1>2, <1>3, <1>5 DEF Pending, Sound, SweptHeld, WithinLimit, EmptyBut,
                          ClosedEmpty

(* The note of what an event forfeited changes.                             *)
LEMMA ForfeitedSound ==
  ASSUME NEW d, Sound(d), NEW e \in Events, NEW x \in Nat
  PROVE  /\ Sound([d EXCEPT !.forfeited[e] = x])
         /\ [d EXCEPT !.forfeited[e] = x].lines = d.lines
         /\ [d EXCEPT !.forfeited[e] = x].reservation = d.reservation
         /\ [d EXCEPT !.forfeited[e] = x].event = d.event
<1> DEFINE n == [d EXCEPT !.forfeited[e] = x]
<1>1. d \in Ledger
  BY DEF Sound
<1>2. n \in Ledger
  BY <1>1 DEF Ledger
<1>3. /\ n.held = d.held /\ n.balance = d.balance /\ n.swept = d.swept
      /\ n.active = d.active /\ n.exposure = d.exposure
      /\ n.reservation = d.reservation /\ n.event = d.event
      /\ n.lines = d.lines
  BY <1>1 DEF Ledger
<1> QED
  BY <1>2, <1>3 DEF Sound, SweptHeld, WithinLimit

(* The transaction a command opens, on the tables of the ledger.             *)
LEMMA BeganKeeps ==
  ASSUME FInv, NEW t, tx' = t, t \in Transaction, Sound(t.draft),
         t.draft.lines = ledger.lines, t.draft.event = ledger.event,
         t.draft.reservation = ledger.reservation,
         ledger.reservation[t.reservation].version < MaxVersion,
         t.stage = "fund" =>
           ledger.reservation[t.reservation].status \in {"none"} \union Open,
         t.command = "settle" \/ t.stage \in {"consume", "reverse", "close"} =>
           t.event \in Events /\ ledger.event[t.event] # None,
         UNCHANGED <<clock, ledger>>
  PROVE  FInv'
<1>1. EmptyBut(t.draft, {t.reservation})
  BY DEF FInv, EmptyBut, ClosedEmpty
<1>2. Pending'
  BY <1>1 DEF Pending, Sound, SweptHeld, WithinLimit, EmptyBut, ClosedEmpty
<1> QED
  BY <1>2 DEF FInv, Sound, SweptHeld, WithinLimit, EmptyBut, ClosedEmpty

(* A reserve or an extend opens its transaction on the ledger as it is.      *)
LEMMA BeginFunding ==
  ASSUME FInv, NEW r \in Reservations, NEW until \in Nat, NEW now \in Instants,
         NEW units \in Nat,
         BeginReserve(r, units, until, now) \/ BeginExtend(r, units, until, now)
  PROVE  FInv'
<1>1. PICK command \in {"reserve", "extend"} :
        tx' = [Began(command, r, now, "fund", units) EXCEPT !.until = until]
  BY DEF BeginReserve, BeginExtend
<1> DEFINE t == [Began(command, r, now, "fund", units) EXCEPT !.until = until]
<1>2. t \in Transaction
  BY DEF FInv, Sound, Transaction, Began, Stages
<1>3. /\ t.draft = ledger /\ t.reservation = r /\ t.stage = "fund"
      /\ t.command = command
  BY DEF Began
<1>4. /\ ledger.reservation[r].version < MaxVersion
      /\ ledger.reservation[r].status \in {"none"} \union Open
      /\ UNCHANGED <<clock, ledger>>
  BY DEF BeginReserve, BeginExtend
<1>5. /\ Sound(t.draft) /\ t.draft.lines = ledger.lines
      /\ t.draft.event = ledger.event
      /\ t.draft.reservation = ledger.reservation
  BY <1>3 DEF FInv
<1>6. ~(t.command = "settle" \/ t.stage \in {"consume", "reverse", "close"})
  BY <1>3
<1> HIDE DEF t
<1> QED
  BY <1>1, <1>2, <1>3, <1>4, <1>5, <1>6, BeganKeeps DEF t

(* So does a release.                                                        *)
LEMMA BeginReleasing ==
  ASSUME FInv, NEW r \in Reservations, NEW now \in Instants, BeginRelease(r, now)
  PROVE  FInv'
<1> DEFINE t == Began("release", r, now, "release", 0)
<1>1. tx' = t
  BY DEF BeginRelease
<1>2. t \in Transaction
  BY DEF FInv, Sound, Transaction, Began, Stages
<1>3. /\ t.draft = ledger /\ t.reservation = r /\ t.stage = "release"
      /\ t.command = "release"
  BY DEF Began
<1>4. /\ ledger.reservation[r].version < MaxVersion
      /\ UNCHANGED <<clock, ledger>>
  BY DEF BeginRelease
<1> HIDE DEF t
<1> QED
  BY <1>1, <1>2, <1>3, <1>4, BeganKeeps DEF FInv

(* The difference a settlement charges or reverses is an integer.           *)
LEMMA DeltaType ==
  ASSUME NEW d \in Ledger, NEW e \in Events, d.event[e] # None
  PROVE  Delta(d, e) \in Int
<1>1. d.event[e].units \in Nat
  BY FundingAssumption DEF Ledger, Event
<1>2. PriorUnits(d, e) \in Int
  <2> DEFINE earlier == 1..(e[2] - 1)
             latest == CHOOSE k \in earlier : Previous(d, e, k)
  <2>1. CASE \E k \in earlier : Previous(d, e, k) /\ HasSettlement(d, <<e[1], k>>)
    <3>1. latest \in earlier /\ Previous(d, e, latest)
      BY <2>1
    <3> HIDE DEF latest
    <3>2. <<e[1], latest>> \in Events
      BY <3>1, FundingAssumption DEF Events
    <3>3. d.event[<<e[1], latest>>].units \in Nat
      BY <3>1, <3>2, FundingAssumption DEF Previous, Ledger, Event
    <3> QED
      BY <2>1, <3>3 DEF PriorUnits, latest
  <2>2. CASE ~\E k \in earlier : Previous(d, e, k) /\ HasSettlement(d, <<e[1], k>>)
    BY <2>2 DEF PriorUnits
  <2> QED
    BY <2>1, <2>2
<1> QED
  BY <1>1, <1>2 DEF Delta

(* A settlement too, on an event that is recorded.                           *)
LEMMA BeginSettling ==
  ASSUME FInv, NEW e \in Events, NEW finalize \in BOOLEAN, NEW now \in Instants,
         BeginSettle(e, finalize, now)
  PROVE  FInv'
<1> DEFINE r == OperationOf[e[1]]
           delta == Delta(ledger, e)
           charging == IF delta > 0 THEN Began("settle", r, now, "consume", delta)
                       ELSE IF delta < 0
                         THEN Began("settle", r, now, "reverse", -delta)
                       ELSE Began("settle", r, now, AfterCharge(finalize), 0)
           t == [charging EXCEPT !.event = e, !.finalize = finalize]
<1>1. /\ ledger.event[e] # None
      /\ ledger.reservation[r].version < MaxVersion
      /\ tx' = t
      /\ UNCHANGED <<clock, ledger>>
  BY DEF BeginSettle
<1>2. ledger \in Ledger /\ r \in Reservations
  BY FundingAssumption DEF FInv, Sound, Events
<1>3. delta \in Int
  BY <1>1, <1>2, DeltaType
<1>4. Sound(ledger)
  BY DEF FInv
<1> HIDE DEF delta, r
<1>5. PICK stage \in Stages \ {"fund"}, left \in Nat :
        charging = Began("settle", r, now, stage, left)
  <2>1. AfterCharge(finalize) \in Stages \ {"fund"}
    BY DEF AfterCharge, Stages
  <2> QED
    BY <1>3, <2>1 DEF Stages
<1> HIDE DEF charging
<1>6. t = [command |-> "settle", reservation |-> r, now |-> now,
           stage |-> stage, left |-> left, until |-> 0, event |-> e,
           finalize |-> finalize, reversed |-> {}, draft |-> ledger]
  <2>1. charging = [command |-> "settle", reservation |-> r, now |-> now,
                    stage |-> stage, left |-> left, until |-> 0, event |-> None,
                    finalize |-> FALSE, reversed |-> {}, draft |-> ledger]
    BY <1>5 DEF Began
  <2> HIDE DEF t
  <2>2. t = [[command |-> "settle", reservation |-> r, now |-> now,
              stage |-> stage, left |-> left, until |-> 0, event |-> None,
              finalize |-> FALSE, reversed |-> {}, draft |-> ledger] EXCEPT
               !.event = e, !.finalize = finalize]
    BY <2>1, Zenon DEF t
  <2> QED
    BY <2>2
<1> HIDE DEF t
<1>8. t \in Transaction
  BY <1>2, <1>6 DEF Transaction
<1>9. /\ t.draft = ledger /\ t.reservation = r /\ t.stage # "fund" /\ t.event = e
  BY <1>6 DEF Stages
<1> QED
  BY <1>1, <1>4, <1>8, <1>9, BeganKeeps

(* Proceed with a sound draft, at a stage the transaction may be in.         *)
LEMMA Proceeding ==
  ASSUME FInv, tx # NoTx, NEW d, NEW left \in Nat, NEW stage \in Stages,
         Proceed(d, left, stage), Sound(d), Keeps(tx.draft, d, tx.reservation),
         stage = "fund" => tx.stage = "fund",
         stage \in {"consume", "reverse", "close"} =>
           tx.stage \in {"consume", "reverse", "close"}
  PROVE  FInv'
<1>1. tx \in Transaction
  BY DEF FInv, Pending
<1>2. tx' = [tx EXCEPT !.draft = d, !.left = left, !.stage = stage]
  BY DEF Proceed
<1>3. tx' = [tx EXCEPT !.draft = d, !.left = left, !.stage = stage,
                       !.reversed = tx.reversed]
  BY <1>1, <1>2 DEF Transaction
<1>4. tx.reversed \in SUBSET Sources
  BY <1>1 DEF Transaction
<1>5. Pending'
  BY <1>3, <1>4, ProceedKeeps, Zenon DEF FInv
<1> QED
  BY <1>5 DEF Proceed, FInv, Sound, SweptHeld, WithinLimit, EmptyBut, ClosedEmpty

(* Committing a sound draft whose reservation may be as it is.               *)
LEMMA Committing ==
  ASSUME FInv, tx # NoTx, NEW d, Commit(d), Sound(d), EmptyBut(d, {})
  PROVE  FInv'
  BY DEF Commit, FInv, Sound, SweptHeld, WithinLimit, EmptyBut, ClosedEmpty

(* What an open transaction says of itself.                                  *)
LEMMA Opened ==
  ASSUME FInv, tx # NoTx
  PROVE  /\ tx \in Transaction /\ tx.draft \in Ledger
         /\ tx.reservation \in Reservations /\ tx.left \in Nat
         /\ tx.now \in Instants /\ tx.until \in Nat
         /\ tx.reversed \in SUBSET Sources /\ tx.finalize \in BOOLEAN
         /\ Sound(tx.draft) /\ EmptyBut(tx.draft, {tx.reservation})
         /\ tx.draft.reservation[tx.reservation].version < MaxVersion
         /\ tx.command = "settle" \/ tx.stage \in {"consume", "reverse", "close"}
              => tx.event \in Events /\ tx.draft.event[tx.event] # None
         /\ tx.stage = "fund" =>
              tx.draft.reservation[tx.reservation].status \in {"none"} \union Open
  BY DEF FInv, Pending, Transaction

(* A plan line on a grant: its position is live, so it was not swept.        *)
LEMMA HoldsCredits ==
  ASSUME FInv, NEW g \in Grants, HoldCredits(g)
  PROVE  FInv'
<1> DEFINE d == tx.draft
           r == tx.reservation
           units == SmallerOf(d.balance[g] - d.held[g], tx.left)
           m == Moved(d, g, 0, units)
           e == Appended(m, r, NewLine(g, units))
<1>1. /\ tx # NoTx /\ tx.stage = "fund" /\ Eligible(d, g, tx.now, tx.until)
      /\ CanMove(d, g, 0, units) /\ Proceed(e, tx.left - units, "fund")
  BY DEF HoldCredits
<1>2. /\ d \in Ledger /\ r \in Reservations /\ tx.left \in Nat /\ Sound(d)
  BY <1>1, Opened
<1>3. d.balance[g] - d.held[g] \in Nat /\ ~d.swept[g]
  BY <1>1, <1>2 DEF Eligible, Ledger, Sound, SweptHeld
<1>4. units \in Nat /\ tx.left - units \in Nat
  BY <1>2, <1>3 DEF SmallerOf
<1>5. NewLine(g, units) \in Line
  BY <1>4 DEF NewLine, Line, Sources
<1> HIDE DEF units
<1>6. /\ Sound(m) /\ m.lines = d.lines /\ m.reservation = d.reservation
      /\ m.event = d.event
  BY <1>1, <1>2, <1>3, <1>4, MovedSound
<1> HIDE DEF m
<1>7. Sound(e) /\ Keeps(m, e, r)
  BY <1>2, <1>5, <1>6, AppendedSound
<1> HIDE DEF e
<1>8. Keeps(d, e, r)
  BY <1>6, <1>7 DEF Keeps
<1> QED
  BY <1>1, <1>4, <1>7, <1>8, Proceeding DEF Stages

(* The postpaid plan line: reserveExposure checked the limit.                *)
LEMMA HoldsPostpaid == ASSUME FInv, HoldPostpaid PROVE FInv'
<1> DEFINE d == tx.draft
           r == tx.reservation
           m == Exposed(d, tx.left, 0)
           e == Appended(m, r, NewLine(Postpaid, tx.left))
<1>1. /\ tx # NoTx /\ tx.stage = "fund" /\ PostpaidAllows(d, tx.left)
      /\ Proceed(e, 0, "fund")
  BY DEF HoldPostpaid
<1>2. /\ r \in Reservations /\ tx.left \in Nat /\ Sound(d)
  BY <1>1, Opened
<1>3. NewLine(Postpaid, tx.left) \in Line
  BY <1>2 DEF NewLine, Line, Sources
<1>4. /\ tx.left + 0 = tx.left /\ d.exposure.reserved + tx.left >= 0
      /\ d.exposure.settled + 0 >= 0
  BY <1>2, ExposureFacts
<1>5. /\ Sound(m) /\ m.lines = d.lines /\ m.reservation = d.reservation
      /\ m.event = d.event
  BY <1>1, <1>2, <1>4, ExposedSound
<1> HIDE DEF m
<1>6. Sound(e) /\ Keeps(m, e, r)
  BY <1>2, <1>3, <1>5, AppendedSound
<1> HIDE DEF e
<1>7. Keeps(d, e, r)
  BY <1>5, <1>6 DEF Keeps
<1> QED
  BY <1>1, <1>6, <1>7, Proceeding DEF Stages

(* The reservation row of the open transaction is written at its commit.     *)
LEMMA UpdatedSound ==
  ASSUME NEW d, Sound(d), NEW r \in Reservations, EmptyBut(d, {r}),
         NEW status \in {"none"} \union Open \union Closed, NEW until \in Nat,
         d.reservation[r].version < MaxVersion,
         status \in Closed => Unused(d.lines[r]) = {}
  PROVE  /\ Sound(Updated(d, r, status, until))
         /\ EmptyBut(Updated(d, r, status, until), {})
<1> DEFINE row == [status |-> status, version |-> d.reservation[r].version + 1,
                   until |-> until]
           e == [d EXCEPT !.reservation[r] = row]
<1>1. d \in Ledger /\ d.reservation \in [Reservations -> Reservation]
  BY DEF Sound, Ledger
<1>2. row \in Reservation /\ row.status = status
  <2>1. d.reservation[r] \in Reservation
    BY <1>1
  <2>2. d.reservation[r].version + 1 \in 0..MaxVersion
    BY <2>1, FundingAssumption DEF Reservation
  <2> QED
    BY <2>2 DEF Reservation
<1>3. Updated(d, r, status, until) = e
  BY <1>1 DEF Updated
<1> HIDE DEF row
<1>4. e \in Ledger
  BY <1>1, <1>2 DEF Ledger
<1>5. /\ e.held = d.held /\ e.balance = d.balance /\ e.swept = d.swept
      /\ e.active = d.active /\ e.exposure = d.exposure /\ e.lines = d.lines
      /\ e.reservation = [d.reservation EXCEPT ![r] = row]
  BY <1>1 DEF Ledger
<1> HIDE DEF e
<1>6. Sound(e)
  BY <1>4, <1>5 DEF Sound, SweptHeld, WithinLimit
<1>7. EmptyBut(e, {})
  BY <1>1, <1>2, <1>5 DEF EmptyBut, ClosedEmpty
<1> QED
  BY <1>3, <1>6, <1>7

(* A settled event is remembered.                                            *)
LEMMA SettledSound ==
  ASSUME NEW d, Sound(d), NEW e \in Events, EmptyBut(d, {})
  PROVE  /\ Sound(Recorded(d, e))
         /\ EmptyBut(Recorded(d, e), {})
<1> DEFINE n == Recorded(d, e)
<1>1. d \in Ledger
  BY DEF Sound
<1>2. n \in Ledger
  <2> DEFINE s == d.settled \union {e}
             u == IF HasSettlement(d, e) THEN d.unposted ELSE d.unposted \union {e}
             o == IF e \in d.settled \/ InTurn(d, e) THEN d.outOfTurn
                  ELSE d.outOfTurn \union {e[1]}
  <2>1. s \in SUBSET Events /\ u \in SUBSET Events /\ o \in SUBSET Components
    BY <1>1 DEF Ledger, Events
  <2>2. n = [d EXCEPT !.settled = s, !.unposted = u, !.outOfTurn = o]
    BY DEF Recorded
  <2> HIDE DEF n, s, u, o
  <2> QED
    BY <1>1, <2>1, <2>2 DEF Ledger
<1>3. /\ n.held = d.held /\ n.balance = d.balance /\ n.swept = d.swept
      /\ n.active = d.active /\ n.exposure = d.exposure /\ n.lines = d.lines
      /\ n.reservation = d.reservation
  BY <1>1 DEF Ledger, Recorded
<1> HIDE DEF n
<1> QED
  BY <1>2, <1>3 DEF Sound, SweptHeld, WithinLimit, EmptyBut, ClosedEmpty, n

(* Reserve and extend commit with the reservation open.                      *)
LEMMA CommitsFunding == ASSUME FInv, CommitFunding PROVE FInv'
<1> DEFINE d == tx.draft
           r == tx.reservation
           old == d.reservation[r].status
           status == IF old = "none" THEN "reserved" ELSE old
           e == Updated(d, r, status, tx.until)
<1>1. tx # NoTx /\ tx.stage = "fund" /\ Commit(e)
  BY DEF CommitFunding
<1>2. /\ r \in Reservations /\ Sound(d) /\ EmptyBut(d, {r})
      /\ d.reservation[r].version < MaxVersion /\ old \in {"none"} \union Open
      /\ tx.until \in Nat
  BY <1>1, Opened
<1>3. status \in Open /\ status \notin Closed
  BY <1>2 DEF Open, Closed
<1> HIDE DEF status
<1>4. Sound(e) /\ EmptyBut(e, {})
  BY <1>2, <1>3, UpdatedSound
<1> HIDE DEF e
<1> QED
  BY <1>1, <1>4, Committing

(* A line is released, prepaid or postpaid.                                  *)
LEMMA ReleasesLine ==
  ASSUME FInv, tx # NoTx, NEW i \in DOMAIN tx.draft.lines[tx.reservation],
         ReleaseLine(i)
  PROVE  FInv'
<1> DEFINE d == tx.draft
           r == tx.reservation
           line == d.lines[r][i]
           units == Remaining(line)
<1>1. tx.stage = "release" /\ i \in Unused(d.lines[r])
  BY DEF ReleaseLine, NextUnused
<1>2. /\ d \in Ledger /\ r \in Reservations /\ Sound(d) /\ tx.left \in Nat
  BY Opened
<1>3. line \in Line
  BY <1>2, LenProperties, ElementOfSeq DEF Ledger
<1>4. units \in Nat /\ line.source \in Sources
  BY <1>1, <1>3, Arithmetic DEF Unused, Line
<1>5. ASSUME NEW m, Sound(m), m.lines = d.lines, m.reservation = d.reservation,
             m.event = d.event, Proceed(MarkReleased(m, r, i), tx.left, "release")
      PROVE  FInv'
  <2>1. Sound(MarkReleased(m, r, i)) /\ Keeps(m, MarkReleased(m, r, i), r)
    BY <1>1, <1>2, <1>5, MarkReleasedSound
  <2>2. Keeps(d, MarkReleased(m, r, i), r)
    BY <1>5, <2>1 DEF Keeps
  <2> QED
    BY <1>1, <1>2, <1>5, <2>1, <2>2, Proceeding DEF Stages
<1>6. CASE /\ line.source = Postpaid /\ units <= d.exposure.reserved
           /\ Proceed(MarkReleased(ReleasePostpaid(d, units), r, i), tx.left, "release")
  <2> DEFINE m == ReleasePostpaid(d, units)
  <2>1. /\ -units + 0 <= 0 /\ d.exposure.reserved + -units >= 0
        /\ d.exposure.settled + 0 >= 0 /\ -units \in Int
    <3> HIDE DEF units
    <3> QED
      BY <1>2, <1>4, <1>6, ExposureFacts
  <2>2. /\ Sound(m) /\ m.lines = d.lines /\ m.reservation = d.reservation
        /\ m.event = d.event
    <3> HIDE DEF units
    <3> QED
      BY <1>2, <2>1, ExposedSound DEF ReleasePostpaid
  <2> HIDE DEF m
  <2> QED
    BY <1>5, <1>6, <2>2 DEF m
<1>7. CASE /\ line.source # Postpaid /\ units <= d.held[line.source]
           /\ Proceed(MarkReleased(ReleaseCredits(d, line.source, units), r, i),
                      tx.left, "release")
  <2> DEFINE m == ReleaseCredits(d, line.source, units)
  <2>1. line.source \in Grants
    BY <1>4, <1>7 DEF Sources
  <2>2. /\ Sound(m) /\ m.lines = d.lines /\ m.reservation = d.reservation
        /\ m.event = d.event
    BY <1>2, <1>4, <1>7, <2>1, ReleaseCreditsSound
  <2>3. Proceed(MarkReleased(m, r, i), tx.left, "release")
    BY <1>7
  <2> HIDE DEF m, d, r, line, units
  <2> QED
    BY <1>5, <2>2, <2>3
<1> QED
  BY <1>6, <1>7 DEF ReleaseLine

(* The reservation closes when no line has units left.                       *)
LEMMA CommitsRelease == ASSUME FInv, CommitRelease PROVE FInv'
<1> DEFINE d == tx.draft
           r == tx.reservation
           used == \E i \in DOMAIN d.lines[r] : d.lines[r][i].consumed > 0
           status == IF tx.command = "settle" /\ used THEN "settled" ELSE "released"
           e == Updated(d, r, status, d.reservation[r].until)
           n == Recorded(e, tx.event)
<1>1. /\ tx # NoTx /\ Unused(d.lines[r]) = {}
      /\ Commit(IF tx.command = "settle" THEN n ELSE e)
  BY DEF CommitRelease
<1>2. /\ d \in Ledger /\ r \in Reservations /\ Sound(d) /\ EmptyBut(d, {r})
      /\ d.reservation[r].version < MaxVersion
      /\ tx.command = "settle" => tx.event \in Events
  BY <1>1, Opened
<1>3. d.reservation[r].until \in Nat
  BY <1>2 DEF Ledger, Reservation
<1>4. status \in Closed
  BY DEF Closed
<1> HIDE DEF status
<1>5. Sound(e) /\ EmptyBut(e, {})
  BY <1>1, <1>2, <1>3, <1>4, UpdatedSound
<1> HIDE DEF e
<1>6. tx.command = "settle" => Sound(n) /\ EmptyBut(n, {})
  BY <1>2, <1>5, SettledSound
<1> HIDE DEF n
<1>7. CASE tx.command = "settle"
  BY <1>1, <1>6, <1>7, Committing DEF Commit
<1>8. CASE tx.command # "settle"
  BY <1>1, <1>5, <1>8, Committing DEF Commit
<1> QED
  BY <1>7, <1>8

(* A settlement that is not final leaves the reservation open.               *)
LEMMA CommitsSettle == ASSUME FInv, CommitSettle PROVE FInv'
<1> DEFINE d == tx.draft
           r == tx.reservation
           e == Updated(d, r, "partially_consumed", d.reservation[r].until)
           n == Recorded(e, tx.event)
<1>1. tx # NoTx /\ tx.stage = "close" /\ Commit(n)
  BY DEF CommitSettle
<1>2. /\ d \in Ledger /\ r \in Reservations /\ Sound(d) /\ EmptyBut(d, {r})
      /\ d.reservation[r].version < MaxVersion /\ tx.event \in Events
  BY <1>1, Opened
<1>3. d.reservation[r].until \in Nat
  BY <1>2 DEF Ledger, Reservation
<1>4. Sound(e) /\ EmptyBut(e, {})
  BY <1>2, <1>3, UpdatedSound DEF Open, Closed
<1> HIDE DEF e
<1>5. Sound(n) /\ EmptyBut(n, {})
  BY <1>2, <1>4, SettledSound
<1> HIDE DEF n
<1> QED
  BY <1>1, <1>5, Committing

(* A line is charged, prepaid or postpaid.                                   *)
LEMMA ConsumesLine ==
  ASSUME FInv, tx # NoTx, NEW i \in DOMAIN tx.draft.lines[tx.reservation],
         ConsumeLine(i)
  PROVE  FInv'
<1> DEFINE d == tx.draft
           r == tx.reservation
           line == d.lines[r][i]
           units == SmallerOf(Remaining(line), tx.left)
           left == tx.left - units
           next == IF left = 0 THEN AfterCharge(tx.finalize) ELSE "consume"
<1>1. tx.stage = "consume" /\ i \in Unused(d.lines[r])
  BY DEF ConsumeLine, NextUnused
<1>2. /\ d \in Ledger /\ r \in Reservations /\ Sound(d) /\ tx.left \in Nat
      /\ tx.event \in Events
  BY <1>1, Opened
<1>3. line \in Line
  BY <1>2, LenProperties, ElementOfSeq DEF Ledger
<1>4. /\ units \in Nat /\ left \in Nat /\ line.source \in Sources
      /\ line.consumed \in Nat
  <2>1. Remaining(line) \in Nat
    BY <1>1, <1>3, Arithmetic DEF Unused
  <2> QED
    BY <1>2, <1>3, <2>1 DEF SmallerOf, Line
<1>5. next \in {"release", "close", "consume"}
  BY DEF AfterCharge
<1> HIDE DEF units, next, left
<1>6. ASSUME NEW m, Sound(m), m.lines = d.lines, m.reservation = d.reservation,
             m.event = d.event, Proceed(Spend(m, r, i, line.source, units), left, next)
      PROVE  FInv'
  <2>1. /\ Sound(Spend(m, r, i, line.source, units))
        /\ Keeps(m, Spend(m, r, i, line.source, units), r)
    BY SMTT(40), <1>2, <1>4, <1>6, SpendSound
  <2> DEFINE n == Spend(m, r, i, line.source, units)
  <2>2. m.lines = d.lines /\ m.reservation = d.reservation /\ m.event = d.event
    BY <1>6
  <2>3. Keeps(m, n, r)
    BY <2>1
  <2> HIDE DEF n, d
  <2>4. Keeps(d, n, r)
    BY <2>2, <2>3 DEF Keeps
  <2> USE DEF n, d
  <2> QED
    BY <1>1, <1>4, <1>5, <1>6, <2>1, <2>4, Proceeding DEF Stages
<1>7. CASE /\ line.source = Postpaid /\ units <= d.exposure.reserved
           /\ Proceed(Spend(SettlePostpaid(d, units), r, i, Postpaid, units), left, next)
  <2> DEFINE m == SettlePostpaid(d, units)
  <2>1. /\ -units + units <= 0 /\ d.exposure.reserved + -units >= 0
        /\ d.exposure.settled + units >= 0 /\ -units \in Int
    BY <1>2, <1>4, <1>7, ExposureFacts
  <2>2. /\ Sound(m) /\ m.lines = d.lines /\ m.reservation = d.reservation
        /\ m.event = d.event
    BY <1>2, <1>4, <2>1, ExposedSound DEF SettlePostpaid
  <2> HIDE DEF m
  <2> QED
    BY <1>6, <1>7, <2>2 DEF m
<1>8. CASE /\ line.source # Postpaid /\ units <= d.held[line.source]
           /\ Proceed(Spend(ConsumeCredits(d, line.source, units), r, i, line.source, units),
                      left, next)
  <2> DEFINE m == ConsumeCredits(d, line.source, units)
  <2>1. line.source \in Grants
    BY <1>4, <1>8 DEF Sources
  <2>2. /\ Sound(m) /\ m.lines = d.lines /\ m.reservation = d.reservation
        /\ m.event = d.event
    BY <1>2, <1>4, <1>8, <2>1, ConsumeCreditsSound
  <2> HIDE DEF m
  <2> QED
    BY <1>6, <1>8, <2>2 DEF m
<1> QED
  BY <1>7, <1>8 DEF ConsumeLine, units, left, next

(* Usage past the hold: postpaid takes it, within the limit.                 *)
LEMMA Overruns == ASSUME FInv, Overrun PROVE FInv'
<1> DEFINE d == tx.draft
           r == tx.reservation
           line == [NewLine(Postpaid, tx.left) EXCEPT !.consumed = tx.left]
           m == Appended(d, r, line)
           k == Exposed(m, 0, tx.left)
           e == Posted(k, Postpaid, tx.left)
<1>1. /\ tx # NoTx /\ tx.stage = "consume" /\ PostpaidAllows(d, tx.left)
      /\ Proceed(e, 0, AfterCharge(tx.finalize))
  BY DEF Overrun
<1>2. /\ d \in Ledger /\ r \in Reservations /\ Sound(d) /\ tx.left \in Nat
      /\ tx.event \in Events
  BY <1>1, Opened
<1>3. line \in Line
  BY <1>2 DEF NewLine, Line, Sources
<1>4. Sound(m) /\ Keeps(d, m, r)
  BY <1>2, <1>3, AppendedSound
<1>5. PostpaidAllows(m, tx.left)
  <2>1. m.exposure = d.exposure
    BY <1>2 DEF Appended, Ledger
  <2> HIDE DEF m
  <2> QED
    BY <1>1, <2>1 DEF PostpaidAllows
<1> HIDE DEF m
<1>6. /\ 0 + tx.left = tx.left /\ m.exposure.reserved + 0 >= 0
      /\ m.exposure.settled + tx.left >= 0
  BY <1>2, <1>4, ExposureFacts
<1>7. /\ Sound(k) /\ k.lines = m.lines /\ k.reservation = m.reservation
      /\ k.event = m.event
  BY <1>2, <1>4, <1>5, <1>6, ExposedSound
<1> HIDE DEF k
<1>8. /\ Sound(e) /\ e.lines = k.lines /\ e.reservation = k.reservation
      /\ e.event = k.event
  <2>1. Postpaid \in Sources /\ tx.left \in Int
    BY <1>2 DEF Sources
  <2> QED
    BY <1>2, <1>7, <2>1, PostedSound
<1> HIDE DEF e
<1>9. Keeps(d, e, r)
  BY <1>4, <1>7, <1>8 DEF Keeps
<1>10. AfterCharge(tx.finalize) \in {"release", "close"}
  BY DEF AfterCharge
<1> QED
  BY <1>1, <1>8, <1>9, <1>10, Proceeding DEF Stages

(* A step of the reversing loop.                                             *)
LEMMA Reversing ==
  ASSUME FInv, tx # NoTx, tx.stage = "reverse", NEW d, NEW s \in Sources,
         NEW units \in 1..tx.left, NextReversal(d, s, units),
         Sound(d), Keeps(tx.draft, d, tx.reservation)
  PROVE  FInv'
<1>1. /\ tx \in Transaction /\ tx.left \in Nat /\ tx.reversed \in SUBSET Sources
  BY Opened
<1> DEFINE reversed == tx.reversed \union {s}
           left == tx.left - units
<1>2. left \in Nat /\ reversed \in SUBSET Sources
  BY <1>1
<1>3. tx' = [tx EXCEPT !.draft = d, !.left = left, !.reversed = reversed]
  BY DEF NextReversal
<1> HIDE DEF left, reversed
<1>4. tx' = [tx EXCEPT !.draft = d, !.left = left, !.stage = "reverse",
                       !.reversed = reversed]
  BY <1>1, <1>3 DEF Transaction
<1>5. "reverse" \in Stages
  BY DEF Stages
<1>6. Pending'
  BY <1>2, <1>4, <1>5, ProceedKeeps, Zenon DEF FInv
<1> QED
  BY <1>6 DEF NextReversal, FInv, Sound, SweptHeld, WithinLimit, EmptyBut, ClosedEmpty

(* A correction gives units back to a live grant only.                       *)
LEMMA RestoresCredits ==
  ASSUME FInv, tx # NoTx, NEW g \in Grants, NEW units \in 1..tx.left,
         NEW i \in DOMAIN tx.draft.lines[tx.reservation],
         RestoreCredits(g, i, units)
  PROVE  FInv'
<1> DEFINE d == tx.draft
           r == tx.reservation
           m == Moved(d, g, units, 0)
           e == Spend(m, r, i, g, -units)
<1>1. /\ tx.stage = "reverse" /\ ~Expired(d, g, tx.now)
      /\ d.lines[r][i].consumed >= units
      /\ NextReversal(e, g, units)
  BY DEF RestoreCredits
<1>2. /\ d \in Ledger /\ r \in Reservations /\ Sound(d) /\ tx.left \in Nat
      /\ tx.event \in Events
  BY <1>1, Opened
<1>3. units \in Nat /\ -units \in Int /\ g \in Sources
  BY <1>2 DEF Sources
<1>4. CanMove(d, g, units, 0) /\ ~d.swept[g]
  BY SMTT(40), <1>1, <1>2, <1>3 DEF CanMove, Expired, Ledger, Sound, SweptHeld
<1>5. /\ Sound(m) /\ m.lines = d.lines /\ m.reservation = d.reservation
      /\ m.event = d.event
  BY <1>2, <1>3, <1>4, MovedSound
<1>6. d.lines[r][i].consumed + -units >= 0
  <2>1. d.lines[r][i] \in Line
    BY <1>2, LenProperties, ElementOfSeq DEF Ledger
  <2> QED
    BY <1>1, <1>3, <2>1 DEF Line
<1> HIDE DEF m
<1>7. Sound(e) /\ Keeps(m, e, r)
  BY <1>2, <1>3, <1>5, <1>6, SpendSound
<1> HIDE DEF e
<1>8. Keeps(d, e, r)
  BY <1>5, <1>7 DEF Keeps
<1> QED
  BY <1>1, <1>3, <1>7, <1>8, Reversing

(* A correction of an expired grant leaves its position alone.               *)
LEMMA ForfeitsCredits ==
  ASSUME FInv, tx # NoTx, NEW g \in Grants, NEW units \in 1..tx.left,
         ForfeitCredits(g, units)
  PROVE  FInv'
<1> DEFINE d == tx.draft
           x == d.forfeited[tx.event] + units
           e == [d EXCEPT !.forfeited[tx.event] = x]
<1>1. tx.stage = "reverse" /\ NextReversal(e, g, units)
  BY DEF ForfeitCredits
<1>2. d \in Ledger /\ Sound(d) /\ tx.left \in Nat /\ tx.event \in Events
  BY <1>1, Opened
<1>3. x \in Nat /\ g \in Sources
  BY SMTT(40), <1>2 DEF Ledger, Sources
<1> HIDE DEF x
<1>4. /\ Sound(e) /\ e.lines = d.lines /\ e.reservation = d.reservation
      /\ e.event = d.event
  BY <1>2, <1>3, ForfeitedSound
<1> HIDE DEF e
<1>5. Keeps(d, e, tx.reservation)
  BY <1>4 DEF Keeps
<1> QED
  BY <1>1, <1>3, <1>4, <1>5, Reversing

(* A correction of postpaid usage lowers the settled exposure.               *)
LEMMA ReversesPostpaid ==
  ASSUME FInv, tx # NoTx, NEW units \in 1..tx.left, ReversePostpaid(units)
  PROVE  FInv'
<1> DEFINE d == tx.draft
           repaid == SmallerOf(d.exposure.settled, units)
           m == Exposed(d, 0, -repaid)
           e == Posted(m, Postpaid, -units)
<1>1. tx.stage = "reverse" /\ NextReversal(e, Postpaid, units)
  BY DEF ReversePostpaid
<1>2. Sound(d) /\ tx.left \in Nat /\ tx.event \in Events
  BY <1>1, Opened
<1>3. units \in Nat /\ -units \in Int /\ Postpaid \in Sources
  BY <1>2 DEF Sources
<1>4. /\ -repaid \in Int /\ 0 + -repaid <= 0
      /\ d.exposure.reserved + 0 >= 0 /\ d.exposure.settled + -repaid >= 0
  BY <1>2, <1>3, ExposureFacts DEF SmallerOf
<1> HIDE DEF repaid
<1>5. /\ Sound(m) /\ m.lines = d.lines /\ m.reservation = d.reservation
      /\ m.event = d.event
  BY <1>2, <1>4, ExposedSound
<1> HIDE DEF m
<1>6. /\ Sound(e) /\ e.lines = m.lines /\ e.reservation = m.reservation
      /\ e.event = m.event
  BY <1>2, <1>3, <1>5, PostedSound
<1> HIDE DEF e
<1>7. Keeps(d, e, tx.reservation)
  BY <1>5, <1>6 DEF Keeps
<1> QED
  BY <1>1, <1>3, <1>6, <1>7, Reversing

(* The reversing loop ends.                                                  *)
LEMMA EndsReversal == ASSUME FInv, EndReversal PROVE FInv'
<1>1. /\ tx # NoTx /\ tx.stage = "reverse"
      /\ Proceed(tx.draft, 0, AfterCharge(tx.finalize))
  BY DEF EndReversal
<1>2. AfterCharge(tx.finalize) \in {"release", "close"}
  BY DEF AfterCharge
<1>3. Sound(tx.draft)
  BY <1>1, Opened
<1> QED
  BY <1>1, <1>2, <1>3, Proceeding DEF Keeps, Stages

------------------------------------------------------------------------------
(* Steps outside of a command *)

(* An event is recorded outside of any command.                              *)
LEMMA RecordsEvent ==
  ASSUME FInv, NEW e \in Events, NEW units \in 0..MaxUnits, NEW at \in Instants,
         RecordEvent(e, units, at)
  PROVE  FInv'
<1> DEFINE n == [ledger EXCEPT !.event[e] = [units |-> units, at |-> at]]
<1>1. ledger' = n /\ tx = NoTx /\ tx' = tx /\ clock' = clock
  BY DEF RecordEvent
<1>2. ledger \in Ledger
  BY DEF FInv, Sound
<1>3. [units |-> units, at |-> at] \in Event
  BY DEF Event
<1>4. n \in Ledger
  BY <1>2, <1>3 DEF Ledger
<1>5. /\ n.held = ledger.held /\ n.balance = ledger.balance
      /\ n.swept = ledger.swept /\ n.active = ledger.active
      /\ n.exposure = ledger.exposure /\ n.lines = ledger.lines
      /\ n.reservation = ledger.reservation
  BY <1>2 DEF Ledger
<1> HIDE DEF n
<1>6. Sound(n) /\ EmptyBut(n, {})
  BY <1>4, <1>5 DEF FInv, Sound, SweptHeld, WithinLimit, EmptyBut, ClosedEmpty
<1> QED
  BY <1>1, <1>6 DEF FInv, Sound, SweptHeld, WithinLimit, EmptyBut, ClosedEmpty

(* The expiry job leaves a grant what is held of it.                         *)
LEMMA ExpiresGrant ==
  ASSUME FInv, NEW g \in Grants, ExpireGrant(g)
  PROVE  FInv'
<1> DEFINE available == ledger.balance[g] - ledger.held[g]
           m == Moved(ledger, g, -available, 0)
           e == [m EXCEPT !.expired[g] = @ + available, !.active[g] = FALSE,
                          !.swept[g] = TRUE]
<1>1. ledger' = e /\ tx = NoTx /\ tx' = tx /\ clock' = clock /\ ~ledger.swept[g]
  BY DEF ExpireGrant
<1>2. ledger \in Ledger /\ Sound(ledger) /\ EmptyBut(ledger, {})
  BY DEF FInv, Sound
<1>3. /\ ledger.balance[g] \in Nat /\ ledger.held[g] \in Nat
      /\ ledger.held[g] <= ledger.balance[g]
  BY <1>2 DEF Sound, Ledger
<1>4. available \in Nat /\ -available \in Int /\ CanMove(ledger, g, -available, 0)
  BY <1>3 DEF CanMove
<1>5. /\ Sound(m) /\ m.lines = ledger.lines /\ m.reservation = ledger.reservation
  <2> HIDE DEF available
  <2> QED
    BY <1>1, <1>2, <1>4, MovedSound
<1>6. m.balance[g] = m.held[g]
  BY <1>2, <1>3 DEF Moved, Ledger
<1> HIDE DEF available, m
<1>7. m \in Ledger
  BY <1>5 DEF Sound
<1> DEFINE expired == [m.expired EXCEPT ![g] = @ + available]
           active == [m.active EXCEPT ![g] = FALSE]
           swept == [m.swept EXCEPT ![g] = TRUE]
<1>8. /\ expired \in [Grants -> Nat] /\ active \in [Grants -> BOOLEAN]
      /\ swept \in [Grants -> BOOLEAN]
  BY <1>4, <1>7 DEF Ledger
<1>9. e = [m EXCEPT !.expired = expired, !.active = active, !.swept = swept]
  BY <1>7 DEF Ledger
<1> HIDE DEF expired
<1>10. e \in Ledger
  BY <1>7, <1>8, <1>9 DEF Ledger
<1>11. /\ e.held = m.held /\ e.balance = m.balance /\ e.swept = swept
       /\ e.active = active /\ e.exposure = m.exposure /\ e.lines = m.lines
       /\ e.reservation = m.reservation
  BY <1>7, <1>9 DEF Ledger
<1> HIDE DEF e
<1>12. SweptHeld(e)
  BY <1>5, <1>6, <1>7, <1>11 DEF Sound, SweptHeld, Ledger
<1>13. Sound(e)
  BY <1>5, <1>10, <1>11, <1>12 DEF Sound, WithinLimit
<1>14. EmptyBut(e, {})
  BY <1>2, <1>5, <1>11 DEF EmptyBut, ClosedEmpty
<1> QED
  BY <1>1, <1>13, <1>14 DEF FInv, Sound, SweptHeld, WithinLimit, EmptyBut, ClosedEmpty

(* The invariant holds before the first command.                             *)
LEMMA Initially == FundingInit => FInv
<1> SUFFICES ASSUME FundingInit PROVE FInv
  OBVIOUS
<1>1. clock \in Instants /\ tx = NoTx
  BY FundingAssumption DEF FundingInit, Instants
<1>2. ledger \in Ledger
  <2>1. <<>> \in Seq(Line)
    BY EmptySeq
  <2>2. [status |-> "none", version |-> 0, until |-> 0] \in Reservation
    BY FundingAssumption DEF Reservation
  <2> QED
    BY <2>1, <2>2, FundingAssumption DEF FundingInit, Ledger
<1>3. Sound(ledger)
  BY <1>2, FundingAssumption DEF Sound, SweptHeld, WithinLimit, FundingInit
<1>4. EmptyBut(ledger, {})
  BY DEF EmptyBut, ClosedEmpty, FundingInit, Closed
<1> QED
  BY <1>1, <1>3, <1>4 DEF FInv

(* Every step keeps the invariant.                                           *)
LEMMA Inductive == FInv /\ [FundingNext]_vars => FInv'
<1> SUFFICES ASSUME FInv, [FundingNext]_vars PROVE FInv'
  OBVIOUS
<1>1. CASE UNCHANGED vars
  BY ZenonT(60), <1>1 DEF vars, FInv, Pending, Transaction, Sound, SweptHeld, WithinLimit,
              EmptyBut, ClosedEmpty
<1>2. CASE Tick
  <2>1. clock' \in Instants /\ UNCHANGED <<ledger, tx>>
    BY <1>2, FundingAssumption DEF Tick, FInv, Instants
  <2> QED
    BY ZenonT(60), <2>1 DEF FInv, Pending, Transaction, Sound, SweptHeld, WithinLimit,
                EmptyBut, ClosedEmpty
<1>3. CASE Rollback
  BY <1>3 DEF Rollback, FInv, Sound, SweptHeld, WithinLimit, EmptyBut, ClosedEmpty
<1>4. CASE Begin
  <2>1. ASSUME NEW r \in Reservations, NEW units \in 1..MaxUnits,
               NEW until \in 1..(MaxTime + 1), NEW now \in Instants,
               BeginReserve(r, units, until, now) \/ BeginExtend(r, units, until, now)
        PROVE  FInv'
    <3>1. units \in Nat /\ until \in Nat
      BY FundingAssumption
    <3> QED
      BY <2>1, <3>1, BeginFunding
  <2> QED
    BY <1>4, <2>1, BeginReleasing, BeginSettling DEF Begin
<1>5. CASE FundStep
  BY <1>5, HoldsPostpaid, CommitsFunding, HoldsCredits DEF FundStep
<1>6. CASE ReleaseStep
  BY <1>6, ReleasesLine, CommitsRelease DEF ReleaseStep
<1>7. CASE SettleStep
  <2>1. CASE ReverseStep
    BY <2>1, RestoresCredits, ForfeitsCredits, ReversesPostpaid, EndsReversal
       DEF ReverseStep
  <2> QED
    BY <1>7, <2>1, ConsumesLine, Overruns, CommitsSettle DEF SettleStep
<1>8. CASE \E e \in Events, units \in 0..MaxUnits, at \in Instants :
             RecordEvent(e, units, at)
  BY <1>8, RecordsEvent
<1>9. CASE \E g \in Grants : ExpireGrant(g)
  BY <1>9, ExpiresGrant
<1> QED
  BY <1>1, <1>2, <1>3, <1>4, <1>5, <1>6, <1>7, <1>8, <1>9 DEF FundingNext

(* The invariant holds in every reachable state.                             *)
LEMMA Invariance == FundingSpec => []FInv
  BY Initially, Inductive, PTL DEF FundingSpec

------------------------------------------------------------------------------
(* Every committed table and every open transaction has its type: no balance, *)
(* hold, line or exposure total is ever negative.                            *)
THEOREM FundingTypeCorrect == FundingSpec => []TypeOK
<1>1. FInv => TypeOK
  BY DEF FInv, Sound, Pending, TypeOK
<1> QED
  BY <1>1, Invariance, PTL

(* Once the expiry job has been at a grant, whatever is left in its position *)
(* is held; no release or correction makes a unit of it available again.    *)
THEOREM SweptStaysHeld == FundingSpec => []SweptIsHeld
<1>1. FInv => SweptIsHeld
  BY DEF FInv, Sound, SweptIsHeld
<1> QED
  BY <1>1, Invariance, PTL

(* The postpaid exposure, held and settled, never exceeds the limit.        *)
THEOREM LimitHolds == FundingSpec => []PostpaidWithinLimit
<1>1. FInv => PostpaidWithinLimit
  BY DEF FInv, Sound, PostpaidWithinLimit
<1> QED
  BY <1>1, Invariance, PTL

(* A reservation that is settled or released holds nothing.                 *)
THEOREM ClosedIsEmpty == FundingSpec => []ClosedHoldsNothing
<1>1. FInv => ClosedHoldsNothing
  BY DEF FInv, EmptyBut, ClosedHoldsNothing
<1> QED
  BY <1>1, Invariance, PTL

------------------------------------------------------------------------------
(* No hold crosses the expiry of its grant *)

(* An operation without a reservation has no lines to use.                   *)
Vacant(d, R) ==
  \A r \in Reservations \ R :
    d.reservation[r].status = "none" => Unused(d.lines[r]) = {}

(* When the reservation of the open transaction ends, once it commits.       *)
EndsAt(t) ==
  IF t.stage = "fund" THEN t.until ELSE t.draft.reservation[t.reservation].until

(* The open transaction keeps within the expiries; while it charges it has   *)
(* restored nothing, and while it restores it has charged nothing.           *)
PendingWithin(t) ==
  /\ \A r \in Reservations \ {t.reservation} :
       WithinExpiry(t.draft, r, t.draft.reservation[r].until)
  /\ WithinExpiry(t.draft, t.reservation, EndsAt(t))
  /\ Vacant(t.draft, {t.reservation})
  /\ t.stage = "consume" => \A s \in Sources : t.draft.charge[t.event][s] >= 0
  /\ t.stage = "reverse" => \A s \in Sources : t.draft.charge[t.event][s] <= 0

ExpiryInv ==
  /\ NoHoldCrossesExpiry
  /\ Vacant(ledger, {})
  /\ tx # NoTx => PendingWithin(tx)

(* Tables that agree in what these invariants look at.                       *)
Alike(d, e) ==
  /\ e.lines = d.lines /\ e.charge = d.charge /\ e.reservation = d.reservation

(* A line with units left has a source.                                      *)
LEMMA LineSource ==
  ASSUME NEW d \in Ledger, NEW r \in Reservations, NEW i \in Unused(d.lines[r])
  PROVE  /\ d.lines[r][i].source \in Sources
         /\ d.lines[r][i].source # Postpaid => d.lines[r][i].source \in Grants
<1>1. d.lines[r] \in Seq(Line) /\ i \in DOMAIN d.lines[r]
  BY DEF Ledger, Unused
<1>2. d.lines[r][i] \in Line
  BY <1>1, LenProperties, ElementOfSeq
<1> QED
  BY <1>2 DEF Line, Sources

(* What a step of the open transaction has to leave to keep it within the     *)
(* expiries: a line with units left had them before, or is on a grant that   *)
(* lives as long as the reservation.                                       *)
LEMMA StaysWithin ==
  ASSUME PendingWithin(tx), NEW t, NEW r \in Reservations,
         tx.reservation = r, t.reservation = r, t.until = tx.until,
         tx.draft \in Ledger, t.draft \in Ledger,
         Keeps(tx.draft, t.draft, r),
         (t.stage = "fund") <=> (tx.stage = "fund"),
         \A g \in Grants : Unrestored(t.draft, g) => Unrestored(tx.draft, g),
         \A i \in Unused(t.draft.lines[r]) :
           \/ /\ i \in Unused(tx.draft.lines[r])
              /\ tx.draft.lines[r][i].source = t.draft.lines[r][i].source
           \/ ~Unrestored(t.draft, t.draft.lines[r][i].source)
           \/ t.draft.lines[r][i].source = Postpaid
           \/ ExpiresAt[t.draft.lines[r][i].source] = Never
           \/ EndsAt(t) <= ExpiresAt[t.draft.lines[r][i].source],
         t.stage = "consume" => \A s \in Sources : t.draft.charge[t.event][s] >= 0,
         t.stage = "reverse" => \A s \in Sources : t.draft.charge[t.event][s] <= 0
  PROVE  PendingWithin(t)
<1>1. EndsAt(t) = EndsAt(tx)
  BY DEF EndsAt, Keeps
<1>2. WithinExpiry(t.draft, r, EndsAt(t))
  <2> SUFFICES ASSUME NEW i \in Unused(t.draft.lines[r]),
                      t.draft.lines[r][i].source # Postpaid,
                      ExpiresAt[t.draft.lines[r][i].source] # Never,
                      Unrestored(t.draft, t.draft.lines[r][i].source)
               PROVE  EndsAt(t) <= ExpiresAt[t.draft.lines[r][i].source]
    BY DEF WithinExpiry
  <2>1. t.draft.lines[r][i].source \in Grants
    BY LineSource
  <2> QED
    BY <1>1, <2>1 DEF PendingWithin, WithinExpiry
<1>3. ASSUME NEW q \in Reservations \ {r}
      PROVE  /\ WithinExpiry(t.draft, q, t.draft.reservation[q].until)
             /\ t.draft.reservation[q].status = "none" => Unused(t.draft.lines[q]) = {}
  <2>1. /\ t.draft.lines[q] = tx.draft.lines[q]
        /\ t.draft.reservation = tx.draft.reservation
    BY DEF Keeps
  <2>2. \A i \in Unused(tx.draft.lines[q]) :
          tx.draft.lines[q][i].source # Postpaid => tx.draft.lines[q][i].source \in Grants
    BY LineSource
  <2> QED
    BY <2>1, <2>2 DEF PendingWithin, WithinExpiry, Vacant
<1> QED
  BY <1>2, <1>3 DEF PendingWithin, Vacant

(* The open transaction a command begins.                                    *)
LEMMA BeginsWithin ==
  ASSUME ExpiryInv, NEW t, t.reservation \in Reservations, Alike(ledger, t.draft),
         t.stage = "fund" => WithinExpiry(ledger, t.reservation, t.until),
         t.stage = "consume" => \A s \in Sources : ledger.charge[t.event][s] >= 0,
         t.stage = "reverse" => \A s \in Sources : ledger.charge[t.event][s] <= 0
  PROVE  PendingWithin(t)
<1>1. \A r, until : WithinExpiry(ledger, r, until) => WithinExpiry(t.draft, r, until)
  BY DEF WithinExpiry, Unrestored, Alike
<1>2. \A r \in Reservations : WithinExpiry(ledger, r, ledger.reservation[r].until)
  BY DEF ExpiryInv, NoHoldCrossesExpiry
<1>3. Vacant(t.draft, {t.reservation})
  BY DEF ExpiryInv, Vacant, Alike
<1> QED
  BY <1>1, <1>2, <1>3 DEF PendingWithin, EndsAt, Alike

(* A reservation that is committed: it ends where its lines allow it to.      *)
LEMMA CommitsWithin ==
  ASSUME FInv, ExpiryInv, tx # NoTx, NEW d, Commit(d),
         d.lines = tx.draft.lines, d.charge = tx.draft.charge,
         d.reservation[tx.reservation].until = EndsAt(tx),
         d.reservation[tx.reservation].status # "none",
         \A r \in Reservations \ {tx.reservation} :
           d.reservation[r] = tx.draft.reservation[r]
  PROVE  ExpiryInv'
<1>1. ledger' = d /\ tx' = NoTx
  BY DEF Commit
<1>2. PendingWithin(tx)
  BY DEF ExpiryInv
<1>3. \A r \in Reservations : WithinExpiry(d, r, d.reservation[r].until)
  <2>1. \A r, until : WithinExpiry(tx.draft, r, until) => WithinExpiry(d, r, until)
    BY DEF WithinExpiry, Unrestored
  <2> QED
    BY <1>2, <2>1 DEF PendingWithin
<1>4. Vacant(d, {})
  BY <1>2 DEF PendingWithin, Vacant
<1> QED
  BY <1>1, <1>3, <1>4 DEF ExpiryInv, NoHoldCrossesExpiry, WithinExpiry, Unrestored, Vacant

(* A step that works on the draft.                                           *)
LEMMA Advances ==
  ASSUME FInv, FInv', ExpiryInv, tx # NoTx, UNCHANGED ledger, NEW d, NEW stage,
         tx'.draft = d, tx'.stage = stage, tx'.reservation = tx.reservation,
         tx'.until = tx.until, tx'.event = tx.event,
         Keeps(tx.draft, d, tx.reservation),
         (stage = "fund") <=> (tx.stage = "fund"),
         \A g \in Grants : Unrestored(d, g) => Unrestored(tx.draft, g),
         \A i \in Unused(d.lines[tx.reservation]) :
           LET g == d.lines[tx.reservation][i].source IN
           \/ /\ i \in Unused(tx.draft.lines[tx.reservation])
              /\ tx.draft.lines[tx.reservation][i].source = g
           \/ ~Unrestored(d, g)
           \/ g = Postpaid
           \/ ExpiresAt[g] = Never
           \/ tx.stage = "fund" /\ tx.until <= ExpiresAt[g],
         stage = "consume" => \A s \in Sources : d.charge[tx.event][s] >= 0,
         stage = "reverse" => \A s \in Sources : d.charge[tx.event][s] <= 0
  PROVE  ExpiryInv'
<1>1. PendingWithin(tx) /\ tx.reservation \in Reservations /\ tx.draft \in Ledger
  BY Opened DEF ExpiryInv
<1>2. ASSUME tx' # NoTx PROVE PendingWithin(tx')
  <2>1. d \in Ledger
    BY <1>2 DEF FInv, Pending, Sound
  <2>2. tx.stage = "fund" => EndsAt(tx') = tx.until
    BY DEF EndsAt
  <2> QED
    BY <1>1, <2>1, <2>2, StaysWithin
<1> QED
  BY <1>2 DEF ExpiryInv, NoHoldCrossesExpiry, WithinExpiry, Unrestored, Vacant

(* What Proceed and NextReversal leave alone.                                *)
LEMMA NextTx ==
  ASSUME FInv, tx # NoTx, NEW d
  PROVE  /\ \A left, stage :
              Proceed(d, left, stage) =>
                /\ tx'.draft = d /\ tx'.stage = stage /\ tx'.left = left
                /\ tx'.reservation = tx.reservation
                /\ tx'.until = tx.until /\ tx'.event = tx.event
                /\ UNCHANGED ledger
         /\ \A s, units :
              NextReversal(d, s, units) =>
                /\ tx'.draft = d /\ tx'.stage = tx.stage
                /\ tx'.reservation = tx.reservation
                /\ tx'.until = tx.until /\ tx'.event = tx.event
                /\ UNCHANGED ledger
<1>1. tx \in Transaction
  BY Opened
<1>2. {"draft", "stage", "left", "reservation", "until", "event"} \subseteq DOMAIN tx
  BY <1>1 DEF Transaction
<1>3. ASSUME NEW left, NEW stage, Proceed(d, left, stage)
      PROVE  /\ tx'.draft = d /\ tx'.stage = stage /\ tx'.left = left
             /\ tx'.reservation = tx.reservation
             /\ tx'.until = tx.until /\ tx'.event = tx.event
             /\ UNCHANGED ledger
  BY <1>2, <1>3 DEF Proceed
<1>4. ASSUME NEW s, NEW units, NextReversal(d, s, units)
      PROVE  /\ tx'.draft = d /\ tx'.stage = tx.stage
             /\ tx'.reservation = tx.reservation
             /\ tx'.until = tx.until /\ tx'.event = tx.event
             /\ UNCHANGED ledger
  BY <1>2, <1>4 DEF NextReversal
<1> QED
  BY <1>3, <1>4

(* Positions and totals move: the lines, journal and reservations stay.      *)
Frame(d, m) == DOMAIN m = DOMAIN d /\ Alike(d, m) /\ m.event = d.event

(* Postings to positions and to the exposure leave the other tables alone.    *)
LEMMA MovedFrame ==
  ASSUME NEW d \in Ledger, NEW g, NEW a, NEW b
  PROVE  Frame(d, Moved(d, g, a, b)) /\ Frame(d, Exposed(d, a, b))
  BY DEF Frame, Alike, Moved, Exposed, Ledger

(* A plan line is appended.                                                  *)
LEMMA AppendedFrame ==
  ASSUME NEW d \in Ledger, NEW m, Frame(d, m), NEW r \in Reservations, NEW line \in Line
  PROVE  /\ Keeps(d, Appended(m, r, line), r)
         /\ Appended(m, r, line).charge = d.charge
         /\ Appended(m, r, line).lines[r] = Append(d.lines[r], line)
<1>1. d.lines \in [Reservations -> Seq(Line)] /\ "lines" \in DOMAIN m
  BY DEF Ledger, Frame
<1>2. Appended(m, r, line) = [m EXCEPT !.lines = [m.lines EXCEPT ![r] = Append(m.lines[r], line)]]
  BY <1>1 DEF Appended
<1> QED
  BY <1>1, <1>2 DEF Frame, Alike, Keeps

(* Only the new line can be a new hold.                                      *)
LEMMA AppendedUnused ==
  ASSUME NEW lines \in Seq(Line), NEW line, NEW i \in Unused(Append(lines, line))
  PROVE  \/ i \in Unused(lines) /\ lines[i].source = Append(lines, line)[i].source
         \/ Append(lines, line)[i] = line
<1>1. i \in 1..Len(lines) + 1
  BY AppendProperties, LenProperties DEF Unused
<1>2. CASE i \in 1..Len(lines)
  BY <1>2, LenProperties DEF Unused
<1>3. CASE i = Len(lines) + 1
  BY <1>3, LenProperties
<1> QED
  BY <1>1, <1>2, <1>3, LenProperties

(* A plan line on a grant ends with the grant at the latest (Eligible).       *)
LEMMA CreditsWithin ==
  ASSUME FInv, FInv', ExpiryInv, NEW g \in Grants, HoldCredits(g)
  PROVE  ExpiryInv'
<1> DEFINE d == tx.draft
           r == tx.reservation
           units == SmallerOf(d.balance[g] - d.held[g], tx.left)
           m == Moved(d, g, 0, units)
           e == Appended(m, r, NewLine(g, units))
<1>1. /\ tx # NoTx /\ tx.stage = "fund"
      /\ ExpiresAt[g] # Never => tx.until <= ExpiresAt[g]
      /\ Proceed(e, tx.left - units, "fund")
  BY DEF HoldCredits, Eligible
<1>2. d \in Ledger /\ r \in Reservations /\ d.lines[r] \in Seq(Line)
  BY <1>1, Opened DEF Ledger
<1>3. units \in Nat
  <2>1. d.balance[g] - d.held[g] \in Nat /\ tx.left \in Nat
    BY <1>1, <1>2, Opened DEF Sound, Ledger
  <2> QED
    BY <2>1 DEF SmallerOf
<1> HIDE DEF units
<1>4. /\ Keeps(d, e, r) /\ e.charge = d.charge
      /\ e.lines[r] = Append(d.lines[r], NewLine(g, units))
  <2>1. Frame(d, m)
    BY <1>2, MovedFrame
  <2> HIDE DEF m
  <2> DEFINE line == NewLine(g, units)
  <2>2. line \in Line
    BY <1>3 DEF NewLine, Line, Sources
  <2> HIDE DEF line
  <2>3. /\ Keeps(d, Appended(m, r, line), r)
        /\ Appended(m, r, line).charge = d.charge
        /\ Appended(m, r, line).lines[r] = Append(d.lines[r], line)
    BY <1>2, <2>1, <2>2, AppendedFrame
  <2> QED
    BY <2>3, Zenon DEF line
<1> HIDE DEF e
<1>5. NewLine(g, units).source = g
  BY DEF NewLine
<1>6. \A i \in Unused(e.lines[r]) :
        \/ i \in Unused(d.lines[r]) /\ d.lines[r][i].source = e.lines[r][i].source
        \/ e.lines[r][i].source = g
  BY <1>2, <1>4, <1>5, AppendedUnused
<1>7. \A h \in Grants : Unrestored(e, h) => Unrestored(d, h)
  BY <1>4 DEF Unrestored
<1>8. /\ tx'.draft = e /\ tx'.stage = "fund" /\ tx'.reservation = tx.reservation
      /\ tx'.until = tx.until /\ tx'.event = tx.event /\ UNCHANGED ledger
  BY <1>1, NextTx
<1>9. Keeps(d, e, r)
  BY <1>4
<1> QED
  BY <1>1, <1>6, <1>7, <1>8, <1>9, Advances

(* A postpaid line never crosses an expiry.                                  *)
LEMMA PostpaidWithin ==
  ASSUME FInv, FInv', ExpiryInv, HoldPostpaid
  PROVE  ExpiryInv'
<1> DEFINE d == tx.draft
           r == tx.reservation
           m == Exposed(d, tx.left, 0)
           e == Appended(m, r, NewLine(Postpaid, tx.left))
<1>1. tx # NoTx /\ tx.stage = "fund" /\ Proceed(e, 0, "fund")
  BY DEF HoldPostpaid
<1>2. d \in Ledger /\ r \in Reservations /\ d.lines[r] \in Seq(Line)
  BY <1>1, Opened DEF Ledger
<1>3. /\ Keeps(d, e, r) /\ e.charge = d.charge
      /\ e.lines[r] = Append(d.lines[r], NewLine(Postpaid, tx.left))
  <2>1. Frame(d, m)
    BY <1>2, MovedFrame
  <2> HIDE DEF m
  <2> DEFINE line == NewLine(Postpaid, tx.left)
  <2>2. line \in Line
    BY <1>1, Opened DEF NewLine, Line, Sources
  <2> HIDE DEF line
  <2>3. /\ Keeps(d, Appended(m, r, line), r)
        /\ Appended(m, r, line).charge = d.charge
        /\ Appended(m, r, line).lines[r] = Append(d.lines[r], line)
    BY <1>2, <2>1, <2>2, AppendedFrame
  <2> QED
    BY <2>3, Zenon DEF line
<1> HIDE DEF e
<1>4. NewLine(Postpaid, tx.left).source = Postpaid
  BY DEF NewLine
<1>5. \A i \in Unused(e.lines[r]) :
        \/ i \in Unused(d.lines[r]) /\ d.lines[r][i].source = e.lines[r][i].source
        \/ e.lines[r][i].source = Postpaid
  BY <1>2, <1>3, <1>4, AppendedUnused
<1>6. \A h \in Grants : Unrestored(e, h) => Unrestored(d, h)
  BY <1>3 DEF Unrestored
<1>7. /\ tx'.draft = e /\ tx'.stage = "fund" /\ tx'.reservation = tx.reservation
      /\ tx'.until = tx.until /\ tx'.event = tx.event /\ UNCHANGED ledger
  BY <1>1, NextTx
<1>8. Keeps(d, e, r)
  BY <1>3
<1> QED
  BY <1>1, <1>5, <1>6, <1>7, <1>8, Advances

(* Tables outside of a command change in nothing that matters here.          *)
LEMMA LeavesWithin ==
  ASSUME ExpiryInv, tx = NoTx, tx' = NoTx, Alike(ledger, ledger')
  PROVE  ExpiryInv'
  BY DEF ExpiryInv, NoHoldCrossesExpiry, WithinExpiry, Unrestored, Vacant, Alike

(* A line of the reservation is rewritten.                                   *)
LEMMA MarkedFrame ==
  ASSUME NEW d \in Ledger, NEW m, Frame(d, m), NEW r \in Reservations,
         NEW i \in Unused(d.lines[r])
  PROVE  /\ Keeps(d, MarkReleased(m, r, i), r)
         /\ MarkReleased(m, r, i).charge = d.charge
         /\ \A j \in Unused(MarkReleased(m, r, i).lines[r]) :
              /\ j \in Unused(d.lines[r])
              /\ d.lines[r][j].source = MarkReleased(m, r, i).lines[r][j].source
<1> DEFINE old == d.lines[r][i]
           new == [old EXCEPT !.released = @ + Remaining(old)]
           lines == [d.lines[r] EXCEPT ![i] = new]
           e == MarkReleased(m, r, i)
<1>1. d.lines \in [Reservations -> Seq(Line)] /\ "lines" \in DOMAIN m
  BY DEF Ledger, Frame
<1>2. e = [m EXCEPT !.lines = [m.lines EXCEPT ![r] = lines]]
  BY <1>1 DEF MarkReleased, Frame, Alike
<1>3. old \in Line /\ i \in DOMAIN d.lines[r]
  BY <1>1, LenProperties, ElementOfSeq DEF Unused
<1>4. Remaining(new) = 0
  BY <1>3, Arithmetic DEF Remaining, Line
<1>5. \A j \in Unused(lines) : j \in Unused(d.lines[r]) /\ d.lines[r][j] = lines[j]
  <2> HIDE DEF new
  <2> QED
    BY <1>1, <1>3, <1>4 DEF Unused
<1> HIDE DEF lines
<1>6. /\ Keeps(d, e, r) /\ e.charge = d.charge /\ e.lines[r] = lines
  BY <1>1, <1>2 DEF Frame, Alike, Keeps
<1> HIDE DEF e
<1> QED
  BY <1>5, <1>6 DEF e

(* A line is charged, or given back what it was charged.                     *)
LEMMA SpentFrame ==
  ASSUME NEW d \in Ledger, NEW m, Frame(d, m), NEW r \in Reservations,
         NEW i \in DOMAIN d.lines[r], NEW s \in Sources, NEW u \in Int,
         tx.event \in Events
  PROVE  /\ Keeps(d, Spend(m, r, i, s, u), r)
         /\ Spend(m, r, i, s, u).charge = [d.charge EXCEPT ![tx.event][s] = @ + u]
         /\ \A j \in Unused(Spend(m, r, i, s, u).lines[r]) :
              /\ d.lines[r][j].source = Spend(m, r, i, s, u).lines[r][j].source
              /\ j = i \/ j \in Unused(d.lines[r])
              /\ u >= 0 => j \in Unused(d.lines[r])
<1> DEFINE old == d.lines[r][i]
           new == [old EXCEPT !.consumed = @ + u]
           lines == [d.lines[r] EXCEPT ![i] = new]
           charge == [d.charge EXCEPT ![tx.event][s] = @ + u]
           e == Spend(m, r, i, s, u)
<1>1. /\ d.lines \in [Reservations -> Seq(Line)]
      /\ "lines" \in DOMAIN m /\ "charge" \in DOMAIN m
  BY DEF Ledger, Frame
<1>2. e = [m EXCEPT !.lines = [m.lines EXCEPT ![r] = lines], !.charge = charge]
  BY <1>1 DEF Spend, Posted, Frame, Alike
<1>3. old \in Line
  BY <1>1, LenProperties, ElementOfSeq
<1>4. new.source = old.source /\ Remaining(new) = Remaining(old) - u
      /\ Remaining(old) \in Int
  BY <1>3, Arithmetic DEF Remaining, Line
<1>5. \A j \in Unused(lines) :
        /\ d.lines[r][j].source = lines[j].source
        /\ j = i \/ j \in Unused(d.lines[r])
        /\ u >= 0 => j \in Unused(d.lines[r])
  <2> HIDE DEF new
  <2> QED
    BY <1>1, <1>4 DEF Unused
<1> HIDE DEF lines, charge
<1>6. /\ Keeps(d, e, r) /\ e.charge = charge /\ e.lines[r] = lines
  BY <1>1, <1>2 DEF Frame, Alike, Keeps
<1> HIDE DEF e
<1> QED
  BY <1>5, <1>6 DEF e, charge

(* A released line is no hold any more.                                      *)
LEMMA ReleaseWithin ==
  ASSUME FInv, FInv', ExpiryInv, tx # NoTx,
         NEW i \in DOMAIN tx.draft.lines[tx.reservation], ReleaseLine(i)
  PROVE  ExpiryInv'
<1> DEFINE d == tx.draft
           r == tx.reservation
           units == Remaining(d.lines[r][i])
<1>1. d \in Ledger /\ r \in Reservations
  BY Opened
<1>2. tx.stage = "release" /\ i \in Unused(d.lines[r])
  BY DEF ReleaseLine, NextUnused
<1>3. ASSUME NEW m, Frame(d, m), Proceed(MarkReleased(m, r, i), tx.left, "release")
      PROVE  ExpiryInv'
  <2> DEFINE e == MarkReleased(m, r, i)
  <2>1. /\ Keeps(d, e, r) /\ e.charge = d.charge
        /\ \A j \in Unused(e.lines[r]) :
             j \in Unused(d.lines[r]) /\ d.lines[r][j].source = e.lines[r][j].source
    BY <1>1, <1>2, <1>3, MarkedFrame
  <2>3. /\ tx'.draft = e /\ tx'.stage = "release" /\ tx'.reservation = tx.reservation
         /\ tx'.until = tx.until /\ tx'.event = tx.event
         /\ UNCHANGED ledger
    BY <1>3, NextTx
  <2> HIDE DEF e
  <2>2. \A g \in Grants : Unrestored(e, g) => Unrestored(d, g)
    BY <2>1 DEF Unrestored
  <2> QED
    BY <2>1, <2>2, <2>3, <1>2, Advances
<1>4. Frame(d, ReleasePostpaid(d, units))
  BY <1>1, MovedFrame DEF ReleasePostpaid
<1>5. Frame(d, ReleaseCredits(d, d.lines[r][i].source, units))
  BY <1>1 DEF Frame, Alike, ReleaseCredits, Moved, Ledger
<1> QED
  BY <1>3, <1>4, <1>5 DEF ReleaseLine

(* While it charges, a settlement has restored nothing of what it charges.    *)
LEMMA ConsumeWithin ==
  ASSUME FInv, FInv', ExpiryInv, tx # NoTx,
         NEW i \in DOMAIN tx.draft.lines[tx.reservation], ConsumeLine(i)
  PROVE  ExpiryInv'
<1> DEFINE d == tx.draft
           r == tx.reservation
           line == d.lines[r][i]
           units == SmallerOf(Remaining(line), tx.left)
           left == tx.left - units
           next == IF left = 0 THEN AfterCharge(tx.finalize) ELSE "consume"
<1>1. /\ tx.stage = "consume" /\ i \in Unused(d.lines[r])
  BY DEF ConsumeLine, NextUnused
<1>2. d \in Ledger /\ r \in Reservations /\ tx.left \in Nat /\ tx.event \in Events
  BY <1>1, Opened
<1>3. line.source \in Sources /\ units \in Nat
  <2>1. line \in Line
    BY <1>1, <1>2, LenProperties, ElementOfSeq DEF Ledger, Unused
  <2>2. Remaining(line) \in Nat
    BY <1>1, <2>1, Arithmetic DEF Unused
  <2> QED
    BY <1>2, <2>1, <2>2, Arithmetic DEF Line
<1>4. next \in {"release", "close", "consume"}
  BY DEF AfterCharge
<1>5. \A s \in Sources : d.charge[tx.event][s] >= 0
  BY <1>1 DEF ExpiryInv, PendingWithin
<1> HIDE DEF units, left, next
<1>6. ASSUME NEW s \in Sources, NEW m, Frame(d, m),
             Proceed(Spend(m, r, i, s, units), left, next)
      PROVE  ExpiryInv'
  <2> DEFINE e == Spend(m, r, i, s, units)
  <2>1. Proceed(e, left, next)
    BY <1>6
  <2>2. /\ Keeps(d, e, r) /\ e.charge = [d.charge EXCEPT ![tx.event][s] = @ + units]
        /\ \A k \in Unused(e.lines[r]) :
             k \in Unused(d.lines[r]) /\ d.lines[r][k].source = e.lines[r][k].source
    <3>1. units \in Int /\ units >= 0
      BY <1>3
    <3>2. /\ Keeps(d, Spend(m, r, i, s, units), r)
          /\ Spend(m, r, i, s, units).charge = [d.charge EXCEPT ![tx.event][s] = @ + units]
          /\ \A k \in Unused(Spend(m, r, i, s, units).lines[r]) :
               /\ d.lines[r][k].source = Spend(m, r, i, s, units).lines[r][k].source
               /\ k = i \/ k \in Unused(d.lines[r])
               /\ units >= 0 => k \in Unused(d.lines[r])
      BY <1>2, <1>6, <3>1, SpentFrame
    <3> QED
      BY <3>1, <3>2
  <2> HIDE DEF e
  <2>3. d.charge \in [Events -> [Sources -> Int]]
    BY <1>2 DEF Ledger
  <2>4. \A g \in Grants : Unrestored(e, g) => Unrestored(d, g)
    BY <1>2, <1>3, <1>5, <2>2, <2>3 DEF Unrestored, Sources
  <2>5. ASSUME NEW q \in Sources PROVE e.charge[tx.event][q] >= 0
    <3>1. d.charge[tx.event][q] \in Int /\ d.charge[tx.event][q] >= 0
      BY <1>2, <1>5, <2>3
    <3>2. e.charge[tx.event][q] \in {d.charge[tx.event][q], d.charge[tx.event][q] + units}
      BY <1>2, <2>2, <2>3
    <3> QED
      BY <1>3, <3>1, <3>2
  <2>6. /\ tx'.draft = e /\ tx'.stage = next /\ tx'.reservation = tx.reservation
        /\ tx'.until = tx.until /\ tx'.event = tx.event /\ UNCHANGED ledger
    BY <2>1, NextTx
  <2>7. next \notin {"fund", "reverse"} /\ tx.stage # "fund"
    BY <1>1, <1>4
  <2>8. /\ (next = "fund") <=> (tx.stage = "fund")
        /\ next = "consume" => \A q \in Sources : e.charge[tx.event][q] >= 0
        /\ next = "reverse" => \A q \in Sources : e.charge[tx.event][q] <= 0
    BY <2>5, <2>7
  <2>9. \A k \in Unused(e.lines[tx.reservation]) :
          /\ k \in Unused(tx.draft.lines[tx.reservation])
          /\ tx.draft.lines[tx.reservation][k].source = e.lines[tx.reservation][k].source
    BY <2>2
  <2>10. /\ Keeps(tx.draft, e, tx.reservation)
         /\ \A g \in Grants : Unrestored(e, g) => Unrestored(tx.draft, g)
    BY <2>2, <2>4
  <2> QED
    BY <2>6, <2>8, <2>9, <2>10, Advances
<1>7. /\ Frame(d, SettlePostpaid(d, units))
      /\ Frame(d, ConsumeCredits(d, line.source, units))
  BY <1>2, MovedFrame DEF SettlePostpaid, ConsumeCredits
<1>8. \/ Proceed(Spend(SettlePostpaid(d, units), r, i, Postpaid, units), left, next)
      \/ Proceed(Spend(ConsumeCredits(d, line.source, units), r, i, line.source, units),
                 left, next)
  BY DEF ConsumeLine, units, left, next
<1>9. Postpaid \in Sources
  BY DEF Sources
<1> HIDE DEF d, r, line
<1> QED
  BY <1>3, <1>6, <1>7, <1>8, <1>9

(* An overrun adds a postpaid line and charges no grant.                     *)
LEMMA OverrunWithin ==
  ASSUME FInv, FInv', ExpiryInv, Overrun
  PROVE  ExpiryInv'
<1> DEFINE d == tx.draft
           r == tx.reservation
           line == [NewLine(Postpaid, tx.left) EXCEPT !.consumed = tx.left]
           m == Appended(d, r, line)
           e == Posted(Exposed(m, 0, tx.left), Postpaid, tx.left)
<1>1. /\ tx # NoTx /\ tx.stage = "consume"
      /\ Proceed(e, 0, AfterCharge(tx.finalize))
  BY DEF Overrun
<1>2. tx.left \in Nat /\ tx.event \in Events /\ Sound(d) /\ d.lines[r] \in Seq(Line)
  BY <1>1, Opened DEF Ledger
<1>3. d \in Ledger /\ r \in Reservations
  BY <1>1, Opened
<1>4. line \in Line /\ line.source = Postpaid
  BY <1>2 DEF NewLine, Line, Sources
<1> HIDE DEF line
<1>5. m \in Ledger /\ Keeps(d, m, r) /\ m.charge = d.charge
      /\ m.lines[r] = Append(d.lines[r], line)
  <2>1. Frame(d, d)
    BY DEF Frame, Alike
  <2>2. m \in Ledger
    BY <1>3, <1>2, <1>4, AppendedSound DEF Sound
  <2> HIDE DEF d, r
  <2>3. /\ Keeps(d, m, r) /\ m.charge = d.charge
        /\ m.lines[r] = Append(d.lines[r], line)
    BY <1>3, <1>4, <2>1, AppendedFrame
  <2> QED
    BY <2>2, <2>3
<1> HIDE DEF m
<1>6. /\ Keeps(d, e, r) /\ e.lines[r] = m.lines[r]
      /\ e.charge = [d.charge EXCEPT ![tx.event][Postpaid] = @ + tx.left]
  BY <1>5 DEF Posted, Exposed, Keeps, Ledger
<1> HIDE DEF e
<1>7. \A i \in Unused(e.lines[r]) :
        \/ i \in Unused(d.lines[r]) /\ d.lines[r][i].source = e.lines[r][i].source
        \/ e.lines[r][i].source = Postpaid
  <2>0. e.lines[r] = Append(d.lines[r], line)
    BY <1>5, <1>6
  <2> HIDE DEF d, r
  <2> SUFFICES ASSUME NEW i \in Unused(Append(d.lines[r], line))
               PROVE  \/ /\ i \in Unused(d.lines[r])
                         /\ d.lines[r][i].source = Append(d.lines[r], line)[i].source
                      \/ Append(d.lines[r], line)[i].source = Postpaid
    BY <2>0
  <2>1. \/ /\ i \in Unused(d.lines[r])
           /\ d.lines[r][i].source = Append(d.lines[r], line)[i].source
        \/ Append(d.lines[r], line)[i] = line
    BY <1>2, AppendedUnused
  <2> QED
    BY <1>4, <2>1
<1>8. \A g \in Grants : Unrestored(e, g) => Unrestored(d, g)
  <2>1. d.charge \in [Events -> [Sources -> Int]] /\ \A g \in Grants : g # Postpaid
    BY <1>3, FundingAssumption DEF Ledger
  <2>2. \A g \in Grants, n \in Events : e.charge[n][g] = d.charge[n][g]
    BY <1>2, <1>6, <2>1 DEF Sources
  <2> QED
    BY <2>2 DEF Unrestored
<1>9. AfterCharge(tx.finalize) \in {"release", "close"}
  BY DEF AfterCharge
<1>10. /\ tx'.draft = e /\ tx'.stage = AfterCharge(tx.finalize)
      /\ tx'.reservation = tx.reservation
      /\ tx'.until = tx.until /\ tx'.event = tx.event /\ UNCHANGED ledger
  BY <1>1, NextTx
<1>11. Keeps(d, e, r)
  BY <1>6
<1> QED
  BY <1>1, <1>7, <1>8, <1>9, <1>10, <1>11, Advances

(* A correction that gives units of a grant back ends what is said of it.    *)
LEMMA RestoreWithin ==
  ASSUME FInv, FInv', ExpiryInv, tx # NoTx, NEW g \in Grants, NEW units \in 1..tx.left,
         NEW i \in DOMAIN tx.draft.lines[tx.reservation],
         RestoreCredits(g, i, units)
  PROVE  ExpiryInv'
<1> DEFINE d == tx.draft
           r == tx.reservation
           m == Moved(d, g, units, 0)
           e == Spend(m, r, i, g, -units)
<1>1. /\ tx.stage = "reverse" /\ d.lines[r][i].source = g
      /\ NextReversal(e, g, units)
  BY DEF RestoreCredits
<1>2. /\ d \in Ledger /\ r \in Reservations /\ tx.event \in Events /\ tx.left \in Nat
      /\ d.charge \in [Events -> [Sources -> Int]] /\ g \in Sources
  BY <1>1, Opened DEF Ledger, Sources
<1>3. units \in Nat /\ units > 0 /\ -units \in Int
  BY <1>2
<1>4. \A s \in Sources : d.charge[tx.event][s] <= 0
  BY <1>1 DEF ExpiryInv, PendingWithin
<1>5. Frame(d, m)
  BY <1>2, MovedFrame
<1> HIDE DEF m
<1>6. /\ Keeps(d, e, r) /\ e.charge = [d.charge EXCEPT ![tx.event][g] = @ + -units]
      /\ \A j \in Unused(e.lines[r]) :
           /\ d.lines[r][j].source = e.lines[r][j].source
           /\ j = i \/ j \in Unused(d.lines[r])
  <2>1. /\ Keeps(d, Spend(m, r, i, g, -units), r)
        /\ Spend(m, r, i, g, -units).charge = [d.charge EXCEPT ![tx.event][g] = @ + -units]
        /\ \A j \in Unused(Spend(m, r, i, g, -units).lines[r]) :
             /\ d.lines[r][j].source = Spend(m, r, i, g, -units).lines[r][j].source
             /\ j = i \/ j \in Unused(d.lines[r])
             /\ -units >= 0 => j \in Unused(d.lines[r])
    BY <1>2, <1>3, <1>5, SpentFrame
  <2> QED
    BY <2>1
<1> HIDE DEF e
<1>7. e.charge[tx.event][g] < 0
  <2>1. d.charge[tx.event][g] \in Int /\ d.charge[tx.event][g] <= 0
    BY <1>2, <1>4
  <2>2. e.charge[tx.event][g] = d.charge[tx.event][g] + -units
    BY <1>2, <1>6
  <2> QED
    BY <1>3, <2>1, <2>2
<1>8. ~Unrestored(e, g)
  BY <1>2, <1>7, <1>6 DEF Unrestored
<1>9. ASSUME NEW h \in Grants, Unrestored(e, h) PROVE Unrestored(d, h)
  <2>1. h # g
    BY <1>8, <1>9
  <2>2. \A n \in Events : e.charge[n][h] = d.charge[n][h]
    BY <1>2, <1>6, <2>1 DEF Sources
  <2> QED
    BY <1>9, <2>2 DEF Unrestored
<1>10. ASSUME NEW s \in Sources PROVE e.charge[tx.event][s] <= 0
  <2>1. CASE s = g
    BY <1>2, <1>6, <1>7, <2>1
  <2>2. CASE s # g
    BY <1>2, <1>4, <1>6, <2>2
  <2> QED
    BY <2>1, <2>2
<1>11. \A j \in Unused(e.lines[r]) :
         \/ j \in Unused(d.lines[r]) /\ d.lines[r][j].source = e.lines[r][j].source
         \/ ~Unrestored(e, e.lines[r][j].source)
  BY <1>1, <1>6, <1>8
<1>12. /\ tx'.draft = e /\ tx'.stage = "reverse" /\ tx'.reservation = tx.reservation
       /\ tx'.until = tx.until /\ tx'.event = tx.event /\ UNCHANGED ledger
  BY <1>1, NextTx
<1>13. Keeps(d, e, r)
  BY <1>6
<1> QED
  BY <1>1, <1>9, <1>10, <1>11, <1>12, <1>13, Advances

(* Forfeited units and postpaid corrections touch no line.                   *)
LEMMA ForfeitWithin ==
  ASSUME FInv, FInv', ExpiryInv, tx # NoTx, NEW g \in Grants, NEW units \in 1..tx.left,
         ForfeitCredits(g, units)
  PROVE  ExpiryInv'
<1> DEFINE d == tx.draft
           r == tx.reservation
           e == [d EXCEPT !.forfeited[tx.event] = @ + units]
<1>1. tx.stage = "reverse" /\ NextReversal(e, g, units)
  BY DEF ForfeitCredits
<1>2. d \in Ledger
  BY Opened
<1>3. Alike(d, e) /\ Keeps(d, e, r)
  BY <1>2 DEF Alike, Keeps, Ledger
<1> HIDE DEF e
<1>4. \A h \in Grants : Unrestored(e, h) => Unrestored(d, h)
  BY <1>3 DEF Alike, Unrestored
<1>5. \A s \in Sources : e.charge[tx.event][s] <= 0
  BY <1>1, <1>3 DEF ExpiryInv, PendingWithin, Alike
<1>6. \A j \in Unused(e.lines[r]) :
        j \in Unused(d.lines[r]) /\ d.lines[r][j].source = e.lines[r][j].source
  BY <1>3 DEF Alike
<1>7. /\ tx'.draft = e /\ tx'.stage = "reverse" /\ tx'.reservation = tx.reservation
      /\ tx'.until = tx.until /\ tx'.event = tx.event /\ UNCHANGED ledger
  BY <1>1, NextTx
<1> QED
  BY <1>1, <1>3, <1>4, <1>5, <1>6, <1>7, Advances

(* Postpaid units that are taken back change no hold.                        *)
LEMMA RepayWithin ==
  ASSUME FInv, FInv', ExpiryInv, tx # NoTx, NEW units \in 1..tx.left,
         ReversePostpaid(units)
  PROVE  ExpiryInv'
<1> DEFINE d == tx.draft
           r == tx.reservation
           m == Exposed(d, 0, -SmallerOf(d.exposure.settled, units))
           e == Posted(m, Postpaid, -units)
<1>1. tx.stage = "reverse" /\ NextReversal(e, Postpaid, units)
  BY DEF ReversePostpaid
<1>2. /\ d \in Ledger /\ tx.event \in Events /\ tx.left \in Nat
      /\ d.charge \in [Events -> [Sources -> Int]]
  BY <1>1, Opened DEF Ledger
<1>3. units \in Nat
  BY <1>2
<1>4. Frame(d, m) /\ "charge" \in DOMAIN m
  <2>1. Frame(d, m)
    BY <1>2, MovedFrame
  <2>2. "charge" \in DOMAIN d
    BY <1>2 DEF Ledger
  <2> QED
    BY <2>1, <2>2 DEF Frame
<1> HIDE DEF m
<1>5. /\ Keeps(d, e, r) /\ e.lines = d.lines
      /\ e.charge = [d.charge EXCEPT ![tx.event][Postpaid] = @ + -units]
  BY <1>4 DEF Posted, Frame, Alike, Keeps
<1> HIDE DEF e
<1>6. \A h \in Grants : Unrestored(e, h) => Unrestored(d, h)
  <2>1. \A h \in Grants : h # Postpaid
    BY FundingAssumption
  <2> QED
    BY <1>2, <1>5, <2>1 DEF Unrestored, Sources
<1>7. ASSUME NEW s \in Sources PROVE e.charge[tx.event][s] <= 0
  <2>1. d.charge[tx.event][s] \in Int /\ d.charge[tx.event][s] <= 0
    BY <1>1, <1>2 DEF ExpiryInv, PendingWithin
  <2>2. e.charge[tx.event][s] \in {d.charge[tx.event][s], d.charge[tx.event][s] + -units}
    BY <1>2, <1>5
  <2> QED
    BY <1>3, <2>1, <2>2
<1>8. /\ tx'.draft = e /\ tx'.stage = "reverse" /\ tx'.reservation = tx.reservation
      /\ tx'.until = tx.until /\ tx'.event = tx.event /\ UNCHANGED ledger
  BY <1>1, NextTx
<1>9. \A j \in Unused(e.lines[r]) :
        j \in Unused(d.lines[r]) /\ d.lines[r][j].source = e.lines[r][j].source
  BY <1>5
<1>10. Keeps(d, e, r)
  BY <1>5
<1> QED
  BY <1>1, <1>6, <1>7, <1>8, <1>9, <1>10, Advances

(* The end of the reversing loop changes nothing.                            *)
LEMMA EndWithin ==
  ASSUME FInv, FInv', ExpiryInv, EndReversal
  PROVE  ExpiryInv'
<1>1. /\ tx # NoTx /\ tx.stage = "reverse"
      /\ Proceed(tx.draft, 0, AfterCharge(tx.finalize))
  BY DEF EndReversal
<1>2. AfterCharge(tx.finalize) \in {"release", "close"}
  BY DEF AfterCharge
<1>3. Keeps(tx.draft, tx.draft, tx.reservation)
  BY DEF Keeps
<1> QED
  BY <1>1, <1>2, <1>3, NextTx, Advances

(* The reservation is written with the end its lines were checked against.   *)
LEMMA CommitFundingWithin ==
  ASSUME FInv, ExpiryInv, CommitFunding
  PROVE  ExpiryInv'
<1> DEFINE d == tx.draft
           r == tx.reservation
           old == d.reservation[r].status
           status == IF old = "none" THEN "reserved" ELSE old
           e == Updated(d, r, status, tx.until)
<1>1. tx # NoTx /\ tx.stage = "fund" /\ Commit(e)
  BY DEF CommitFunding
<1>2. d \in Ledger /\ r \in Reservations /\ status # "none"
  BY <1>1, Opened
<1> HIDE DEF status
<1>3. /\ e.lines = d.lines /\ e.charge = d.charge
      /\ e.reservation = [d.reservation EXCEPT ![r] =
           [status |-> status, version |-> d.reservation[r].version + 1,
            until |-> tx.until]]
      /\ d.reservation \in [Reservations -> Reservation]
  BY <1>2 DEF Updated, Ledger
<1> HIDE DEF e
<1>4. EndsAt(tx) = tx.until
  BY <1>1 DEF EndsAt
<1> QED
  BY <1>1, <1>2, <1>3, <1>4, CommitsWithin

(* Releases and settlements leave its end alone.                             *)
LEMMA KeepsEnd ==
  ASSUME FInv, ExpiryInv, tx # NoTx, tx.stage # "fund", NEW status, status # "none",
         NEW m,
         LET e == Updated(tx.draft, tx.reservation, status,
                          tx.draft.reservation[tx.reservation].until) IN
           Commit(e) \/ Commit(Recorded(e, m))
  PROVE  ExpiryInv'
<1> DEFINE d == tx.draft
           r == tx.reservation
           until == d.reservation[r].until
           e == Updated(d, r, status, until)
           n == Recorded(e, m)
<1>1. d \in Ledger /\ r \in Reservations
  BY Opened
<1>2. /\ e.lines = d.lines /\ e.charge = d.charge
      /\ e.reservation = [d.reservation EXCEPT ![r] =
           [status |-> status, version |-> d.reservation[r].version + 1,
            until |-> until]]
      /\ d.reservation \in [Reservations -> Reservation]
  BY <1>1 DEF Updated, Ledger
<1>3. n.lines = e.lines /\ n.charge = e.charge /\ n.reservation = e.reservation
  <2>1. {"lines", "charge", "reservation"} \subseteq DOMAIN e
    BY <1>1 DEF Updated, Ledger
  <2> HIDE DEF e
  <2> QED
    BY <2>1 DEF Recorded
<1>4. Commit(e) \/ Commit(n)
  OBVIOUS
<1> HIDE DEF e, n
<1>5. EndsAt(tx) = until
  BY DEF EndsAt
<1>6. status # "none"
  OBVIOUS
<1>7. ASSUME NEW f, Commit(f), f.lines = e.lines, f.charge = e.charge,
             f.reservation = e.reservation
      PROVE  ExpiryInv'
  <2>1. f.lines = d.lines /\ f.charge = d.charge
    BY <1>2, <1>7
  <2> HIDE DEF d, r, until
  <2>2. /\ f.reservation[r].until = EndsAt(tx) /\ f.reservation[r].status # "none"
        /\ \A q \in Reservations \ {r} : f.reservation[q] = d.reservation[q]
    BY SMTT(40), <1>1, <1>2, <1>5, <1>6, <1>7
  <2> USE DEF d, r
  <2> QED
    BY <1>7, <2>1, <2>2, CommitsWithin
<1> QED
  BY <1>3, <1>4, <1>7

(* A release commits what its draft holds.                                   *)
LEMMA CommitReleaseWithin ==
  ASSUME FInv, ExpiryInv, CommitRelease
  PROVE  ExpiryInv'
  BY KeepsEnd DEF CommitRelease

(* And so does a settlement.                                                 *)
LEMMA CommitSettleWithin ==
  ASSUME FInv, ExpiryInv, CommitSettle
  PROVE  ExpiryInv'
  BY KeepsEnd DEF CommitSettle

(* A new reservation has no lines; an extension is refused past any of them.  *)
LEMMA BeginFundingWithin ==
  ASSUME ExpiryInv, NEW r \in Reservations, NEW until \in Nat, NEW now \in Instants,
         NEW units \in Nat,
         BeginReserve(r, units, until, now) \/ BeginExtend(r, units, until, now)
  PROVE  ExpiryInv'
<1>1. PICK command \in {"reserve", "extend"} :
        tx' = [Began(command, r, now, "fund", units) EXCEPT !.until = until]
  BY DEF BeginReserve, BeginExtend
<1>2. /\ tx'.reservation = r /\ tx'.draft = ledger /\ tx'.stage = "fund"
      /\ tx'.until = until
  BY <1>1 DEF Began
<1>3. WithinExpiry(ledger, r, until)
  <2>1. CASE BeginReserve(r, units, until, now)
    BY <2>1 DEF BeginReserve, ExpiryInv, Vacant, WithinExpiry
  <2>2. CASE BeginExtend(r, units, until, now)
    BY <2>2 DEF BeginExtend, WithinExpiry
  <2> QED
    BY <2>1, <2>2
<1>4. PendingWithin(tx')
  BY <1>2, <1>3, BeginsWithin DEF Alike
<1> QED
  BY <1>4 DEF BeginReserve, BeginExtend, ExpiryInv, NoHoldCrossesExpiry,
              WithinExpiry, Unrestored, Vacant

(* A release begins with what is committed.                                  *)
LEMMA BeginReleaseWithin ==
  ASSUME ExpiryInv, NEW r \in Reservations, NEW now \in Instants, BeginRelease(r, now)
  PROVE  ExpiryInv'
<1>1. /\ tx'.reservation = r /\ tx'.draft = ledger /\ tx'.stage = "release"
  BY DEF BeginRelease, Began
<1>2. PendingWithin(tx')
  BY <1>1, BeginsWithin DEF Alike
<1> QED
  BY <1>2 DEF BeginRelease, ExpiryInv, NoHoldCrossesExpiry, WithinExpiry, Unrestored,
              Vacant

(* A settlement that charges or restores finds no entry of its event yet.    *)
LEMMA BeginSettleWithin ==
  ASSUME FInv, ExpiryInv, NEW e \in Events, NEW finalize \in BOOLEAN, NEW now \in Instants,
         BeginSettle(e, finalize, now)
  PROVE  ExpiryInv'
<1> DEFINE r == OperationOf[e[1]]
           delta == Delta(ledger, e)
<1>1. ledger \in Ledger /\ r \in Reservations
  BY FundingAssumption DEF FInv, Sound, Events
<1>2. Alike(ledger, ledger)
  BY DEF Alike
<1>3. delta # 0 => \A s \in Sources : ledger.charge[e][s] = 0
  BY DEF Delta, HasSettlement
<1>4. UNCHANGED ledger
  BY DEF BeginSettle
<1>5. /\ tx'.reservation = r /\ tx'.draft = ledger /\ tx'.event = e
      /\ tx'.stage = IF delta > 0 THEN "consume"
                     ELSE IF delta < 0 THEN "reverse" ELSE AfterCharge(finalize)
  BY DEF BeginSettle, Began
<1>6. tx'.stage \in {"consume", "reverse"} => delta # 0
  <2>1. ledger.event[e] # None
    BY DEF BeginSettle
  <2>2. delta \in Int
    BY <1>1, <2>1, DeltaType
  <2> HIDE DEF delta
  <2> QED
    BY <1>5, <2>2 DEF AfterCharge
<1>7. tx'.stage # "fund"
  BY <1>5 DEF AfterCharge
<1>8. PendingWithin(tx')
  BY <1>1, <1>2, <1>3, <1>5, <1>6, <1>7, BeginsWithin
<1> QED
  BY <1>4, <1>8 DEF ExpiryInv, NoHoldCrossesExpiry, WithinExpiry, Unrestored, Vacant

(* Events are recorded and grants expire without touching lines or journal.  *)
LEMMA OutsideWithin ==
  ASSUME FInv, ExpiryInv,
         \/ \E e \in Events, units \in 0..MaxUnits, at \in Instants :
              RecordEvent(e, units, at)
         \/ \E g \in Grants : ExpireGrant(g)
  PROVE  ExpiryInv'
<1>1. ledger \in Ledger
  BY DEF FInv, Sound
<1>2. ASSUME NEW e \in Events, NEW units, NEW at, RecordEvent(e, units, at)
      PROVE  tx = NoTx /\ tx' = NoTx /\ Alike(ledger, ledger')
  BY <1>1, <1>2 DEF RecordEvent, Alike, Ledger
<1>3. ASSUME NEW g \in Grants, ExpireGrant(g)
      PROVE  tx = NoTx /\ tx' = NoTx /\ Alike(ledger, ledger')
  <2> DEFINE m == Moved(ledger, g, -(ledger.balance[g] - ledger.held[g]), 0)
  <2>1. Frame(ledger, m)
    BY <1>1, MovedFrame
  <2>2. /\ tx = NoTx /\ tx' = tx
        /\ ledger' = [m EXCEPT !.expired[g] = @ + (ledger.balance[g] - ledger.held[g]),
                               !.active[g] = FALSE, !.swept[g] = TRUE]
    BY <1>3, Zenon DEF ExpireGrant
  <2> HIDE DEF m
  <2>3. {"lines", "charge", "reservation"} \subseteq DOMAIN m
    BY <1>1, <2>1 DEF Frame, Ledger
  <2> QED
    BY <2>1, <2>2, <2>3 DEF Frame, Alike
<1> QED
  BY <1>2, <1>3, LeavesWithin

(* At first nothing is held.                                                 *)
LEMMA InitiallyWithin == FundingInit => ExpiryInv
  BY FundingAssumption DEF FundingInit, ExpiryInv, NoHoldCrossesExpiry, WithinExpiry,
                           Vacant, Unused

(* Every step keeps the holds within the expiries.                           *)
LEMMA InductiveWithin == FInv /\ FInv' /\ ExpiryInv /\ [FundingNext]_vars => ExpiryInv'
<1> SUFFICES ASSUME FInv, FInv', ExpiryInv, [FundingNext]_vars PROVE ExpiryInv'
  OBVIOUS
<1>1. CASE UNCHANGED vars \/ Tick
  <2>1. ledger' = ledger /\ tx' = tx
    BY <1>1 DEF vars, Tick
  <2> QED
    BY <2>1, Zenon DEF ExpiryInv, NoHoldCrossesExpiry, PendingWithin, EndsAt, WithinExpiry,
                Unrestored, Vacant
<1>2. CASE Rollback
  BY <1>2 DEF Rollback, ExpiryInv, NoHoldCrossesExpiry, WithinExpiry, Unrestored, Vacant
<1>3. CASE Begin
  <2>1. ASSUME NEW r \in Reservations, NEW units \in 1..MaxUnits,
               NEW until \in 1..(MaxTime + 1), NEW now \in Instants,
               BeginReserve(r, units, until, now) \/ BeginExtend(r, units, until, now)
        PROVE  ExpiryInv'
    <3>1. units \in Nat /\ until \in Nat
      BY FundingAssumption
    <3> QED
      BY <2>1, <3>1, BeginFundingWithin
  <2> QED
    BY <1>3, <2>1, BeginReleaseWithin, BeginSettleWithin DEF Begin
<1>4. CASE FundStep
  BY <1>4, PostpaidWithin, CommitFundingWithin, CreditsWithin DEF FundStep
<1>5. CASE ReleaseStep
  BY <1>5, ReleaseWithin, CommitReleaseWithin DEF ReleaseStep
<1>6. CASE SettleStep
  <2>1. CASE ReverseStep
    BY <2>1, RestoreWithin, ForfeitWithin, RepayWithin, EndWithin DEF ReverseStep
  <2> QED
    BY <1>6, <2>1, ConsumeWithin, OverrunWithin, CommitSettleWithin DEF SettleStep
<1>7. CASE \/ \E e \in Events, units \in 0..MaxUnits, at \in Instants :
                RecordEvent(e, units, at)
           \/ \E g \in Grants : ExpireGrant(g)
  BY <1>7, OutsideWithin
<1> QED
  BY <1>1, <1>2, <1>3, <1>4, <1>5, <1>6, <1>7 DEF FundingNext

(* No hold of a live reservation crosses the expiry of its grant, however    *)
(* often the reservation was extended and settled, unless a correction has   *)
(* given units of the grant back.                                          *)
THEOREM HoldsEndWithGrants == FundingSpec => []NoHoldCrossesExpiry
<1>1. FundingSpec => []ExpiryInv
  BY Invariance, InitiallyWithin, InductiveWithin, PTL DEF FundingSpec
<1>2. ExpiryInv => NoHoldCrossesExpiry
  BY DEF ExpiryInv
<1> QED
  BY <1>1, <1>2, PTL

------------------------------------------------------------------------------
(* The books: what the lines hold and what the journal has charged            *)

(* What a step does to the lines and to the journal.                         *)
Lined(d, e, r, line) == e.lines = [d.lines EXCEPT ![r] = Append(@, line)]
Relined(d, e, r, i, l) ==
  /\ e.lines = [d.lines EXCEPT ![r][i] = e.lines[r][i]]
  /\ e.lines[r][i].source = d.lines[r][i].source
  /\ Remaining(e.lines[r][i]) = Remaining(d.lines[r][i]) + l
Charges(d, e, n, s, u) == e.charge = [d.charge EXCEPT ![n][s] = @ + u]

(* A reservation has finitely many lines.                                    *)
LEMMA LinesFinite ==
  ASSUME NEW d, d.lines \in [Reservations -> Seq(Line)], NEW S
  PROVE  /\ IsFiniteSet(LinesOn(d, Reservations, S))
         /\ \A x \in LinesOn(d, Reservations, S) :
              Remaining(d.lines[x[1]][x[2]]) \in Int
<1> DEFINE On(r) == {r} \X DOMAIN d.lines[r]
           All == {On(r) : r \in Reservations}
<1>1. ASSUME NEW r \in Reservations PROVE IsFiniteSet(On(r))
  <2>1. d.lines[r] \in Seq(Line)
    OBVIOUS
  <2>2. DOMAIN d.lines[r] = 1..Len(d.lines[r]) /\ Len(d.lines[r]) \in Nat
    BY <2>1, LenProperties
  <2>3. IsFiniteSet(DOMAIN d.lines[r])
    <3> DEFINE len == Len(d.lines[r])
    <3>1. 1 \in Int /\ len \in Int
      BY <2>2
    <3> HIDE DEF len
    <3>2. IsFiniteSet(1..len)
      BY <3>1, FS_Interval
    <3> QED
      BY <2>2, <3>2 DEF len
  <2>4. IsFiniteSet({r})
    BY FS_Singleton
  <2> QED
    BY <2>3, <2>4, FS_Product
<1>2. IsFiniteSet(All)
  <2> DEFINE f == [r \in Reservations |-> On(r)]
  <2>1. f \in Surjection(Reservations, All)
    BY DEF Surjection
  <2>2. IsFiniteSet(Reservations)
    BY FundingAssumption
  <2> HIDE DEF f, All
  <2> QED
    BY <2>1, <2>2, FS_Surjection DEF ExistsSurjection
<1>3. IsFiniteSet(UNION All)
  <2>1. \A T \in All : IsFiniteSet(T)
    BY <1>1
  <2> HIDE DEF All
  <2> QED
    BY <1>2, <2>1, FS_UNION
<1>4. LinesOn(d, Reservations, S) \subseteq UNION All
  BY DEF LinesOn
<1>5. ASSUME NEW x \in LinesOn(d, Reservations, S)
      PROVE  Remaining(d.lines[x[1]][x[2]]) \in Int
  <2>1. PICK r \in Reservations : \E i \in DOMAIN d.lines[r] : x = <<r, i>>
    BY <1>5 DEF LinesOn
  <2>2. PICK i \in DOMAIN d.lines[r] : x = <<r, i>>
    BY <2>1
  <2>3. d.lines[r] \in Seq(Line)
    OBVIOUS
  <2>4. d.lines[r][i] \in Line
    BY <2>3, LenProperties, ElementOfSeq
  <2>5. Remaining(d.lines[r][i]) \in Int
    BY <2>4, Arithmetic DEF Line, Remaining
  <2> QED
    BY <2>2, <2>5
<1> HIDE DEF All
<1>6. IsFiniteSet(LinesOn(d, Reservations, S))
  BY <1>3, <1>4, FS_Subset
<1> QED
  BY <1>5, <1>6

(* A new line is held on its source, and on no other.                        *)
LEMMA HeldAppended ==
  ASSUME NEW d, d.lines \in [Reservations -> Seq(Line)], NEW r \in Reservations,
         NEW line \in Line, NEW S, NEW e, Lined(d, e, r, line)
  PROVE  HeldBy(e, Reservations, S) =
           HeldBy(d, Reservations, S)
           + (IF line.source \in S THEN Remaining(line) ELSE 0)
<1> DEFINE L == LinesOn(d, Reservations, S)
           M == LinesOn(e, Reservations, S)
           f == [x \in L |-> Remaining(d.lines[x[1]][x[2]])]
           h == [x \in M |-> Remaining(e.lines[x[1]][x[2]])]
           n == <<r, Len(d.lines[r]) + 1>>
<1>1. /\ d.lines[r] \in Seq(Line) /\ Len(d.lines[r]) \in Nat
      /\ DOMAIN d.lines[r] = 1..Len(d.lines[r])
  BY LenProperties
<1>2. /\ e.lines[r] = Append(d.lines[r], line)
      /\ \A q \in Reservations \ {r} : e.lines[q] = d.lines[q]
      /\ DOMAIN e.lines[r] = 1..Len(d.lines[r]) + 1
      /\ e.lines[r][Len(d.lines[r]) + 1] = line
      /\ \A i \in DOMAIN d.lines[r] : e.lines[r][i] = d.lines[r][i]
  BY <1>1, AppendProperties DEF Lined
<1>3. n \notin L
  BY <1>1 DEF LinesOn
<1>4. M = L \union (IF line.source \in S THEN {n} ELSE {})
  <2>1. ASSUME NEW q \in Reservations, NEW i
        PROVE  (<<q, i>> \in M) <=>
                 (<<q, i>> \in L \union (IF line.source \in S THEN {n} ELSE {}))
    <3>1. CASE q # r
      BY <1>2, <2>1, <3>1 DEF LinesOn
    <3>2. CASE q = r
      BY SMTT(40), <1>1, <1>2, <2>1, <3>2 DEF LinesOn
    <3> QED
      BY <3>1, <3>2
  <2>2. \A x \in M \union L \union {n} : \E q \in Reservations : \E i : x = <<q, i>>
    BY DEF LinesOn
  <2> HIDE DEF M, L, n
  <2> QED
    BY <2>1, <2>2
<1>5. \A x \in L : h[x] = f[x]
  <2>1. \A x \in L : e.lines[x[1]][x[2]] = d.lines[x[1]][x[2]]
    BY <1>2 DEF LinesOn
  <2> HIDE DEF M, L
  <2> QED
    BY <1>4, <2>1
<1>6. HeldBy(d, Reservations, S) = SumFunctionOnSet(f, L)
  BY DEF HeldBy, SumFunction
<1>7. HeldBy(e, Reservations, S) = SumFunctionOnSet(h, M)
  BY DEF HeldBy, SumFunction
<1>8. IsFiniteSet(L) /\ \A x \in L : f[x] \in Int
  BY LinesFinite
<1>9. line.source \in S => h[n] = Remaining(line)
  BY <1>2, <1>4
<1>10. Remaining(line) \in Int
  BY Arithmetic DEF Line, Remaining
<1>11. SumFunctionOnSet(f, L) \in Int
  BY <1>8, SumType
<1> HIDE DEF L, M, f, h, n
<1>12. CASE line.source \in S
  <2>0. h[n] \in Int
    BY <1>9, <1>10, <1>12
  <2>1. SumFunctionOnSet(h, L \union {n}) = SumFunctionOnSet(f, L) + h[n]
    BY <1>3, <1>5, <1>8, <2>0, SumAdded
  <2>2. M = L \union {n}
    BY <1>4, <1>12
  <2> QED
    BY <1>6, <1>7, <1>9, <1>12, <2>1, <2>2
<1>13. CASE line.source \notin S
  <2>1. M = L
    BY <1>4, <1>13
  <2>2. SumFunctionOnSet(f, L) = SumFunctionOnSet(h, L)
    BY <1>5, <1>8, SumEqual
  <2> QED
    BY <1>6, <1>7, <1>11, <1>13, <2>1, <2>2
<1> QED
  BY <1>12, <1>13

(* A line that keeps its source changes what is held on it.                  *)
LEMMA HeldChanged ==
  ASSUME NEW d, d.lines \in [Reservations -> Seq(Line)], NEW r \in Reservations,
         NEW i \in DOMAIN d.lines[r], NEW l \in Int, NEW S, NEW e,
         Relined(d, e, r, i, l)
  PROVE  /\ d.lines[r][i].source \in S =>
              HeldBy(e, Reservations, S) = HeldBy(d, Reservations, S) + l
         /\ d.lines[r][i].source \notin S =>
              HeldBy(e, Reservations, S) = HeldBy(d, Reservations, S)
<1> DEFINE L == LinesOn(d, Reservations, S)
           M == LinesOn(e, Reservations, S)
           f == [x \in L |-> Remaining(d.lines[x[1]][x[2]])]
           h == [x \in M |-> Remaining(e.lines[x[1]][x[2]])]
           n == <<r, i>>
<1>2. /\ \A q \in Reservations \ {r} : e.lines[q] = d.lines[q]
      /\ DOMAIN e.lines[r] = DOMAIN d.lines[r]
      /\ e.lines[r][i].source = d.lines[r][i].source
      /\ Remaining(e.lines[r][i]) = Remaining(d.lines[r][i]) + l
      /\ \A j \in DOMAIN d.lines[r] \ {i} : e.lines[r][j] = d.lines[r][j]
  BY DEF Relined
<1>4. M = L
  <2>1. ASSUME NEW q \in Reservations, NEW j
        PROVE  (<<q, j>> \in M) <=> (<<q, j>> \in L)
    <3>1. CASE q # r
      BY <1>2, <2>1, <3>1 DEF LinesOn
    <3>2. CASE q = r
      BY SMTT(40), <1>2, <2>1, <3>2 DEF LinesOn
    <3> QED
      BY <3>1, <3>2
  <2>2. \A x \in M \union L : \E q \in Reservations : \E j : x = <<q, j>>
    BY DEF LinesOn
  <2> HIDE DEF M, L
  <2>3. \A x : x \in M <=> x \in L
    BY <2>1, <2>2
  <2> QED
    BY <2>3
<1>5. \A x \in L \ {n} : h[x] = f[x]
  <2>1. \A x \in L \ {n} : e.lines[x[1]][x[2]] = d.lines[x[1]][x[2]]
    BY <1>2 DEF LinesOn
  <2> HIDE DEF M, L
  <2> QED
    BY <1>4, <2>1
<1>6. HeldBy(d, Reservations, S) = SumFunctionOnSet(f, L)
  BY DEF HeldBy, SumFunction
<1>7. HeldBy(e, Reservations, S) = SumFunctionOnSet(h, M)
  BY DEF HeldBy, SumFunction
<1>8. IsFiniteSet(L) /\ \A x \in L : f[x] \in Int
  BY LinesFinite
<1>9. d.lines[r][i].source \in S <=> n \in L
  BY DEF LinesOn
<1>10. n \in L => h[n] = f[n] + l
  <2> HIDE DEF L, M
  <2> QED
    BY <1>2, <1>4
<1>11. SumFunctionOnSet(f, L) \in Int
  BY <1>8, SumType
<1> HIDE DEF L, M, f, h, n
<1>12. CASE n \in L
  <2>2. f[n] \in Int /\ h[n] \in Int
    BY <1>8, <1>10, <1>12
  <2>1. SumFunctionOnSet(h, L) = SumFunctionOnSet(f, L) - f[n] + h[n]
    BY <1>5, <1>8, <1>12, <2>2, SumChanged
  <2> QED
    BY <1>4, <1>6, <1>7, <1>9, <1>10, <1>11, <1>12, <2>1, <2>2
<1>13. CASE n \notin L
  <2>2. SumFunctionOnSet(f, L) = SumFunctionOnSet(h, L)
    BY <1>5, <1>8, <1>13, SumEqual
  <2> QED
    BY <1>4, <1>6, <1>7, <1>9, <1>11, <1>13, <2>2
<1> QED
  BY <1>12, <1>13

(* The journal is finite.                                                    *)
LEMMA EntriesFinite ==
  ASSUME NEW S, S \subseteq Sources
  PROVE  IsFiniteSet(Events \X S)
<1>1. IsFiniteSet(Components) /\ IsFiniteSet(Grants) /\ MaxRevision \in Int
  BY FundingAssumption
<1>2. IsFiniteSet(1..MaxRevision)
  <2>1. 1 \in Int
    OBVIOUS
  <2> QED
    BY <1>1, <2>1, FS_Interval
<1>3. IsFiniteSet(Events)
  BY <1>1, <1>2, FS_Product DEF Events
<1>4. IsFiniteSet(Sources)
  <2>1. IsFiniteSet({Postpaid})
    BY FS_Singleton
  <2> QED
    BY <1>1, <2>1, FS_Union DEF Sources
<1>5. IsFiniteSet(S)
  BY <1>4, FS_Subset
<1> QED
  BY <1>3, <1>5, FS_Product

(* An entry counts for its source, and for no other.                         *)
LEMMA ChargedChanged ==
  ASSUME NEW d, d.charge \in [Events -> [Sources -> Int]], NEW n \in Events,
         NEW s \in Sources, NEW u \in Int, NEW S, S \subseteq Sources,
         NEW e, Charges(d, e, n, s, u)
  PROVE  Charged(e, Events, S) = Charged(d, Events, S) + (IF s \in S THEN u ELSE 0)
<1> DEFINE E == Events \X S
           f == [x \in E |-> d.charge[x[1]][x[2]]]
           h == [x \in E |-> e.charge[x[1]][x[2]]]
           p == <<n, s>>
<1>1. /\ e.charge[n][s] = d.charge[n][s] + u
      /\ \A m \in Events, q \in Sources :
           m # n \/ q # s => e.charge[m][q] = d.charge[m][q]
  BY DEF Charges
<1>2. \A x \in E \ {p} : h[x] = f[x]
  BY <1>1
<1>3. p \in E => h[p] = f[p] + u
  BY <1>1
<1>4. p \in E <=> s \in S
  OBVIOUS
<1>5. IsFiniteSet(E) /\ \A x \in E : f[x] \in Int
  BY EntriesFinite
<1>6. Charged(d, Events, S) = SumFunctionOnSet(f, E)
  BY DEF Charged, SumFunction
<1>7. Charged(e, Events, S) = SumFunctionOnSet(h, E)
  BY DEF Charged, SumFunction
<1> HIDE DEF E, f, h, p
<1>8. SumFunctionOnSet(f, E) \in Int
  BY <1>5, SumType
<1>9. CASE p \in E
  <2>1. f[p] \in Int /\ h[p] \in Int
    BY <1>3, <1>5, <1>9
  <2>2. SumFunctionOnSet(h, E) = SumFunctionOnSet(f, E) - f[p] + h[p]
    BY <1>2, <1>5, <1>9, <2>1, SumChanged
  <2> QED
    BY <1>3, <1>4, <1>6, <1>7, <1>8, <1>9, <2>1, <2>2
<1>10. CASE p \notin E
  <2>1. SumFunctionOnSet(f, E) = SumFunctionOnSet(h, E)
    BY <1>2, <1>5, <1>10, SumEqual
  <2> QED
    BY <1>4, <1>6, <1>7, <1>8, <1>10, <2>1
<1> QED
  BY <1>9, <1>10

(* These sums are integers.                                                  *)
LEMMA SumTypes ==
  ASSUME NEW d \in Ledger, NEW S, S \subseteq Sources
  PROVE  Charged(d, Events, S) \in Int /\ HeldBy(d, Reservations, S) \in Int
<1>1. Charged(d, Events, S) \in Int
  <2> DEFINE E == Events \X S
             f == [x \in E |-> d.charge[x[1]][x[2]]]
  <2>1. IsFiniteSet(E) /\ \A x \in E : f[x] \in Int
    <3>1. d.charge \in [Events -> [Sources -> Int]]
      BY DEF Ledger
    <3> QED
      BY <3>1, EntriesFinite
  <2>2. Charged(d, Events, S) = SumFunctionOnSet(f, E)
    BY DEF Charged, SumFunction
  <2> HIDE DEF E, f
  <2> QED
    BY <2>1, <2>2, SumType
<1>2. HeldBy(d, Reservations, S) \in Int
  <2> DEFINE L == LinesOn(d, Reservations, S)
             f == [x \in L |-> Remaining(d.lines[x[1]][x[2]])]
  <2>1. IsFiniteSet(L) /\ \A x \in L : f[x] \in Int
    BY LinesFinite DEF Ledger
  <2>2. HeldBy(d, Reservations, S) = SumFunctionOnSet(f, L)
    BY DEF HeldBy, SumFunction
  <2> HIDE DEF L, f
  <2> QED
    BY <2>1, <2>2, SumType
<1> QED
  BY <1>1, <1>2

(* No entry restores a grant that was not restored before.                   *)
LEMMA UnrestoredKept ==
  ASSUME NEW d, d.charge \in [Events -> [Sources -> Int]], NEW n \in Events,
         NEW s \in Sources, NEW u \in Int, u >= 0 => d.charge[n][s] >= 0,
         NEW e, Charges(d, e, n, s, u), NEW g \in Grants, Unrestored(e, g)
  PROVE  Unrestored(d, g)
<1>1. g \in Sources
  BY DEF Sources
<1>2. ASSUME NEW m \in Events PROVE d.charge[m][g] >= 0
  <2>1. e.charge[m][g] >= 0 /\ d.charge[m][g] \in Int
    BY <1>1 DEF Unrestored
  <2>2. e.charge[m][g] = IF m = n /\ g = s THEN d.charge[m][g] + u ELSE d.charge[m][g]
    BY <1>1 DEF Charges
  <2> QED
    BY <2>1, <2>2
<1> QED
  BY <1>2 DEF Unrestored

------------------------------------------------------------------------------
(* The books *)

(* No unit of the grant is lost or made.                                     *)
Conserved(d, g) == Granted[g] = d.balance[g] + d.expired[g] + Charged(d, Events, {g})

(* The position of the grant holds what the lines on it hold.                *)
HoldsMatch(d, g) == Unrestored(d, g) => d.held[g] = HeldBy(d, Reservations, {g})

ReservedMatches(d) == d.exposure.reserved = HeldBy(d, Reservations, {Postpaid})

(* The debt is never less than the journal says.                             *)
SettledCovers(d) == d.exposure.settled >= Charged(d, Events, {Postpaid})

Books(d) ==
  /\ \A g \in Grants : Conserved(d, g) /\ HoldsMatch(d, g)
  /\ ReservedMatches(d)
  /\ SettledCovers(d)

(* What is used and held, and the units n asked for, are within the cap.      *)
CapKept(d, n) ==
  CycleCap # None /\ (\A g \in Grants : Unrestored(d, g)) =>
    CycleUsed(d) + HeldBy(d, Reservations, Sources) + n <= CycleCap

(* The units a command that funds usage has still to find.                   *)
Asked(t) == IF t.stage = "fund" THEN t.left ELSE 0

BooksInv ==
  /\ Books(ledger) /\ CapKept(ledger, 0)
  /\ tx # NoTx => Books(tx.draft) /\ CapKept(tx.draft, Asked(tx))

(* What a step does to the sums, to the positions and to the exposure.        *)
Plus(n, k, s, u) == n + (IF k = s THEN u ELSE 0)

HeldShift(d, e, s, l) ==
  /\ \A k \in Sources :
       HeldBy(e, Reservations, {k}) = Plus(HeldBy(d, Reservations, {k}), k, s, l)
  /\ HeldBy(e, Reservations, Sources) = HeldBy(d, Reservations, Sources) + l

ChargeShift(d, e, s, c) ==
  /\ \A k \in Sources :
       Charged(e, Events, {k}) = Plus(Charged(d, Events, {k}), k, s, c)
  /\ Charged(e, Events, Grants) =
       Charged(d, Events, Grants) + (IF s \in Grants THEN c ELSE 0)

Moves(d, e, s, b, h, x) ==
  \A k \in Grants :
    /\ e.balance[k] = Plus(d.balance[k], k, s, b)
    /\ e.held[k] = Plus(d.held[k], k, s, h)
    /\ e.expired[k] = Plus(d.expired[k], k, s, x)

(* A step that moves units of source s: what the books ask of its amounts.    *)
Balanced(e, s, l, c, b, h, x, p, n, q) ==
  \/ /\ s \in Grants /\ b + x + c = 0 /\ p = 0
     /\ ~Unrestored(e, s) \/ (h = l /\ l + c + q <= n)
  \/ s = Postpaid /\ p >= c /\ l + p + q <= n

(* Without corrections, what a cycle has used is what the journal says.       *)
LEMMA CycleUsedIsCharged ==
  ASSUME NEW d \in Ledger, \A g \in Grants : Unrestored(d, g)
  PROVE  CycleUsed(d) = Charged(d, Events, Grants) + d.exposure.settled
<1> DEFINE E == Events \X Grants
           f == [x \in E |-> d.charge[x[1]][x[2]]]
           h == [x \in E |-> IF d.charge[x[1]][x[2]] > 0
                                THEN d.charge[x[1]][x[2]] ELSE 0]
<1>1. IsFiniteSet(E)
  <2>1. Grants \subseteq Sources
    BY DEF Sources
  <2> QED
    BY <2>1, EntriesFinite
<1>2. ASSUME NEW x \in E PROVE f[x] = h[x]
  <2>1. x[1] \in Events /\ x[2] \in Grants
    OBVIOUS
  <2>2. d.charge[x[1]][x[2]] \in Int
    BY <2>1 DEF Ledger, Sources
  <2>3. d.charge[x[1]][x[2]] >= 0
    BY <2>1 DEF Unrestored
  <2> QED
    BY <2>2, <2>3
<1>3. Charged(d, Events, Grants) = SumFunctionOnSet(f, E)
  BY DEF Charged, SumFunction
<1>4. CycleUsed(d) = SumFunctionOnSet(h, E) + d.exposure.settled
  BY DEF CycleUsed, SumFunction
<1> HIDE DEF E, f, h
<1>5. SumFunctionOnSet(f, E) = SumFunctionOnSet(h, E)
  BY <1>1, <1>2, SumEqual
<1> QED
  BY <1>3, <1>4, <1>5

(* A step whose amounts balance keeps the books.                             *)
LEMMA BooksShift ==
  ASSUME NEW d \in Ledger, NEW e \in Ledger, Books(d), NEW s \in Sources,
         NEW l \in Int, NEW c \in Int, NEW b \in Int, NEW h \in Int, NEW x \in Int,
         NEW p \in Int, NEW n \in Int, NEW q \in Int, CapKept(d, n),
         HeldShift(d, e, s, l), ChargeShift(d, e, s, c), Moves(d, e, s, b, h, x),
         Balanced(e, s, l, c, b, h, x, p, n, q),
         e.exposure.reserved = Plus(d.exposure.reserved, Postpaid, s, l),
         e.exposure.settled = d.exposure.settled + p,
         \A g \in Grants : Unrestored(e, g) => Unrestored(d, g)
  PROVE  Books(e) /\ CapKept(e, q)
<1>0. /\ s \in Grants => b + x + c = 0 /\ (h = l \/ ~Unrestored(e, s))
      /\ s = Postpaid <=> s \notin Grants
  BY FundingAssumption DEF Balanced, Sources
<1>1. ASSUME NEW g \in Grants PROVE Conserved(e, g) /\ HoldsMatch(e, g)
  <2>0. g \in Sources /\ {g} \subseteq Sources
    BY DEF Sources
  <2>1. /\ d.balance[g] \in Int /\ d.held[g] \in Int /\ d.expired[g] \in Int
        /\ e.balance[g] \in Int /\ e.held[g] \in Int /\ e.expired[g] \in Int
    BY DEF Ledger
  <2>2. /\ Charged(d, Events, {g}) \in Int /\ HeldBy(d, Reservations, {g}) \in Int
    BY <2>0, SumTypes
  <2>3. /\ HeldBy(e, Reservations, {g}) = Plus(HeldBy(d, Reservations, {g}), g, s, l)
        /\ Charged(e, Events, {g}) = Plus(Charged(d, Events, {g}), g, s, c)
    BY <2>0 DEF HeldShift, ChargeShift
  <2>4. /\ e.balance[g] = Plus(d.balance[g], g, s, b)
        /\ e.held[g] = Plus(d.held[g], g, s, h)
        /\ e.expired[g] = Plus(d.expired[g], g, s, x)
    BY DEF Moves
  <2>5. Conserved(d, g) /\ HoldsMatch(d, g)
    BY DEF Books
  <2>6. Conserved(e, g)
    BY <1>0, <2>1, <2>2, <2>3, <2>4, <2>5 DEF Conserved, Plus
  <2>7. HoldsMatch(e, g)
    BY <1>0, <2>1, <2>2, <2>3, <2>4, <2>5 DEF HoldsMatch, Plus
  <2> QED
    BY <2>6, <2>7
<1>2. ReservedMatches(e) /\ SettledCovers(e)
  <2>1. Postpaid \in Sources /\ {Postpaid} \subseteq Sources
    BY DEF Sources
  <2>2. /\ HeldBy(d, Reservations, {Postpaid}) \in Int
        /\ Charged(d, Events, {Postpaid}) \in Int
    BY <2>1, SumTypes
  <2>3. /\ HeldBy(e, Reservations, {Postpaid}) =
             Plus(HeldBy(d, Reservations, {Postpaid}), Postpaid, s, l)
        /\ Charged(e, Events, {Postpaid}) =
             Plus(Charged(d, Events, {Postpaid}), Postpaid, s, c)
    BY <2>1 DEF HeldShift, ChargeShift
  <2>4. ReservedMatches(e)
    BY <2>2, <2>3 DEF ReservedMatches, Plus, Books
  <2>5. d.exposure.settled \in Int /\ SettledCovers(d)
    BY DEF Ledger, Books
  <2>6. IF s = Postpaid THEN p >= c ELSE p = 0
    BY <1>0 DEF Balanced
  <2>7. SettledCovers(e)
    BY <2>2, <2>3, <2>5, <2>6 DEF SettledCovers, Plus
  <2> QED
    BY <2>4, <2>7
<1>3. CapKept(e, q)
  <2> SUFFICES ASSUME CycleCap # None, \A g \in Grants : Unrestored(e, g)
               PROVE  CycleUsed(e) + HeldBy(e, Reservations, Sources) + q <= CycleCap
    BY DEF CapKept
  <2>1. \A g \in Grants : Unrestored(d, g)
    OBVIOUS
  <2>2. /\ CycleUsed(d) = Charged(d, Events, Grants) + d.exposure.settled
        /\ CycleUsed(e) = Charged(e, Events, Grants) + e.exposure.settled
    BY <2>1, CycleUsedIsCharged
  <2>3. CycleUsed(d) + HeldBy(d, Reservations, Sources) + n <= CycleCap
    BY <2>1 DEF CapKept
  <2>4. /\ HeldBy(e, Reservations, Sources) = HeldBy(d, Reservations, Sources) + l
        /\ Charged(e, Events, Grants) =
             Charged(d, Events, Grants) + (IF s \in Grants THEN c ELSE 0)
    BY DEF HeldShift, ChargeShift
  <2>5. /\ HeldBy(d, Reservations, Sources) \in Int /\ Charged(d, Events, Grants) \in Int
        /\ d.exposure.settled \in Int /\ CycleCap \in Int
    <3>1. Grants \subseteq Sources /\ Sources \subseteq Sources
      BY DEF Sources
    <3>2. d.exposure.settled \in Int /\ CycleCap \in Int
      BY FundingAssumption DEF Ledger
    <3> QED
      BY <3>1, <3>2, SumTypes
  <2>6. l + (IF s \in Grants THEN c ELSE 0) + p + q <= n
    BY <1>0 DEF Balanced
  <2> QED
    BY <2>2, <2>3, <2>4, <2>5, <2>6
<1> QED
  BY <1>1, <1>2, <1>3 DEF Books

(* The same positions and exposure.                                          *)
Still(d, e) ==
  /\ e.balance = d.balance /\ e.held = d.held /\ e.expired = d.expired
  /\ e.exposure = d.exposure

(* The operators on the tables, in these terms.                              *)
LEMMA MovedBooks ==
  ASSUME NEW d \in Ledger, NEW g \in Grants, NEW b \in Int, NEW h \in Int
  PROVE  /\ Frame(d, Moved(d, g, b, h))
         /\ Moves(d, Moved(d, g, b, h), g, b, h, 0)
         /\ Moved(d, g, b, h).exposure = d.exposure
<1>1. Frame(d, Moved(d, g, b, h))
  BY MovedFrame
<1> DEFINE m == Moved(d, g, b, h)
<1>2. /\ m.balance = [d.balance EXCEPT ![g] = @ + b]
      /\ m.held = [d.held EXCEPT ![g] = @ + h]
      /\ m.expired = d.expired /\ m.exposure = d.exposure
  BY DEF Moved, Ledger
<1>3. d.balance \in [Grants -> Nat] /\ d.held \in [Grants -> Nat] /\ d.expired \in [Grants -> Nat]
  BY DEF Ledger
<1> HIDE DEF m
<1>4. Moves(d, m, g, b, h, 0)
  BY <1>2, <1>3 DEF Moves, Plus
<1> QED
  BY <1>1, <1>2, <1>4 DEF m

(* What a posting to the exposure does to the books.                         *)
LEMMA ExposedBooks ==
  ASSUME NEW d \in Ledger, NEW a \in Int, NEW c \in Int
  PROVE  /\ Frame(d, Exposed(d, a, c))
         /\ Moves(d, Exposed(d, a, c), Postpaid, 0, 0, 0)
         /\ Exposed(d, a, c).exposure.reserved = d.exposure.reserved + a
         /\ Exposed(d, a, c).exposure.settled = d.exposure.settled + c
<1>1. Frame(d, Exposed(d, a, c))
  BY MovedFrame
<1> DEFINE m == Exposed(d, a, c)
<1>2. /\ m.balance = d.balance /\ m.held = d.held /\ m.expired = d.expired
      /\ m.exposure.reserved = d.exposure.reserved + a
      /\ m.exposure.settled = d.exposure.settled + c
  BY DEF Exposed, Ledger
<1>3. d.balance \in [Grants -> Nat] /\ d.held \in [Grants -> Nat] /\ d.expired \in [Grants -> Nat]
  BY DEF Ledger
<1> HIDE DEF m
<1>4. Moves(d, m, Postpaid, 0, 0, 0)
  BY <1>2, <1>3 DEF Moves, Plus
<1> QED
  BY <1>1, <1>2, <1>4 DEF m

(* A released unit stays in its position, or expires.                        *)
LEMMA ReleaseCreditsBooks ==
  ASSUME NEW d \in Ledger, NEW g \in Grants, NEW u \in Nat
  PROVE  LET e == ReleaseCredits(d, g, u) IN
         /\ Frame(d, e)
         /\ e.exposure = d.exposure
         /\ \E b \in Int : \E x \in Int : b + x = 0 /\ Moves(d, e, g, b, -u, x)
<1> DEFINE e == ReleaseCredits(d, g, u)
<1>1. CASE Expired(d, g, tx.now)
  <2> DEFINE m == Moved(d, g, -u, -u)
  <2>1. Frame(d, m) /\ Moves(d, m, g, -u, -u, 0) /\ m.exposure = d.exposure
    BY MovedBooks
  <2>2. e = [m EXCEPT !.expired[g] = @ + u, !.active[g] = FALSE]
    BY <1>1 DEF ReleaseCredits
  <2>3. m.expired = d.expired /\ d.expired \in [Grants -> Nat]
    BY DEF Moved, Ledger
  <2>4. {"balance", "held", "expired", "active", "exposure", "lines", "charge",
         "reservation", "event"} \subseteq DOMAIN m
    BY <2>1 DEF Frame, Ledger
  <2> HIDE DEF m
  <2>5. /\ DOMAIN e = DOMAIN m /\ e.lines = m.lines /\ e.charge = m.charge
        /\ e.reservation = m.reservation /\ e.event = m.event
        /\ e.balance = m.balance /\ e.held = m.held /\ e.exposure = m.exposure
        /\ e.expired = [m.expired EXCEPT ![g] = @ + u]
    BY <2>2, <2>4
  <2> HIDE DEF e
  <2>6. Frame(d, e)
    BY <2>1, <2>5 DEF Frame, Alike
  <2>7. Moves(d, e, g, -u, -u, u)
    BY <2>1, <2>3, <2>5 DEF Moves, Plus
  <2>8. -u \in Int /\ u \in Int /\ -u + u = 0
    OBVIOUS
  <2>9. e.exposure = d.exposure
    BY <2>1, <2>5
  <2>10. \E b \in Int : \E x \in Int : b + x = 0 /\ Moves(d, e, g, b, -u, x)
    BY <2>7, <2>8
  <2> QED
    BY <2>6, <2>9, <2>10 DEF e
<1>2. CASE ~Expired(d, g, tx.now)
  <2>1. e = Moved(d, g, 0, -u)
    BY <1>2 DEF ReleaseCredits
  <2>2. Frame(d, e) /\ Moves(d, e, g, 0, -u, 0) /\ e.exposure = d.exposure
    <3>1. 0 \in Int /\ -u \in Int
      OBVIOUS
    <3> HIDE DEF e
    <3> QED
      BY <2>1, <3>1, MovedBooks
  <2> HIDE DEF e
  <2>3. \E b \in Int : \E x \in Int : b + x = 0 /\ Moves(d, e, g, b, -u, x)
    BY <2>2
  <2> QED
    BY <2>2, <2>3 DEF e
<1> QED
  BY <1>1, <1>2

(* A plan line that is appended.                                             *)
LEMMA AppendedBooks ==
  ASSUME NEW d \in Ledger, NEW m, Frame(d, m), NEW r \in Reservations, NEW line
  PROVE  LET e == Appended(m, r, line) IN
         Still(m, e) /\ Lined(d, e, r, line) /\ e.charge = d.charge
<1>1. {"balance", "held", "expired", "exposure", "lines", "charge"} \subseteq DOMAIN m
  BY DEF Frame, Ledger
<1> QED
  BY <1>1 DEF Frame, Alike, Appended, Still, Lined

(* A plan line that is released.                                             *)
LEMMA MarkedBooks ==
  ASSUME NEW d \in Ledger, NEW m, Frame(d, m), NEW r \in Reservations,
         NEW i \in DOMAIN d.lines[r]
  PROVE  LET e == MarkReleased(m, r, i) IN
         /\ Still(m, e)
         /\ Relined(d, e, r, i, -Remaining(d.lines[r][i]))
         /\ e.charge = d.charge
<1> DEFINE e == MarkReleased(m, r, i)
           old == d.lines[r][i]
           new == [old EXCEPT !.released = @ + Remaining(old)]
<1>1. {"balance", "held", "expired", "exposure", "lines", "charge"} \subseteq DOMAIN m
  BY DEF Frame, Ledger
<1>2. d.lines \in [Reservations -> Seq(Line)]
  BY DEF Ledger
<1>3. old \in Line
  BY <1>2, LenProperties, ElementOfSeq
<1>4. new.source = old.source /\ Remaining(new) = Remaining(old) + -Remaining(old)
  BY <1>3, Arithmetic DEF Remaining, Line
<1>5. /\ Still(m, e) /\ e.charge = d.charge
      /\ e.lines = [d.lines EXCEPT ![r][i] = new]
  BY <1>1, <1>2 DEF Frame, Alike, MarkReleased, Still
<1> HIDE DEF e, new
<1>6. e.lines[r][i] = new
  BY <1>2, <1>5
<1>7. Relined(d, e, r, i, -Remaining(old))
  BY <1>4, <1>5, <1>6 DEF Relined
<1> QED
  BY <1>5, <1>7 DEF e

(* A plan line that is charged for.                                          *)
LEMMA SpentBooks ==
  ASSUME NEW d \in Ledger, NEW m, Frame(d, m), NEW r \in Reservations,
         NEW i \in DOMAIN d.lines[r], NEW s, NEW u \in Int
  PROVE  LET e == Spend(m, r, i, s, u) IN
         /\ Still(m, e)
         /\ Relined(d, e, r, i, -u)
         /\ Charges(d, e, tx.event, s, u)
<1> DEFINE e == Spend(m, r, i, s, u)
           old == d.lines[r][i]
           new == [old EXCEPT !.consumed = @ + u]
<1>1. {"balance", "held", "expired", "exposure", "lines", "charge"} \subseteq DOMAIN m
  BY DEF Frame, Ledger
<1>2. d.lines \in [Reservations -> Seq(Line)]
  BY DEF Ledger
<1>3. old \in Line
  BY <1>2, LenProperties, ElementOfSeq
<1>4. new.source = old.source /\ Remaining(new) = Remaining(old) + -u
  BY <1>3 DEF Remaining, Line
<1>5. /\ Still(m, e) /\ Charges(d, e, tx.event, s, u)
      /\ e.lines = [d.lines EXCEPT ![r][i] = new]
  BY <1>1, <1>2 DEF Frame, Alike, Spend, Posted, Still, Charges
<1> HIDE DEF e, new
<1>6. e.lines[r][i] = new
  BY <1>2, <1>5
<1>7. Relined(d, e, r, i, -u)
  BY <1>4, <1>5, <1>6 DEF Relined
<1> QED
  BY <1>5, <1>7 DEF e

(* The shifts of the sums.                                                   *)
LEMMA LinedShift ==
  ASSUME NEW d \in Ledger, NEW e, NEW r \in Reservations, NEW line \in Line,
         Lined(d, e, r, line)
  PROVE  HeldShift(d, e, line.source, Remaining(line))
<1>1. d.lines \in [Reservations -> Seq(Line)] /\ line.source \in Sources
  BY DEF Ledger, Line
<1> QED
  BY <1>1, HeldAppended DEF HeldShift, Plus

(* A line that changes moves the sum over its source by its difference.      *)
LEMMA RelinedShift ==
  ASSUME NEW d \in Ledger, NEW e, NEW r \in Reservations, NEW i \in DOMAIN d.lines[r],
         NEW l \in Int, Relined(d, e, r, i, l),
         NEW s \in Sources, s = d.lines[r][i].source
  PROVE  HeldShift(d, e, s, l)
<1>1. d.lines \in [Reservations -> Seq(Line)]
  BY DEF Ledger
<1>2. ASSUME NEW S
      PROVE  /\ s \in S => HeldBy(e, Reservations, S) = HeldBy(d, Reservations, S) + l
             /\ s \notin S => HeldBy(e, Reservations, S) = HeldBy(d, Reservations, S)
  BY <1>1, HeldChanged
<1>3. ASSUME NEW k \in Sources
      PROVE  HeldBy(e, Reservations, {k}) = Plus(HeldBy(d, Reservations, {k}), k, s, l)
  <2>1. HeldBy(d, Reservations, {k}) \in Int
    BY SumTypes
  <2>2. CASE k = s
    BY <1>2, <2>2 DEF Plus
  <2>3. CASE k # s
    BY <1>2, <2>1, <2>3 DEF Plus
  <2> QED
    BY <2>2, <2>3
<1> QED
  BY <1>2, <1>3 DEF HeldShift

(* And so does an entry of the journal.                                      *)
LEMMA ChargesShift ==
  ASSUME NEW d \in Ledger, NEW e, NEW n \in Events, NEW s \in Sources, NEW u \in Int,
         Charges(d, e, n, s, u)
  PROVE  ChargeShift(d, e, s, u)
<1>1. d.charge \in [Events -> [Sources -> Int]]
  BY DEF Ledger
<1>2. (\A k \in Sources : {k} \subseteq Sources) /\ Grants \subseteq Sources
  BY DEF Sources
<1> QED
  BY <1>1, <1>2, ChargedChanged DEF ChargeShift, Plus

(* What does not change moves no sum.                                        *)
LEMMA NoShift ==
  ASSUME NEW d \in Ledger, NEW e, NEW s
  PROVE  /\ e.lines = d.lines => HeldShift(d, e, s, 0)
         /\ e.charge = d.charge => ChargeShift(d, e, s, 0)
<1>1. /\ \A k \in Sources : {k} \subseteq Sources
      /\ Grants \subseteq Sources /\ Sources \subseteq Sources
  BY DEF Sources
<1>2. /\ \A k \in Sources :
           HeldBy(d, Reservations, {k}) \in Int /\ Charged(d, Events, {k}) \in Int
      /\ HeldBy(d, Reservations, Sources) \in Int /\ Charged(d, Events, Grants) \in Int
  BY <1>1, SumTypes
<1>3. \A n \in Int : n + 0 = n /\ \A k : Plus(n, k, s, 0) = n
  BY DEF Plus
<1>4. ASSUME e.lines = d.lines PROVE HeldShift(d, e, s, 0)
  <2>1. \A S : HeldBy(e, Reservations, S) = HeldBy(d, Reservations, S)
    BY <1>4 DEF HeldBy, LinesOn
  <2>2. ASSUME NEW k \in Sources
        PROVE  HeldBy(e, Reservations, {k}) = Plus(HeldBy(d, Reservations, {k}), k, s, 0)
    BY <1>2, <1>3, <2>1
  <2>3. HeldBy(e, Reservations, Sources) = HeldBy(d, Reservations, Sources) + 0
    BY <1>2, <1>3, <2>1
  <2> QED
    BY <2>2, <2>3 DEF HeldShift
<1>5. ASSUME e.charge = d.charge PROVE ChargeShift(d, e, s, 0)
  <2>1. \A S : Charged(e, Events, S) = Charged(d, Events, S)
    BY <1>5 DEF Charged
  <2>2. ASSUME NEW k \in Sources
        PROVE  Charged(e, Events, {k}) = Plus(Charged(d, Events, {k}), k, s, 0)
    BY <1>2, <1>3, <2>1
  <2>3. Charged(e, Events, Grants) =
          Charged(d, Events, Grants) + (IF s \in Grants THEN 0 ELSE 0)
    BY <1>2, <1>3, <2>1
  <2> QED
    BY <2>2, <2>3 DEF ChargeShift
<1> QED
  BY <1>4, <1>5

------------------------------------------------------------------------------
(* Every step of a command keeps the books                                   *)

(* A step on the draft only has the draft to answer for.                     *)
LEMMA KeepsBooks ==
  ASSUME FInv, FInv', BooksInv, tx # NoTx, UNCHANGED ledger, NEW e, tx'.draft = e,
         NEW q, Asked(tx') = q, e \in Ledger => Books(e) /\ CapKept(e, q)
  PROVE  BooksInv'
<1>1. tx' # NoTx => e \in Ledger
  BY DEF FInv, Pending, Sound
<1> QED
  BY <1>1 DEF BooksInv

(* A draft that keeps the books may be committed.                            *)
LEMMA CommitsBooks ==
  ASSUME BooksInv, NEW e, Commit(e), Books(e), CapKept(e, 0)
  PROVE  BooksInv'
  BY DEF BooksInv, Commit

(* Tables that agree in what the books say.                                  *)
LEMMA SameBooks ==
  ASSUME NEW d, NEW e, Books(d), Still(d, e), e.lines = d.lines, e.charge = d.charge
  PROVE  Books(e) /\ \A n : CapKept(d, n) => CapKept(e, n)
<1>1. \A S : /\ HeldBy(e, Reservations, S) = HeldBy(d, Reservations, S)
             /\ Charged(e, Events, S) = Charged(d, Events, S)
  BY DEF HeldBy, LinesOn, Charged
<1>2. \A g : Unrestored(e, g) <=> Unrestored(d, g)
  BY DEF Unrestored
<1>3. Books(e)
  BY <1>1, <1>2 DEF Books, Conserved, HoldsMatch, ReservedMatches, SettledCovers, Still
<1>4. CycleUsed(e) = CycleUsed(d)
  BY DEF CycleUsed, Still
<1>5. ASSUME NEW n, CapKept(d, n) PROVE CapKept(e, n)
  BY <1>1, <1>2, <1>4, <1>5 DEF CapKept
<1> QED
  BY <1>3, <1>5

(* What a step of the transaction asks for next.                             *)
LEMMA NextAsked ==
  ASSUME FInv, tx # NoTx, NEW d
  PROVE  /\ \A left : Proceed(d, left, "fund") => Asked(tx') = left
         /\ \A left, stage : Proceed(d, left, stage) /\ stage # "fund" => Asked(tx') = 0
         /\ \A s, units :
              NextReversal(d, s, units) /\ tx.stage = "reverse" => Asked(tx') = 0
  BY NextTx DEF Asked

(* The planner's line on a grant.                                            *)
LEMMA HoldCreditsBooks ==
  ASSUME FInv, FInv', BooksInv, NEW g \in Grants, HoldCredits(g)
  PROVE  BooksInv'
<1> DEFINE d == tx.draft
           r == tx.reservation
           units == SmallerOf(d.balance[g] - d.held[g], tx.left)
           m == Moved(d, g, 0, units)
           line == NewLine(g, units)
           e == Appended(m, r, line)
<1>1. tx # NoTx /\ tx.stage = "fund" /\ Proceed(e, tx.left - units, "fund")
  BY DEF HoldCredits
<1>2. /\ d \in Ledger /\ r \in Reservations /\ g \in Sources /\ tx.left \in Int
      /\ Books(d) /\ CapKept(d, tx.left)
  BY <1>1, Opened DEF BooksInv, Sources, Asked
<1>3. units \in Nat
  <2>1. d.balance[g] - d.held[g] \in Nat /\ tx.left \in Nat
    BY <1>1, <1>2, Opened DEF Sound, Ledger
  <2> QED
    BY <2>1 DEF SmallerOf
<1> HIDE DEF units
<1>4. line \in Line /\ line.source = g /\ Remaining(line) = units
  BY <1>2, <1>3 DEF NewLine, Line, Remaining
<1>5. tx'.draft = e /\ UNCHANGED ledger /\ Asked(tx') = tx.left - units
  BY <1>1, NextTx, NextAsked
<1> HIDE DEF d, r, line
<1>6. Frame(d, m) /\ Moves(d, m, g, 0, units, 0) /\ m.exposure = d.exposure
  BY <1>2, <1>3, MovedBooks
<1> HIDE DEF m
<1>7. Still(m, e) /\ Lined(d, e, r, line) /\ e.charge = d.charge
  BY <1>2, <1>6, AppendedBooks
<1> HIDE DEF e
<1>8. HeldShift(d, e, g, units) /\ ChargeShift(d, e, g, 0)
  BY <1>2, <1>4, <1>7, LinedShift, NoShift
<1>9. Moves(d, e, g, 0, units, 0)
  BY <1>6, <1>7 DEF Moves, Still
<1>10. e.exposure.reserved = Plus(d.exposure.reserved, Postpaid, g, units)
  <2>1. d.exposure.reserved \in Nat /\ g # Postpaid
    BY <1>2, FundingAssumption DEF Ledger
  <2> QED
    BY <1>6, <1>7, <2>1 DEF Still, Plus
<1>11. \A k \in Grants : Unrestored(e, k) => Unrestored(d, k)
  BY <1>7 DEF Unrestored
<1> DEFINE q == tx.left - units
<1>12. q \in Int /\ Balanced(e, g, units, 0, 0, units, 0, 0, tx.left, q)
  BY <1>2, <1>3 DEF Balanced
<1>13. e.exposure.settled = d.exposure.settled + 0
  BY <1>2, <1>6, <1>7 DEF Still, Ledger
<1> HIDE DEF q
<1>14. e \in Ledger => Books(e) /\ CapKept(e, q)
  BY <1>2, <1>3, <1>8, <1>9, <1>10, <1>11, <1>12, <1>13, BooksShift
<1> QED
  BY <1>1, <1>5, <1>14, KeepsBooks DEF q

(* The planner's postpaid line.                                              *)
LEMMA HoldPostpaidBooks ==
  ASSUME FInv, FInv', BooksInv, HoldPostpaid
  PROVE  BooksInv'
<1> DEFINE d == tx.draft
           r == tx.reservation
           units == tx.left
           m == Exposed(d, units, 0)
           line == NewLine(Postpaid, units)
           e == Appended(m, r, line)
<1>1. tx # NoTx /\ tx.stage = "fund" /\ Proceed(e, 0, "fund")
  BY DEF HoldPostpaid
<1>2. /\ d \in Ledger /\ r \in Reservations /\ Postpaid \in Sources /\ Books(d)
      /\ units \in Nat /\ CapKept(d, units)
  BY <1>1, Opened DEF BooksInv, Sources, Asked
<1>3. line \in Line /\ line.source = Postpaid /\ Remaining(line) = units
  BY <1>2 DEF NewLine, Line, Remaining
<1>4. tx'.draft = e /\ UNCHANGED ledger /\ Asked(tx') = 0
  BY <1>1, NextTx, NextAsked
<1> HIDE DEF d, r, units, line
<1>5. /\ Frame(d, m) /\ Moves(d, m, Postpaid, 0, 0, 0)
      /\ m.exposure.reserved = d.exposure.reserved + units
      /\ m.exposure.settled = d.exposure.settled + 0
  <2> DEFINE none == 0
  <2>1. units \in Int /\ none \in Int /\ d \in Ledger
    BY <1>2
  <2>2. m = Exposed(d, units, none)
    OBVIOUS
  <2> HIDE DEF none, m
  <2>3. /\ Frame(d, m) /\ Moves(d, m, Postpaid, 0, 0, 0)
        /\ m.exposure.reserved = d.exposure.reserved + units
        /\ m.exposure.settled = d.exposure.settled + none
    BY <2>1, <2>2, ExposedBooks
  <2> QED
    BY <2>3 DEF none
<1> HIDE DEF m
<1>6. Still(m, e) /\ Lined(d, e, r, line) /\ e.charge = d.charge
  BY <1>2, <1>5, AppendedBooks
<1> HIDE DEF e
<1>7. HeldShift(d, e, Postpaid, units) /\ ChargeShift(d, e, Postpaid, 0)
  BY <1>2, <1>3, <1>6, LinedShift, NoShift
<1>8. Moves(d, e, Postpaid, 0, 0, 0)
  BY <1>5, <1>6 DEF Moves, Still
<1>9. e.exposure.reserved = Plus(d.exposure.reserved, Postpaid, Postpaid, units)
  BY <1>5, <1>6 DEF Still, Plus
<1>10. \A k \in Grants : Unrestored(e, k) => Unrestored(d, k)
  BY <1>6 DEF Unrestored
<1>11. Postpaid \notin Grants
  BY FundingAssumption
<1>12. Balanced(e, Postpaid, units, 0, 0, 0, 0, 0, units, 0)
  BY <1>2 DEF Balanced
<1>13. e.exposure.settled = d.exposure.settled + 0
  BY <1>5, <1>6 DEF Still
<1>14. e \in Ledger => Books(e) /\ CapKept(e, 0)
  BY <1>2, <1>7, <1>8, <1>9, <1>10, <1>11, <1>12, <1>13, BooksShift
<1> QED
  BY <1>1, <1>4, <1>14, KeepsBooks

(* A line is released: its units leave the hold, and expire with a grant that *)
(* has expired.                                                            *)
LEMMA ReleaseBooks ==
  ASSUME FInv, FInv', BooksInv, tx # NoTx,
         NEW i \in DOMAIN tx.draft.lines[tx.reservation], ReleaseLine(i)
  PROVE  BooksInv'
<1> DEFINE d == tx.draft
           r == tx.reservation
           s == d.lines[r][i].source
           units == Remaining(d.lines[r][i])
<1>1. /\ d \in Ledger /\ r \in Reservations /\ Books(d) /\ i \in DOMAIN d.lines[r]
      /\ tx.stage = "release" /\ CapKept(d, 0)
  BY Opened DEF BooksInv, ReleaseLine, Asked
<1>2. s \in Sources /\ units \in Nat /\ i \in Unused(d.lines[r])
  <2>1. i \in Unused(d.lines[r])
    BY DEF ReleaseLine, NextUnused
  <2>2. d.lines[r] \in Seq(Line)
    BY <1>1 DEF Ledger
  <2>3. d.lines[r][i] \in Line
    BY <1>1, <2>2, LenProperties, ElementOfSeq
  <2> QED
    BY SMTT(40), <2>1, <2>3, Arithmetic DEF Unused, Line
<1>3. ASSUME NEW m, Proceed(MarkReleased(m, r, i), tx.left, "release"), Frame(d, m),
             NEW b \in Int, NEW h \in Int, NEW x \in Int, Moves(d, m, s, b, h, x),
             b + x = 0, s \in Grants => h = -units,
             m.exposure.settled = d.exposure.settled + 0,
             m.exposure.reserved = Plus(d.exposure.reserved, Postpaid, s, -units)
      PROVE  BooksInv'
  <2> DEFINE e == MarkReleased(m, r, i)
  <2>1. tx'.draft = e /\ UNCHANGED ledger /\ Asked(tx') = 0
    BY <1>3, NextTx, NextAsked
  <2> HIDE DEF d, r, s, units
  <2>2. Still(m, e) /\ Relined(d, e, r, i, -units) /\ e.charge = d.charge
    BY <1>1, <1>3, MarkedBooks DEF units
  <2> HIDE DEF e
  <2>3. HeldShift(d, e, s, -units) /\ ChargeShift(d, e, s, 0)
    BY <1>1, <1>2, <2>2, RelinedShift, NoShift DEF s
  <2>4. /\ Moves(d, e, s, b, h, x)
        /\ e.exposure.reserved = Plus(d.exposure.reserved, Postpaid, s, -units)
        /\ e.exposure.settled = d.exposure.settled + 0
    BY <1>3, <2>2 DEF Moves, Still
  <2>5. \A k \in Grants : Unrestored(e, k) => Unrestored(d, k)
    BY <2>2 DEF Unrestored
  <2>6. -units \in Int /\ Balanced(e, s, -units, 0, b, h, x, 0, 0, 0)
    BY <1>2, <1>3 DEF Balanced, Sources
  <2>7. e \in Ledger => Books(e) /\ CapKept(e, 0)
    <3>1. b \in Int /\ h \in Int /\ x \in Int /\ 0 \in Int
      BY <1>3
    <3> QED
      BY <1>1, <1>2, <2>3, <2>4, <2>5, <2>6, <3>1, BooksShift
  <2> USE DEF d
  <2> QED
    BY <2>1, <2>7, KeepsBooks
<1>4. d.exposure.reserved \in Nat /\ d.exposure.settled \in Nat /\ Postpaid \notin Grants
  BY <1>1, FundingAssumption DEF Ledger
<1>5. CASE /\ s = Postpaid
           /\ Proceed(MarkReleased(ReleasePostpaid(d, units), r, i), tx.left, "release")
  <2> HIDE DEF d, r, s, units
  <2>1. -units \in Int /\ 0 \in Int
    BY <1>2
  <2> DEFINE m == ReleasePostpaid(d, units)
  <2>2. /\ Frame(d, m) /\ Moves(d, m, s, 0, 0, 0)
        /\ m.exposure.reserved = d.exposure.reserved + -units
        /\ m.exposure.settled = d.exposure.settled + 0
    BY <1>1, <1>5, <2>1, ExposedBooks DEF ReleasePostpaid
  <2> HIDE DEF m
  <2>3. m.exposure.reserved = Plus(d.exposure.reserved, Postpaid, s, -units)
    BY <1>5, <2>2 DEF Plus
  <2> QED
    BY <1>3, <1>4, <1>5, <2>1, <2>2, <2>3 DEF m
<1>6. CASE /\ s # Postpaid
           /\ Proceed(MarkReleased(ReleaseCredits(d, s, units), r, i), tx.left, "release")
  <2> HIDE DEF d, r, s, units
  <2> DEFINE m == ReleaseCredits(d, s, units)
  <2>1. s \in Grants
    BY <1>2, <1>6 DEF Sources
  <2>2. /\ Frame(d, m) /\ m.exposure = d.exposure
        /\ \E b \in Int : \E x \in Int : b + x = 0 /\ Moves(d, m, s, b, -units, x)
    BY <1>1, <1>2, <2>1, ReleaseCreditsBooks
  <2> HIDE DEF m
  <2>3. PICK b \in Int : \E x \in Int : b + x = 0 /\ Moves(d, m, s, b, -units, x)
    BY <2>2
  <2>4. PICK x \in Int : b + x = 0 /\ Moves(d, m, s, b, -units, x)
    BY <2>3
  <2>5. /\ m.exposure.reserved = Plus(d.exposure.reserved, Postpaid, s, -units)
        /\ m.exposure.settled = d.exposure.settled + 0
    BY <1>4, <1>6, <2>2 DEF Plus
  <2>6. Proceed(MarkReleased(m, r, i), tx.left, "release") /\ -units \in Int
    BY <1>2, <1>6 DEF m
  <2> QED
    BY <1>3, <2>2, <2>4, <2>5, <2>6
<1> QED
  BY <1>5, <1>6 DEF ReleaseLine

(* A line is charged: what leaves its hold is in the journal.                *)
LEMMA ConsumeBooks ==
  ASSUME FInv, FInv', ExpiryInv, BooksInv, tx # NoTx,
         NEW i \in DOMAIN tx.draft.lines[tx.reservation], ConsumeLine(i)
  PROVE  BooksInv'
<1> DEFINE d == tx.draft
           r == tx.reservation
           n == tx.event
           line == d.lines[r][i]
           s == line.source
           units == SmallerOf(Remaining(line), tx.left)
           left == tx.left - units
           next == IF left = 0 THEN AfterCharge(tx.finalize) ELSE "consume"
<1>1. /\ d \in Ledger /\ r \in Reservations /\ Books(d) /\ i \in DOMAIN d.lines[r]
      /\ tx.stage = "consume" /\ tx.left \in Nat /\ n \in Events
      /\ CapKept(d, 0)
  BY Opened DEF BooksInv, ConsumeLine, Asked
<1>2. s \in Sources /\ units \in Nat
  <2>1. i \in Unused(d.lines[r])
    BY DEF ConsumeLine, NextUnused
  <2>2. d.lines[r] \in Seq(Line)
    BY <1>1 DEF Ledger
  <2>3. d.lines[r][i] \in Line
    BY <1>1, <2>2, LenProperties, ElementOfSeq
  <2>4. Remaining(line) \in Nat
    BY <2>1, <2>3, Arithmetic DEF Unused
  <2> QED
    BY <1>1, <2>3, <2>4, Arithmetic DEF Line
<1>3. d.charge[n][s] >= 0
  BY <1>1, <1>2 DEF ExpiryInv, PendingWithin
<1>8. next # "fund"
  BY DEF AfterCharge
<1> HIDE DEF units, left, next
<1>4. ASSUME NEW m, Proceed(Spend(m, r, i, s, units), left, next), Frame(d, m),
             NEW b \in Int, NEW h \in Int, Moves(d, m, s, b, h, 0),
             NEW p \in Int, m.exposure.settled = d.exposure.settled + p,
             IF s = Postpaid THEN p = units ELSE p = 0 /\ b = -units /\ h = -units,
             m.exposure.reserved = Plus(d.exposure.reserved, Postpaid, s, -units)
      PROVE  BooksInv'
  <2> DEFINE e == Spend(m, r, i, s, units)
  <2>1. tx'.draft = e /\ UNCHANGED ledger /\ Asked(tx') = 0
    BY <1>4, <1>8, NextTx, NextAsked
  <2> HIDE DEF d, r, s, line
  <2>2. Still(m, e) /\ Relined(d, e, r, i, -units) /\ Charges(d, e, n, s, units)
    BY <1>1, <1>2, <1>4, SpentBooks
  <2> HIDE DEF e, n
  <2>3. -units \in Int /\ units \in Int
    BY <1>2
  <2>4. HeldShift(d, e, s, -units)
    BY <1>1, <1>2, <2>2, <2>3, RelinedShift DEF s, line
  <2>5. ChargeShift(d, e, s, units)
    BY <1>1, <1>2, <2>2, <2>3, ChargesShift
  <2>6. /\ Moves(d, e, s, b, h, 0)
        /\ e.exposure.reserved = Plus(d.exposure.reserved, Postpaid, s, -units)
        /\ e.exposure.settled = d.exposure.settled + p
    BY <1>4, <2>2 DEF Moves, Still
  <2>7. \A k \in Grants : Unrestored(e, k) => Unrestored(d, k)
    <3>1. d.charge \in [Events -> [Sources -> Int]]
      BY <1>1 DEF Ledger
    <3> QED
      BY <1>1, <1>2, <1>3, <2>2, <2>3, <3>1, UnrestoredKept
  <2>8. Balanced(e, s, -units, units, b, h, 0, p, 0, 0)
    BY <1>2, <1>4 DEF Balanced, Sources
  <2>9. e \in Ledger => Books(e) /\ CapKept(e, 0)
    BY <1>1, <1>2, <1>4, <2>3, <2>4, <2>5, <2>6, <2>7, <2>8, BooksShift
  <2> USE DEF d
  <2> QED
    BY <2>1, <2>9, KeepsBooks
<1>5. d.exposure.reserved \in Nat /\ d.exposure.settled \in Nat /\ Postpaid \notin Grants
  BY <1>1, FundingAssumption DEF Ledger
<1>6. CASE /\ s = Postpaid
           /\ Proceed(Spend(SettlePostpaid(d, units), r, i, s, units), left, next)
  <2> HIDE DEF d, r, s, line
  <2>1. -units \in Int /\ units \in Int /\ 0 \in Int
    BY <1>2
  <2> DEFINE m == SettlePostpaid(d, units)
  <2>2. /\ Frame(d, m) /\ Moves(d, m, s, 0, 0, 0)
        /\ m.exposure.reserved = d.exposure.reserved + -units
        /\ m.exposure.settled = d.exposure.settled + units
    BY <1>1, <1>6, <2>1, ExposedBooks DEF SettlePostpaid
  <2> HIDE DEF m
  <2>3. m.exposure.reserved = Plus(d.exposure.reserved, Postpaid, s, -units)
    BY <1>6, <2>2 DEF Plus
  <2> QED
    BY <1>4, <1>5, <1>6, <2>1, <2>2, <2>3 DEF m
<1>7. CASE /\ s # Postpaid
           /\ Proceed(Spend(ConsumeCredits(d, s, units), r, i, s, units), left, next)
  <2> HIDE DEF d, r, s, line
  <2> DEFINE m == ConsumeCredits(d, s, units)
  <2>1. s \in Grants /\ -units \in Int
    BY <1>2, <1>7 DEF Sources
  <2>2. Frame(d, m) /\ m.exposure = d.exposure /\ Moves(d, m, s, -units, -units, 0)
    BY <1>1, <2>1, MovedBooks DEF ConsumeCredits
  <2> HIDE DEF m
  <2>3. /\ m.exposure.reserved = Plus(d.exposure.reserved, Postpaid, s, -units)
        /\ m.exposure.settled = d.exposure.settled + 0
    BY <1>5, <1>7, <2>2 DEF Plus
  <2>4. Proceed(Spend(m, r, i, s, units), left, next)
    BY <1>7 DEF m
  <2>5. 0 \in Int /\ s # Postpaid
    BY <1>7
  <2> QED
    BY <1>4, <2>1, <2>2, <2>3, <2>4, <2>5
<1> QED
  BY <1>6, <1>7 DEF ConsumeLine, units, left, next

(* An overrun's line is used up when it is written.                          *)
LEMMA OverrunBooks ==
  ASSUME FInv, FInv', ExpiryInv, BooksInv, Overrun
  PROVE  BooksInv'
<1> DEFINE d == tx.draft
           r == tx.reservation
           n == tx.event
           units == tx.left
           line == [NewLine(Postpaid, units) EXCEPT !.consumed = units]
           a == Appended(d, r, line)
           m == Exposed(a, 0, units)
           e == Posted(m, Postpaid, units)
<1>1. tx # NoTx /\ tx.stage = "consume" /\ Proceed(e, 0, AfterCharge(tx.finalize))
  BY DEF Overrun
<1>2. /\ d \in Ledger /\ r \in Reservations /\ Postpaid \in Sources /\ Books(d)
      /\ units \in Nat /\ n \in Events /\ Sound(d)
  BY <1>1, Opened DEF BooksInv, Sources
<1>3. line \in Line /\ line.source = Postpaid /\ Remaining(line) = 0
  BY <1>2 DEF NewLine, Line, Remaining
<1>4. tx'.draft = e /\ UNCHANGED ledger /\ Asked(tx') = 0
  BY <1>1, NextTx, NextAsked DEF AfterCharge
<1>16. CapKept(d, units)
  BY DEF Overrun, CycleAllows, CapKept
<1>5. d.charge[n][Postpaid] >= 0
  BY <1>1, <1>2 DEF ExpiryInv, PendingWithin
<1> HIDE DEF d, r, units, line, n
<1>6. Still(d, a) /\ Lined(d, a, r, line) /\ a.charge = d.charge /\ a \in Ledger
  <2>1. Frame(d, d)
    BY DEF Frame, Alike
  <2>2. a \in Ledger
    BY <1>2, <1>3, AppendedSound DEF Sound
  <2> QED
    BY <1>2, <2>1, <2>2, AppendedBooks
<1> HIDE DEF a
<1>7. /\ e.lines = a.lines /\ Charges(a, e, n, Postpaid, units)
      /\ e.balance = a.balance /\ e.held = a.held /\ e.expired = a.expired
      /\ e.exposure.reserved = a.exposure.reserved + 0
      /\ e.exposure.settled = a.exposure.settled + units
  BY <1>6 DEF Posted, Exposed, Charges, Ledger, n
<1> HIDE DEF e
<1>8. HeldShift(d, a, Postpaid, 0)
  BY <1>2, <1>3, <1>6, LinedShift
<1>9. HeldShift(d, e, Postpaid, 0)
  <2>1. \A S : HeldBy(e, Reservations, S) = HeldBy(a, Reservations, S)
    BY <1>7 DEF HeldBy, LinesOn
  <2> QED
    BY <1>8, <2>1 DEF HeldShift
<1>10. Charges(d, e, n, Postpaid, units)
  BY <1>6, <1>7 DEF Charges
<1>11. ChargeShift(d, e, Postpaid, units)
  BY <1>2, <1>10, ChargesShift
<1>12. d.exposure.reserved \in Nat /\ Postpaid \notin Grants
       /\ d.charge \in [Events -> [Sources -> Int]]
       /\ \A k \in Grants : d.balance[k] \in Nat /\ d.held[k] \in Nat /\ d.expired[k] \in Nat
  BY <1>2, FundingAssumption DEF Ledger
<1>13. Moves(d, e, Postpaid, 0, 0, 0)
  BY <1>6, <1>7, <1>12 DEF Moves, Plus, Still
<1>14. /\ e.exposure.reserved = Plus(d.exposure.reserved, Postpaid, Postpaid, 0)
       /\ e.exposure.settled = d.exposure.settled + units
  BY <1>6, <1>7 DEF Still, Plus
<1>15. \A k \in Grants : Unrestored(e, k) => Unrestored(d, k)
  BY <1>2, <1>5, <1>10, <1>12, UnrestoredKept
<1>17. Balanced(e, Postpaid, 0, units, 0, 0, 0, units, units, 0)
  BY <1>2 DEF Balanced
<1>18. e \in Ledger => Books(e) /\ CapKept(e, 0)
  BY <1>2, <1>9, <1>11, <1>12, <1>13, <1>14, <1>15, <1>16, <1>17, BooksShift
<1> USE DEF d
<1> QED
  BY <1>1, <1>4, <1>18, KeepsBooks

(* Restored credits are in the position again and no longer in the journal.   *)
LEMMA RestoreBooks ==
  ASSUME FInv, FInv', ExpiryInv, BooksInv, tx # NoTx, NEW g \in Grants,
         NEW units \in 1..tx.left,
         NEW i \in DOMAIN tx.draft.lines[tx.reservation],
         RestoreCredits(g, i, units)
  PROVE  BooksInv'
<1> DEFINE d == tx.draft
           r == tx.reservation
           n == tx.event
           m == Moved(d, g, units, 0)
           e == Spend(m, r, i, g, -units)
<1>1. /\ d \in Ledger /\ r \in Reservations /\ Books(d) /\ i \in DOMAIN d.lines[r]
      /\ tx.stage = "reverse" /\ tx.left \in Nat /\ n \in Events
      /\ d.lines[r][i].source = g /\ NextReversal(e, g, units)
      /\ CapKept(d, 0)
  BY Opened DEF BooksInv, RestoreCredits, Asked
<1>2. /\ g \in Sources /\ g # Postpaid /\ units \in Int /\ -units \in Int /\ units > 0
      /\ -(-units) = units
  BY <1>1, FundingAssumption DEF Sources
<1>3. d.charge[n][g] <= 0
  BY <1>1, <1>2 DEF ExpiryInv, PendingWithin
<1>4. tx'.draft = e /\ UNCHANGED ledger /\ Asked(tx') = 0
  BY <1>1, NextTx, NextAsked
<1> HIDE DEF d, r
<1>5. Frame(d, m) /\ Moves(d, m, g, units, 0, 0) /\ m.exposure = d.exposure
  BY SMTT(40), <1>1, <1>2, MovedBooks
<1> HIDE DEF m
<1>6. Still(m, e) /\ Relined(d, e, r, i, units) /\ Charges(d, e, n, g, -units)
  <2>1. Still(m, e) /\ Relined(d, e, r, i, -(-units)) /\ Charges(d, e, n, g, -units)
    BY <1>1, <1>2, <1>5, SpentBooks
  <2> QED
    BY <1>2, <2>1
<1> HIDE DEF e, n
<1>7. HeldShift(d, e, g, units)
  BY <1>1, <1>2, <1>6, RelinedShift
<1>8. ChargeShift(d, e, g, -units)
  BY <1>1, <1>2, <1>6, ChargesShift
<1>9. Moves(d, e, g, units, 0, 0)
  BY <1>5, <1>6 DEF Moves, Still
<1>10. d.exposure.reserved \in Nat /\ d.exposure.settled \in Nat /\ d.charge \in [Events -> [Sources -> Int]]
  BY <1>1 DEF Ledger
<1>11. /\ e.exposure.reserved = Plus(d.exposure.reserved, Postpaid, g, units)
       /\ e.exposure.settled = d.exposure.settled + 0
  BY <1>2, <1>5, <1>6, <1>10 DEF Still, Plus
<1>12. \A k \in Grants : Unrestored(e, k) => Unrestored(d, k)
  <2>1. -units >= 0 => d.charge[n][g] >= 0
    BY <1>2
  <2> QED
    BY <1>1, <1>2, <1>6, <1>10, <2>1, UnrestoredKept
<1>13. ~Unrestored(e, g)
  <2>1. e.charge[n][g] = d.charge[n][g] + -units /\ d.charge[n][g] \in Int
    BY <1>1, <1>2, <1>6, <1>10 DEF Charges
  <2>2. ~(e.charge[n][g] >= 0)
    BY <1>2, <1>3, <2>1
  <2> QED
    BY <1>1, <2>2 DEF Unrestored
<1>14. Balanced(e, g, units, -units, units, 0, 0, 0, 0, 0)
  BY <1>2, <1>13 DEF Balanced
<1>15. e \in Ledger => Books(e) /\ CapKept(e, 0)
  BY <1>1, <1>2, <1>7, <1>8, <1>9, <1>11, <1>12, <1>13, <1>14, BooksShift
<1> USE DEF d
<1> QED
  BY <1>4, <1>15, KeepsBooks

(* What is forfeited was charged and stays charged.                          *)
LEMMA ForfeitBooks ==
  ASSUME FInv, FInv', BooksInv, tx # NoTx, NEW g \in Grants, NEW units \in 1..tx.left,
         ForfeitCredits(g, units)
  PROVE  BooksInv'
<1> DEFINE d == tx.draft
           e == [d EXCEPT !.forfeited[tx.event] = @ + units]
<1>1. /\ NextReversal(e, g, units) /\ d \in Ledger /\ Books(d)
      /\ tx.stage = "reverse" /\ CapKept(d, 0)
  BY Opened DEF ForfeitCredits, BooksInv, Asked
<1>2. Still(d, e) /\ e.lines = d.lines /\ e.charge = d.charge
  BY <1>1 DEF Still, Ledger
<1>3. tx'.draft = e /\ UNCHANGED ledger /\ Asked(tx') = 0
  BY <1>1, NextTx, NextAsked
<1> HIDE DEF e
<1>4. Books(e) /\ CapKept(e, 0)
  BY <1>1, <1>2, SameBooks
<1> QED
  BY <1>3, <1>4, KeepsBooks

(* A postpaid correction is no change of the grants.                         *)
LEMMA RepayBooks ==
  ASSUME FInv, FInv', ExpiryInv, BooksInv, tx # NoTx, NEW units \in 1..tx.left,
         ReversePostpaid(units)
  PROVE  BooksInv'
<1> DEFINE d == tx.draft
           n == tx.event
           repaid == SmallerOf(d.exposure.settled, units)
           m == Exposed(d, 0, -repaid)
           e == Posted(m, Postpaid, -units)
<1>1. /\ d \in Ledger /\ Books(d) /\ tx.stage = "reverse" /\ tx.left \in Nat
      /\ n \in Events /\ NextReversal(e, Postpaid, units)
      /\ CapKept(d, 0)
  BY Opened DEF BooksInv, ReversePostpaid, Asked
<1>2. /\ Postpaid \in Sources /\ Postpaid \notin Grants
      /\ units \in Int /\ -units \in Int /\ ~(-units >= 0)
  BY <1>1, FundingAssumption DEF Sources
<1>3. tx'.draft = e /\ UNCHANGED ledger /\ Asked(tx') = 0
  BY <1>1, NextTx, NextAsked
<1>4. -repaid \in Int /\ 0 \in Int /\ -repaid <= 0 /\ -repaid >= -units
  BY <1>1, <1>2 DEF SmallerOf, Ledger
<1> HIDE DEF d, repaid
<1>5. /\ Frame(d, m) /\ Moves(d, m, Postpaid, 0, 0, 0)
      /\ m.exposure.reserved = d.exposure.reserved + 0
      /\ m.exposure.settled = d.exposure.settled + -repaid
  BY <1>1, <1>4, ExposedBooks
<1> HIDE DEF m
<1>6. Still(m, e) /\ e.lines = d.lines /\ Charges(d, e, n, Postpaid, -units)
  <2>1. {"balance", "held", "expired", "exposure", "lines", "charge"} \subseteq DOMAIN m
    BY <1>1, <1>5 DEF Frame, Ledger
  <2> QED
    BY <1>5, <2>1 DEF Posted, Still, Charges, Frame, Alike
<1> HIDE DEF e, n
<1>7. HeldShift(d, e, Postpaid, 0)
  BY <1>1, <1>6, NoShift
<1>8. ChargeShift(d, e, Postpaid, -units)
  BY <1>1, <1>2, <1>6, ChargesShift
<1>9. Moves(d, e, Postpaid, 0, 0, 0)
  BY <1>5, <1>6 DEF Moves, Still
<1>10. /\ e.exposure.reserved = Plus(d.exposure.reserved, Postpaid, Postpaid, 0)
       /\ e.exposure.settled = d.exposure.settled + -repaid
  BY <1>5, <1>6 DEF Still, Plus
<1>11. \A k \in Grants : Unrestored(e, k) => Unrestored(d, k)
  <2>1. d.charge \in [Events -> [Sources -> Int]]
    BY <1>1 DEF Ledger
  <2> QED
    BY <1>1, <1>2, <1>6, <2>1, UnrestoredKept
<1>12. Balanced(e, Postpaid, 0, -units, 0, 0, 0, -repaid, 0, 0)
  BY <1>4 DEF Balanced
<1>13. e \in Ledger => Books(e) /\ CapKept(e, 0)
  BY <1>1, <1>2, <1>4, <1>7, <1>8, <1>9, <1>10, <1>11, <1>12, BooksShift
<1> USE DEF d
<1> QED
  BY <1>3, <1>13, KeepsBooks

(* The end of a reversal asks for nothing more.                              *)
LEMMA EndBooks ==
  ASSUME FInv, FInv', BooksInv, EndReversal
  PROVE  BooksInv'
<1>1. tx # NoTx /\ Proceed(tx.draft, 0, AfterCharge(tx.finalize))
  BY DEF EndReversal
<1>2. /\ tx'.draft = tx.draft /\ UNCHANGED ledger /\ Books(tx.draft)
      /\ CapKept(tx.draft, 0) /\ Asked(tx') = 0
  BY <1>1, NextTx, NextAsked DEF BooksInv, Asked, EndReversal, AfterCharge
<1> QED
  BY <1>1, <1>2, KeepsBooks

(* Writing the reservation changes neither lines nor positions.              *)
LEMMA UpdatedBooks ==
  ASSUME NEW d \in Ledger, Books(d), CapKept(d, 0), NEW r, NEW status, NEW until, NEW n
  PROVE  /\ Books(Updated(d, r, status, until))
         /\ CapKept(Updated(d, r, status, until), 0)
         /\ Books(Recorded(Updated(d, r, status, until), n))
         /\ CapKept(Recorded(Updated(d, r, status, until), n), 0)
<1> DEFINE e == Updated(d, r, status, until)
           m == Recorded(e, n)
<1>1. Still(d, e) /\ e.lines = d.lines /\ e.charge = d.charge
  BY DEF Updated, Still, Ledger
<1>2. Still(d, m) /\ m.lines = d.lines /\ m.charge = d.charge
  BY DEF Recorded, Updated, Still, Ledger
<1> HIDE DEF e, m
<1>3. Books(e) /\ CapKept(e, 0) /\ Books(m) /\ CapKept(m, 0)
  BY <1>1, <1>2, SameBooks
<1> QED
  BY <1>3 DEF e, m

(* The commits.                                                              *)
LEMMA CommitBooks ==
  ASSUME FInv, BooksInv, CommitFunding \/ CommitRelease \/ CommitSettle
  PROVE  BooksInv'
<1>1. tx # NoTx
  BY DEF CommitFunding, CommitRelease, CommitSettle
<1>2. tx.draft \in Ledger /\ Books(tx.draft) /\ CapKept(tx.draft, 0)
  BY <1>1, Opened DEF BooksInv, Asked, CommitFunding, CommitRelease, CommitSettle
<1>3. CASE CommitFunding
  BY <1>2, <1>3, UpdatedBooks, CommitsBooks DEF CommitFunding
<1>4. CASE CommitRelease
  BY <1>2, <1>4, UpdatedBooks, CommitsBooks DEF CommitRelease
<1>5. CASE CommitSettle
  BY <1>2, <1>5, UpdatedBooks, CommitsBooks DEF CommitSettle
<1> QED
  BY <1>3, <1>4, <1>5

(* A command starts from the committed tables.                               *)
LEMMA BeginBooks ==
  ASSUME FInv, BooksInv, Begin
  PROVE  BooksInv'
<1>1. ledger \in Ledger /\ Books(ledger) /\ CapKept(ledger, 0)
  BY DEF FInv, Sound, BooksInv
<1>3. ASSUME tx'.draft = ledger, UNCHANGED ledger, CapKept(ledger, Asked(tx'))
      PROVE  BooksInv'
  BY <1>1, <1>3 DEF BooksInv
<1>4. ASSUME NEW r, NEW units, NEW until, NEW now,
             BeginReserve(r, units, until, now) \/ BeginExtend(r, units, until, now)
      PROVE  BooksInv'
  <2>1. CycleAllows(ledger, units) /\ UNCHANGED ledger
    BY <1>4 DEF BeginReserve, BeginExtend
  <2>2. tx'.draft = ledger /\ Asked(tx') = units
    BY <1>4 DEF BeginReserve, BeginExtend, Began, Asked
  <2>3. CapKept(ledger, units)
    BY <2>1 DEF CycleAllows, CapKept
  <2> QED
    BY <1>3, <2>1, <2>2, <2>3
<1>5. ASSUME NEW r, NEW now, BeginRelease(r, now) PROVE BooksInv'
  <2>1. tx'.draft = ledger /\ Asked(tx') = 0 /\ UNCHANGED ledger
    BY <1>5 DEF BeginRelease, Began, Asked
  <2> QED
    BY <1>1, <1>3, <2>1
<1>6. ASSUME NEW e, NEW finalize, NEW now, BeginSettle(e, finalize, now) PROVE BooksInv'
  <2>1. tx'.draft = ledger /\ UNCHANGED ledger /\ Asked(tx') = 0
    BY <1>6 DEF BeginSettle, Began, Asked, AfterCharge
  <2> QED
    BY <1>1, <1>3, <2>1
<1> QED
  BY <1>4, <1>5, <1>6 DEF Begin

(* Events are recorded and grants expire: what leaves a position expires.    *)
LEMMA OutsideBooks ==
  ASSUME FInv, FInv', BooksInv,
         \/ \E e \in Events, units \in 0..MaxUnits, at \in Instants :
              RecordEvent(e, units, at)
         \/ \E g \in Grants : ExpireGrant(g)
  PROVE  BooksInv'
<1>1. ledger \in Ledger /\ ledger' \in Ledger /\ Books(ledger)
      /\ CapKept(ledger, 0)
  BY DEF FInv, Sound, BooksInv
<1>2. ASSUME NEW e \in Events, NEW units, NEW at, RecordEvent(e, units, at)
      PROVE  BooksInv'
  <2>1. tx = NoTx /\ tx' = NoTx /\ Still(ledger, ledger')
        /\ ledger'.lines = ledger.lines /\ ledger'.charge = ledger.charge
    BY <1>1, <1>2 DEF RecordEvent, Still, Ledger
  <2> QED
    BY <1>1, <2>1, SameBooks DEF BooksInv
<1>3. ASSUME NEW g \in Grants, ExpireGrant(g)
      PROVE  BooksInv'
  <2> DEFINE available == ledger.balance[g] - ledger.held[g]
             m == Moved(ledger, g, -available, 0)
  <2>1. /\ tx = NoTx /\ tx' = tx
        /\ ledger' = [m EXCEPT !.expired[g] = @ + available,
                               !.active[g] = FALSE, !.swept[g] = TRUE]
    BY <1>3, Zenon DEF ExpireGrant
  <2>0. available \in Int /\ g \in Sources /\ g # Postpaid
    <3>1. ledger.balance[g] \in Nat /\ ledger.held[g] \in Nat
      BY <1>1 DEF Ledger
    <3>2. g \in Sources /\ g # Postpaid
      BY FundingAssumption DEF Sources
    <3> QED
      BY <3>1, <3>2
  <2> HIDE DEF available
  <2>2. /\ available \in Int /\ -available \in Int /\ 0 \in Int
        /\ g \in Sources /\ g # Postpaid
        /\ Balanced(ledger', g, 0, 0, -available, 0, available, 0, 0, 0)
    BY <2>0 DEF Balanced
  <2>3. /\ Frame(ledger, m) /\ Moves(ledger, m, g, -available, 0, 0)
        /\ m.exposure = ledger.exposure /\ m.expired = ledger.expired
    <3>1. m.expired = ledger.expired
      BY <1>1 DEF Moved, Ledger
    <3> HIDE DEF m
    <3> QED
      BY <1>1, <2>2, <3>1, MovedBooks DEF m
  <2> HIDE DEF m
  <2>4. {"balance", "held", "expired", "active", "swept", "exposure", "lines",
         "charge"} \subseteq DOMAIN m
    BY <1>1, <2>3 DEF Frame, Ledger
  <2>5. /\ ledger'.lines = ledger.lines /\ ledger'.charge = ledger.charge
        /\ ledger'.balance = m.balance /\ ledger'.held = m.held
        /\ ledger'.exposure = ledger.exposure
        /\ ledger'.expired = [ledger.expired EXCEPT ![g] = @ + available]
    BY <2>1, <2>3, <2>4 DEF Frame, Alike
  <2>6. ledger.expired \in [Grants -> Nat] /\ ledger.exposure.reserved \in Nat
        /\ ledger.exposure.settled \in Nat
    BY <1>1 DEF Ledger
  <2>7. Moves(ledger, ledger', g, -available, 0, available)
    BY <2>2, <2>3, <2>5, <2>6 DEF Moves, Plus
  <2>8. /\ ledger'.exposure.reserved = Plus(ledger.exposure.reserved, Postpaid, g, 0)
        /\ ledger'.exposure.settled = ledger.exposure.settled + 0
    BY <2>5, <2>6 DEF Plus
  <2>9. HeldShift(ledger, ledger', g, 0) /\ ChargeShift(ledger, ledger', g, 0)
    BY <1>1, <2>5, NoShift
  <2>10. \A k \in Grants : Unrestored(ledger', k) => Unrestored(ledger, k)
    BY <2>5 DEF Unrestored
  <2>11. Books(ledger') /\ CapKept(ledger', 0)
    BY <1>1, <2>2, <2>7, <2>8, <2>9, <2>10, BooksShift
  <2> QED
    BY <2>1, <2>11 DEF BooksInv
<1> QED
  BY <1>2, <1>3

(* Nothing is held or charged at first.                                      *)
LEMMA InitialBooks == FundingInit => BooksInv
<1> SUFFICES ASSUME FundingInit PROVE Books(ledger) /\ CapKept(ledger, 0) /\ tx = NoTx
  BY DEF BooksInv
<1>1. /\ ledger.balance = Granted /\ ledger.exposure = [reserved |-> 0, settled |-> 0]
      /\ \A g \in Grants : ledger.held[g] = 0 /\ ledger.expired[g] = 0
      /\ \A r \in Reservations : ledger.lines[r] = <<>>
      /\ \A n \in Events, s \in Sources : ledger.charge[n][s] = 0
      /\ tx = NoTx
  BY DEF FundingInit
<1>2. ASSUME NEW S
      PROVE  HeldBy(ledger, Reservations, S) = 0
  <2>1. LinesOn(ledger, Reservations, S) = {}
    BY <1>1 DEF LinesOn
  <2> DEFINE f == [x \in LinesOn(ledger, Reservations, S) |->
                     Remaining(ledger.lines[x[1]][x[2]])]
  <2>2. DOMAIN f = {}
    BY <2>1
  <2> HIDE DEF f
  <2>3. SumFunctionOnSet(f, DOMAIN f) = 0
    BY <2>2, SumEmpty
  <2> QED
    BY <2>3 DEF HeldBy, SumFunction, f
<1>3. ASSUME NEW S, S \subseteq Sources
      PROVE  Charged(ledger, Events, S) = 0
  <2> DEFINE E == Events \X S
             f == [x \in E |-> ledger.charge[x[1]][x[2]]]
  <2>1. IsFiniteSet(E) /\ \A x \in E : f[x] = 0
    BY <1>1, <1>3, EntriesFinite
  <2>2. Charged(ledger, Events, S) = SumFunctionOnSet(f, E)
    BY DEF Charged, SumFunction
  <2> HIDE DEF E, f
  <2> QED
    BY <2>1, <2>2, SumZero
<1>4. \A g \in Grants : {g} \subseteq Sources /\ Granted[g] \in Nat
  BY FundingAssumption DEF Sources
<1>5. \A g \in Grants : Conserved(ledger, g) /\ HoldsMatch(ledger, g)
  BY <1>1, <1>2, <1>3, <1>4 DEF Conserved, HoldsMatch
<1>6. {Postpaid} \subseteq Sources
  BY DEF Sources
<1>7. ReservedMatches(ledger) /\ SettledCovers(ledger)
  BY <1>1, <1>2, <1>3, <1>6 DEF ReservedMatches, SettledCovers
<1>8. CycleUsed(ledger) = 0
  <2> DEFINE E == Events \X Grants
             f == [x \in E |-> IF ledger.charge[x[1]][x[2]] > 0
                                 THEN ledger.charge[x[1]][x[2]] ELSE 0]
  <2>1. IsFiniteSet(E)
    <3>1. Grants \subseteq Sources
      BY DEF Sources
    <3> QED
      BY <3>1, EntriesFinite
  <2>2. \A x \in E : f[x] = 0
    BY <1>1 DEF Sources
  <2>3. CycleUsed(ledger) = SumFunctionOnSet(f, E) + 0
    BY <1>1 DEF CycleUsed, SumFunction
  <2> HIDE DEF E, f
  <2>4. SumFunctionOnSet(f, E) = 0
    BY <2>1, <2>2, SumZero
  <2> QED
    BY <2>3, <2>4
<1>9. CapKept(ledger, 0)
  BY <1>2, <1>8, FundingAssumption DEF CapKept
<1> QED
  BY <1>1, <1>5, <1>7, <1>9 DEF Books

(* Every step keeps the books.                                               *)
LEMMA InductiveBooks ==
  FInv /\ FInv' /\ ExpiryInv /\ BooksInv /\ [FundingNext]_vars => BooksInv'
<1> SUFFICES ASSUME FInv, FInv', ExpiryInv, BooksInv, [FundingNext]_vars PROVE BooksInv'
  OBVIOUS
<1>1. CASE UNCHANGED vars \/ Tick
  BY <1>1 DEF vars, Tick, BooksInv
<1>2. CASE Rollback
  BY <1>2 DEF Rollback, BooksInv
<1>3. CASE Begin
  BY <1>3, BeginBooks
<1>4. CASE FundStep
  BY <1>4, HoldCreditsBooks, HoldPostpaidBooks, CommitBooks DEF FundStep
<1>5. CASE ReleaseStep
  BY <1>5, ReleaseBooks, CommitBooks DEF ReleaseStep
<1>6. CASE SettleStep
  <2>1. CASE ReverseStep
    BY <2>1, RestoreBooks, ForfeitBooks, RepayBooks, EndBooks DEF ReverseStep
  <2> QED
    BY <1>6, <2>1, ConsumeBooks, OverrunBooks, CommitBooks DEF SettleStep
<1>7. CASE \/ \E e \in Events, units \in 0..MaxUnits, at \in Instants :
                RecordEvent(e, units, at)
           \/ \E g \in Grants : ExpireGrant(g)
  BY <1>7, OutsideBooks
<1> QED
  BY <1>1, <1>2, <1>3, <1>4, <1>5, <1>6, <1>7 DEF FundingNext

(* So the books are kept always.                                             *)
LEMMA BooksInvariance == FundingSpec => []BooksInv
<1> QED
  BY Invariance, InitiallyWithin, InductiveWithin, InitialBooks, InductiveBooks, PTL
     DEF FundingSpec

(* No unit of a grant is lost or made: what was allocated is in the position, *)
(* charged to usage or expired, at every commit of every command.          *)
THEOREM CreditsAreConserved == FundingSpec => []CreditsConserved
<1>1. BooksInv => CreditsConserved
  BY DEF BooksInv, Books, Conserved, CreditsConserved
<1> QED
  BY <1>1, BooksInvariance, PTL

(* What a position holds is what the lines on it have not used or returned.  *)
THEOREM HoldsAreLines == FundingSpec => []HoldsMatchLines
<1>1. BooksInv => HoldsMatchLines
  BY DEF BooksInv, Books, HoldsMatch, HoldsMatchLines
<1> QED
  BY <1>1, BooksInvariance, PTL

(* The postpaid exposure that is reserved is what the open postpaid lines    *)
(* hold, and the settled debt covers what the journal charged to postpaid,  *)
(* also when a correction takes less off the debt than it takes off the      *)
(* journal.                                                                *)
THEOREM ExposureIsBacked ==
  FundingSpec => [](ReservedMatches(ledger) /\ SettledCovers(ledger))
<1>1. BooksInv => ReservedMatches(ledger) /\ SettledCovers(ledger)
  BY DEF BooksInv, Books
<1> QED
  BY <1>1, BooksInvariance, PTL

(* What the cycle has used and all open holds stay within the cap: between   *)
(* planFunding's check and the last line of the plan the units asked for are *)
(* found one line at a time, and each line takes off what it adds.           *)
THEOREM CapIsKept == FundingSpec => []WithinCycleCap
<1>1. FInv /\ CapKept(ledger, 0) => WithinCycleCap
  <2> SUFFICES ASSUME FInv, CapKept(ledger, 0), CycleCap # None,
                      \A g \in Grants : Unrestored(ledger, g)
               PROVE  CycleUsed(ledger) + HeldBy(ledger, Reservations, Sources) <= CycleCap
    BY DEF WithinCycleCap
  <2>1. ledger \in Ledger /\ Grants \subseteq Sources /\ Sources \subseteq Sources
    BY DEF FInv, Sound, Sources
  <2>2. CycleUsed(ledger) = Charged(ledger, Events, Grants) + ledger.exposure.settled
    BY <2>1, CycleUsedIsCharged
  <2>3. /\ Charged(ledger, Events, Grants) \in Int
        /\ HeldBy(ledger, Reservations, Sources) \in Int
    BY <2>1, SumTypes
  <2>4. ledger.exposure.settled \in Nat
    BY <2>1 DEF Ledger
  <2>5. CycleUsed(ledger) + HeldBy(ledger, Reservations, Sources) + 0 <= CycleCap
    BY DEF CapKept
  <2> QED
    BY <2>2, <2>3, <2>4, <2>5
<1> QED
  BY <1>1, Invariance, BooksInvariance, PTL DEF BooksInv

------------------------------------------------------------------------------
(* The charges of some events *)

Entries(d) == [x \in Events \X Sources |-> d.charge[x[1]][x[2]]]

Journal(d) == d.charge \in [Events -> [Sources -> Int]]

(* An entry is what the event was charged to the source.                      *)
LEMMA EntryOf ==
  ASSUME NEW d, Journal(d), NEW E \in SUBSET Events, NEW S \in SUBSET Sources
  PROVE  \A x \in E \X S : Entries(d)[x] = d.charge[x[1]][x[2]] /\ Entries(d)[x] \in Int
  BY DEF Entries, Journal

(* Whatever events and sources are asked for, the units they were charged    *)
(* are a sum of the same entries.                                           *)
Summed(d, E, S) ==
  /\ Charged(d, E, S) = SumFunctionOnSet(Entries(d), E \X S)
  /\ Charged(d, E, S) \in Int
  /\ IsFiniteSet(E \X S)
  /\ \A x \in E \X S : Entries(d)[x] = d.charge[x[1]][x[2]] /\ Entries(d)[x] \in Int

LEMMA ChargedSum ==
  ASSUME NEW d, Journal(d), NEW E, E \subseteq Events, NEW S, S \subseteq Sources
  PROVE  Summed(d, E, S)
<1> DEFINE P == E \X S
           f == [x \in P |-> d.charge[x[1]][x[2]]]
           h == Entries(d)
<1>1. IsFiniteSet(P)
  <2>1. IsFiniteSet(Events \X S) /\ P \subseteq Events \X S
    BY EntriesFinite
  <2> HIDE DEF P
  <2> QED
    BY <2>1, FS_Subset
<1>2. \A x \in P : f[x] = h[x] /\ h[x] = d.charge[x[1]][x[2]] /\ h[x] \in Int
  BY DEF Entries, Journal
<1>3. Charged(d, E, S) = SumFunctionOnSet(f, P)
  BY DEF Charged, SumFunction
<1> HIDE DEF P, f, h
<1>4. SumFunctionOnSet(f, P) = SumFunctionOnSet(h, P)
  BY <1>1, <1>2, SumEqual
<1>5. SumFunctionOnSet(h, P) \in Int
  BY <1>1, <1>2, SumType
<1> QED
  BY <1>1, <1>2, <1>3, <1>4, <1>5 DEF P, h, Summed

(* An entry counts for its event and its source only.                        *)
LEMMA ChargedMoves ==
  ASSUME NEW d, Journal(d), NEW E \in SUBSET Events, NEW S \in SUBSET Sources,
         NEW e, NEW n \in Events, NEW s \in Sources, NEW u \in Int, Charges(d, e, n, s, u)
  PROVE  /\ Journal(e)
         /\ Charged(e, E, S) = Charged(d, E, S) + (IF n \in E /\ s \in S THEN u ELSE 0)
<1> DEFINE P == E \X S
           f == Entries(d)
           h == Entries(e)
           p == <<n, s>>
<1>1. Journal(e)
  BY DEF Journal, Charges
<1>2. /\ e.charge[n][s] = d.charge[n][s] + u
      /\ \A m \in Events, q \in Sources : m # n \/ q # s => e.charge[m][q] = d.charge[m][q]
  BY DEF Charges, Journal
<1>3. /\ Charged(d, E, S) = SumFunctionOnSet(f, P) /\ Charged(d, E, S) \in Int /\ IsFiniteSet(P)
      /\ \A x \in P : f[x] = d.charge[x[1]][x[2]] /\ f[x] \in Int
  BY ChargedSum DEF Summed
<1>4. /\ Charged(e, E, S) = SumFunctionOnSet(h, P)
      /\ \A x \in P : h[x] = e.charge[x[1]][x[2]] /\ h[x] \in Int
  BY <1>1, ChargedSum DEF Summed
<1>5. p \in P <=> n \in E /\ s \in S
  OBVIOUS
<1>6. \A x \in P \ {p} : h[x] = f[x]
  BY <1>2, <1>3, <1>4
<1>7. p \in P => h[p] = f[p] + u
  BY <1>2, <1>3, <1>4
<1> HIDE DEF P, f, h, p
<1>8. CASE p \in P
  <2>1. SumFunctionOnSet(h, P) = SumFunctionOnSet(f, P) - f[p] + h[p]
    BY <1>3, <1>4, <1>6, <1>8, SumChanged
  <2>2. f[p] \in Int /\ h[p] = f[p] + u
    BY <1>3, <1>7, <1>8
  <2>3. SumFunctionOnSet(h, P) = SumFunctionOnSet(f, P) + u
    BY <1>3, <2>1, <2>2
  <2> QED
    BY <1>1, <1>3, <1>4, <1>5, <1>8, <2>3
<1>9. CASE p \notin P
  <2>1. SumFunctionOnSet(f, P) = SumFunctionOnSet(h, P)
    BY <1>3, <1>6, <1>9, SumEqual
  <2> QED
    BY <1>1, <1>3, <1>4, <1>5, <1>9, <2>1
<1> QED
  BY <1>8, <1>9

(* Tables with the same entries for some events were charged the same.        *)
LEMMA ChargedAlike ==
  ASSUME NEW d, NEW e, Journal(d), Journal(e), NEW E \in SUBSET Events,
         NEW S \in SUBSET Sources, \A m \in E, s \in S : e.charge[m][s] = d.charge[m][s]
  PROVE  Charged(e, E, S) = Charged(d, E, S)
<1> DEFINE P == E \X S
<1>0. Summed(d, E, S)
  BY ChargedSum
<1>1. /\ Charged(d, E, S) = SumFunctionOnSet(Entries(d), P) /\ IsFiniteSet(P)
      /\ \A x \in P : Entries(d)[x] = d.charge[x[1]][x[2]]
  BY <1>0 DEF Summed
<1>2. Summed(e, E, S)
  BY ChargedSum
<1>3. /\ Charged(e, E, S) = SumFunctionOnSet(Entries(e), P)
      /\ \A x \in P : Entries(e)[x] = e.charge[x[1]][x[2]]
  BY <1>2 DEF Summed
<1>4. \A x \in P : Entries(d)[x] = Entries(e)[x]
  BY <1>1, <1>3
<1> HIDE DEF P
<1>5. SumFunctionOnSet(Entries(d), P) = SumFunctionOnSet(Entries(e), P)
  BY <1>1, <1>4, SumEqual
<1> QED
  BY <1>1, <1>3, <1>5

(* Events without entries were charged nothing.                              *)
LEMMA ChargedNothing ==
  ASSUME NEW d, Journal(d), NEW E \in SUBSET Events, NEW S \in SUBSET Sources,
         \A m \in E, s \in S : d.charge[m][s] = 0
  PROVE  Charged(d, E, S) = 0
<1>1. Charged(d, E, S) = SumFunctionOnSet(Entries(d), E \X S) /\ IsFiniteSet(E \X S)
  BY ChargedSum DEF Summed
<1>2. \A x \in E \X S : Entries(d)[x] = d.charge[x[1]][x[2]]
  BY EntryOf
<1>3. \A x \in E \X S : Entries(d)[x] = 0
  BY <1>2
<1> QED
  BY <1>1, <1>3, SumZero

(* Sets of entries add up if they are apart.                                 *)
LEMMA EntriesAdd ==
  ASSUME NEW d, Journal(d), NEW A \in SUBSET Events, NEW R \in SUBSET Sources,
         NEW B \in SUBSET Events, NEW T \in SUBSET Sources,
         (A \X R) \intersect (B \X T) = {},
         NEW E \in SUBSET Events, NEW S \in SUBSET Sources,
         E \X S = (A \X R) \union (B \X T)
  PROVE  Charged(d, E, S) = Charged(d, A, R) + Charged(d, B, T)
<1> DEFINE P == A \X R
           Q == B \X T
           f == Entries(d)
<1>0. Summed(d, A, R) /\ Summed(d, B, T)
  BY ChargedSum
<1>1. Charged(d, A, R) = SumFunctionOnSet(f, P) /\ IsFiniteSet(P)
  BY <1>0 DEF Summed
<1>2. Charged(d, B, T) = SumFunctionOnSet(f, Q) /\ IsFiniteSet(Q)
  BY <1>0 DEF Summed
<1>3. Charged(d, E, S) = SumFunctionOnSet(f, E \X S)
  BY ChargedSum DEF Summed
<1>4. \A x \in P \union Q : f[x] \in Int
  <2>1. \A x \in P : f[x] \in Int
    BY EntryOf
  <2>2. \A x \in Q : f[x] \in Int
    BY EntryOf
  <2> QED
    BY <2>1, <2>2
<1>5. E \X S = P \union Q /\ P \intersect Q = {}
  OBVIOUS
<1> HIDE DEF P, Q, f
<1>6. SumFunctionOnSet(f, P \union Q) = SumFunctionOnSet(f, P) + SumFunctionOnSet(f, Q)
  BY <1>1, <1>2, <1>4, <1>5, SumUnion
<1> QED
  BY <1>1, <1>2, <1>3, <1>5, <1>6

(* Charges add up over events, and over sources.                             *)
LEMMA ChargedEvents ==
  ASSUME NEW d, Journal(d), NEW A \in SUBSET Events, NEW B \in SUBSET Events,
         A \intersect B = {}, NEW S \in SUBSET Sources
  PROVE  Charged(d, A \union B, S) = Charged(d, A, S) + Charged(d, B, S)
<1>1. A \union B \in SUBSET Events
  OBVIOUS
<1>2. (A \X S) \intersect (B \X S) = {}
  OBVIOUS
<1>3. (A \union B) \X S = (A \X S) \union (B \X S)
  OBVIOUS
<1> QED
  BY <1>1, <1>2, <1>3, EntriesAdd

LEMMA ChargedSources ==
  ASSUME NEW d, Journal(d), NEW E \in SUBSET Events, NEW R \in SUBSET Sources,
         NEW T \in SUBSET Sources, R \intersect T = {}
  PROVE  Charged(d, E, R \union T) = Charged(d, E, R) + Charged(d, E, T)
<1>1. R \union T \in SUBSET Sources
  OBVIOUS
<1>2. (E \X R) \intersect (E \X T) = {}
  OBVIOUS
<1>3. E \X (R \union T) = (E \X R) \union (E \X T)
  OBVIOUS
<1> QED
  BY <1>1, <1>2, <1>3, EntriesAdd

(* What sources that gave everything back were charged is not positive.       *)
LEMMA ChargedLimited ==
  ASSUME NEW d, Journal(d), NEW E \in SUBSET Events, NEW R \in SUBSET Sources,
         \A s \in Sources \ R : Charged(d, E, {s}) <= 0
  PROVE  Charged(d, E, Sources) <= Charged(d, E, R)
<1> DEFINE Q == Sources \ R
           T == {q \in SUBSET Q : Charged(d, E, q) <= 0}
<1>1. IsFiniteSet(Q)
  <2>1. IsFiniteSet(Grants)
    BY FundingAssumption
  <2>2. IsFiniteSet(Sources)
    BY <2>1, FS_AddElement DEF Sources
  <2> QED
    BY <2>2, FS_Subset
<1>2. {} \in T
  <2>1. Charged(d, E, {}) = 0
    BY ChargedNothing
  <2> QED
    BY <2>1
<1>3. \A q \in SUBSET Q : q \in T => \A s \in Q \ q : q \union {s} \in T
  <2> SUFFICES ASSUME NEW q \in SUBSET Q, q \in T, NEW s \in Q \ q PROVE q \union {s} \in T
    OBVIOUS
  <2>1. {s} \in SUBSET Sources /\ q \in SUBSET Sources /\ q \intersect {s} = {}
    OBVIOUS
  <2>2. Charged(d, E, q) \in Int /\ Charged(d, E, {s}) \in Int
    BY <2>1, ChargedSum DEF Summed
  <2>3. Charged(d, E, q \union {s}) = Charged(d, E, q) + Charged(d, E, {s})
    BY <2>1, ChargedSources
  <2>4. Charged(d, E, q) <= 0 /\ Charged(d, E, {s}) <= 0
    OBVIOUS
  <2>5. Charged(d, E, q \union {s}) <= 0
    BY <2>2, <2>3, <2>4
  <2> QED
    BY <2>5
<1> HIDE DEF T
<1>4. Q \in T
  BY <1>1, <1>2, <1>3, SubsetInduction
<1>5. Q \in SUBSET Sources /\ R \intersect Q = {} /\ R \union Q = Sources
  OBVIOUS
<1> HIDE DEF Q
<1>6. Charged(d, E, Sources) = Charged(d, E, R) + Charged(d, E, Q)
  BY <1>5, ChargedSources
<1>7. Charged(d, E, R) \in Int /\ Charged(d, E, Q) \in Int
  BY <1>5, ChargedSum DEF Summed
<1>8. Charged(d, E, Q) <= 0
  BY <1>4 DEF T
<1> QED
  BY <1>6, <1>7, <1>8
------------------------------------------------------------------------------
(* The chain of a component's revisions *)

(* Every settlement of the component left a journal entry and came in its turn. *)
Clean(d, c) ==
  /\ RevisionsOf(c) \intersect d.unposted = {}
  /\ c \notin d.outOfTurn

(* So did those of all components.                                           *)
Spotless(d) == d.unposted = {} /\ d.outOfTurn = {}

(* Settling e now keeps to the order, or is a repetition.                    *)
Turn(d, e) == e \in d.settled \/ InTurn(d, e)

(* What a component owes in postpaid units.                                  *)
Debt(d, c) == Charged(d, RevisionsOf(c), {Postpaid})

(* The event was charged nothing and has forfeited nothing.                  *)
Quiet(d, e) == (\A s \in Sources : d.charge[e][s] = 0) /\ d.forfeited[e] = 0

Earlier(e) == {<<e[1], k>> : k \in 1..(e[2] - 1)}

(* What is settled was recorded and left an entry, or is known not to have;    *)
(* revisions not settled have left nothing.                                 *)
Chained(d) ==
  \A e \in Events :
    /\ e \in d.settled => d.event[e] # None
    /\ e \in d.settled \/ Quiet(d, e)
    /\ e \in d.settled => HasSettlement(d, e) \/ e \in d.unposted

Reckoned(d) ==
  \A c \in Components : Clean(d, c) =>
    /\ NetCharge(d, c) = LatestUnits(d, c) + Forfeited(d, c)
    /\ Debt(d, c) >= 0

DebtExact(d) == d.exposure.settled = Charged(d, Events, {Postpaid})

(* Units the open settlement has still to charge, or to give back.           *)
Ahead(t) ==
  IF t.stage = "consume" THEN t.left ELSE IF t.stage = "reverse" THEN -t.left ELSE 0

(* A settlement of d that is under way: what is charged and what is still to  *)
(* be charged make up the revision. A correction has given back, of each    *)
(* source it has been at, all that the earlier revisions charged to it.      *)
Progress(d, t) ==
  LET e == t.event
      c == e[1]
  IN
  /\ Debt(t.draft, c) >= 0
  /\ NetCharge(t.draft, c) + Ahead(t) = d.event[e].units + Forfeited(t.draft, c)
  /\ t.stage = "reverse" =>
       /\ \A s \in Sources \ t.reversed : t.draft.charge[e][s] = 0
       /\ t.left > 0 =>
            Charged(d, Earlier(e), t.reversed) + t.left
              = LatestUnits(d, c) - d.event[e].units

(* An open settlement touches the entries of its own event only, and those   *)
(* not if it has some already.                                              *)
Settling(d, t) ==
  LET e == t.event IN
  /\ t.stage # "fund"
  /\ \A f \in Events \ {e} :
       t.draft.charge[f] = d.charge[f] /\ t.draft.forfeited[f] = d.forfeited[f]
  /\ HasSettlement(d, e) =>
       /\ t.stage \in {"release", "close"}
       /\ t.draft.charge[e] = d.charge[e] /\ t.draft.forfeited[e] = d.forfeited[e]
  /\ e \notin d.settled /\ InTurn(d, e) /\ Clean(d, e[1]) => Progress(d, t)

(* No settlement so far lacks its entry or its turn, the open one included.   *)
Regular(d, t) == Spotless(d) /\ (t.command = "settle" => Turn(d, t.event))

(* Any other command leaves the entries alone.                               *)
Advancing(d, t) ==
  /\ t.draft.event = d.event /\ t.draft.settled = d.settled /\ t.draft.unposted = d.unposted
  /\ t.draft.outOfTurn = d.outOfTurn
  /\ IF t.command = "settle"
       THEN Settling(d, t)
       ELSE /\ t.stage \in {"fund", "release"}
            /\ t.draft.charge = d.charge /\ t.draft.forfeited = d.forfeited
  /\ Regular(d, t) => DebtExact(t.draft)

ChainInv ==
  /\ Chained(ledger) /\ Reckoned(ledger)
  /\ Spotless(ledger) => DebtExact(ledger)
  /\ tx # NoTx => Advancing(ledger, tx)

(* Revisions of components, as sets of events.                               *)
LEMMA RevisionSets ==
  /\ \A c \in Components : RevisionsOf(c) \in SUBSET Events /\ IsFiniteSet(RevisionsOf(c))
  /\ \A e \in Events :
       /\ e[1] \in Components /\ e[2] \in 1..MaxRevision /\ e = <<e[1], e[2]>>
       /\ e \in RevisionsOf(e[1]) /\ e \notin Earlier(e)
       /\ Earlier(e) \in SUBSET RevisionsOf(e[1]) /\ Earlier(e) \in SUBSET Events
       /\ \A k \in 1..MaxRevision : <<e[1], k>> \in Earlier(e) <=> k < e[2]
       /\ \A m \in RevisionsOf(e[1]) : m[1] = e[1] /\ (m \in Earlier(e) <=> m[2] < e[2])
<1>1. MaxRevision \in Int /\ 1 \in Int
  BY FundingAssumption
<1>2. ASSUME NEW c \in Components
      PROVE  RevisionsOf(c) \in SUBSET Events /\ IsFiniteSet(RevisionsOf(c))
  <2>1. RevisionsOf(c) = {c} \X (1..MaxRevision)
    BY DEF RevisionsOf
  <2>2. IsFiniteSet({c}) /\ IsFiniteSet(1..MaxRevision)
    BY <1>1, FS_Singleton, FS_Interval
  <2>3. IsFiniteSet({c} \X (1..MaxRevision))
    BY <2>2, FS_Product
  <2> QED
    BY <2>1, <2>3 DEF Events
<1>3. ASSUME NEW e \in Events
      PROVE  /\ e[1] \in Components /\ e[2] \in 1..MaxRevision /\ e = <<e[1], e[2]>>
             /\ e \in RevisionsOf(e[1]) /\ e \notin Earlier(e)
             /\ Earlier(e) \in SUBSET RevisionsOf(e[1]) /\ Earlier(e) \in SUBSET Events
             /\ \A k \in 1..MaxRevision : <<e[1], k>> \in Earlier(e) <=> k < e[2]
             /\ \A m \in RevisionsOf(e[1]) : m[1] = e[1] /\ (m \in Earlier(e) <=> m[2] < e[2])
  <2>1. PICK c \in Components, n \in 1..MaxRevision : e = <<c, n>>
    BY DEF Events
  <2>2. e[1] = c /\ e[2] = n /\ n \in Int
    BY <1>1, <2>1
  <2>3. RevisionsOf(c) = {<<c, k>> : k \in 1..MaxRevision}
    BY DEF RevisionsOf
  <2>4. Earlier(e) = {<<c, k>> : k \in 1..(n - 1)}
    BY <2>2 DEF Earlier
  <2>5. /\ e \in RevisionsOf(c) /\ e \notin Earlier(e)
        /\ Earlier(e) \in SUBSET RevisionsOf(c)
    BY <1>1, <2>1, <2>2, <2>3, <2>4
  <2>6. \A k \in 1..MaxRevision : <<c, k>> \in Earlier(e) <=> k < n
    BY <1>1, <2>2, <2>4
  <2>7. \A m \in RevisionsOf(c) : m[1] = c /\ (m \in Earlier(e) <=> m[2] < n)
    BY <1>1, <2>2, <2>3, <2>4
  <2>8. RevisionsOf(c) \in SUBSET Events
    BY <1>2
  <2> QED
    BY <2>1, <2>2, <2>5, <2>6, <2>7, <2>8
<1> QED
  BY <1>2, <1>3

(* Before e is settled in its turn, only revisions before it are.             *)
LEMMA OnlyEarlier ==
  ASSUME NEW d, NEW e \in Events, e \notin d.settled, InTurn(d, e)
  PROVE  \A m \in RevisionsOf(e[1]) : m \in d.settled => m \in Earlier(e)
<1> SUFFICES ASSUME NEW m \in RevisionsOf(e[1]), m \in d.settled, m \notin Earlier(e)
             PROVE  FALSE
  OBVIOUS
<1>1. m \in Events /\ m[1] = e[1] /\ ~(m[2] < e[2]) /\ m[2] \in 1..MaxRevision
      /\ e[2] \in 1..MaxRevision /\ m # e /\ m = <<m[1], m[2]>> /\ e = <<e[1], e[2]>>
  BY RevisionSets
<1>2. e[2] < m[2] /\ m = <<e[1], m[2]>>
  BY <1>1
<1>3. MaxRevision \in Int
  BY FundingAssumption
<1>4. m[2] \in (e[2] + 1)..MaxRevision
  BY <1>1, <1>2, <1>3
<1> QED
  BY <1>2, <1>4 DEF InTurn

(* Nothing of the component but the revisions before e has been charged.      *)
LEMMA EarlierTotal ==
  ASSUME NEW d, Journal(d), Chained(d), NEW e \in Events, e \notin d.settled,
         InTurn(d, e), NEW S \in SUBSET Sources
  PROVE  Charged(d, RevisionsOf(e[1]), S) = Charged(d, Earlier(e), S)
<1> DEFINE A == Earlier(e)
           B == RevisionsOf(e[1]) \ A
<1>1. /\ A \in SUBSET Events /\ B \in SUBSET Events /\ A \intersect B = {}
      /\ RevisionsOf(e[1]) = A \union B
  BY RevisionSets
<1>2. \A m \in B, s \in S : d.charge[m][s] = 0
  BY <1>1, OnlyEarlier DEF Chained, Quiet
<1> HIDE DEF A, B
<1>3. Charged(d, A \union B, S) = Charged(d, A, S) + Charged(d, B, S)
  BY <1>1, ChargedEvents
<1>4. Charged(d, B, S) = 0
  BY <1>1, <1>2, ChargedNothing
<1>5. Summed(d, A, S)
  BY <1>1, ChargedSum
<1> QED
  BY <1>1, <1>3, <1>4, <1>5 DEF Summed, A

(* The settled revisions of a component.                                     *)
Done(d, c) == {k \in 1..MaxRevision : <<c, k>> \in d.settled}

LEMMA LatestIs ==
  ASSUME NEW d, NEW c, NEW k \in Done(d, c), \A j \in Done(d, c) : j <= k
  PROVE  LatestUnits(d, c) = d.event[<<c, k>>].units
<1> DEFINE D == Done(d, c)
<1>1. MaxRevision \in Int /\ D \subseteq 1..MaxRevision
  BY FundingAssumption DEF Done
<1>2. LatestUnits(d, c) = IF D = {} THEN 0 ELSE d.event[<<c, Max(D)>>].units
  BY DEF LatestUnits, Done
<1>3. k \in D /\ \A j \in D : j <= k
  OBVIOUS
<1> HIDE DEF D
<1>4. Max(D) = CHOOSE x \in D : \A y \in D : x >= y
  BY DEF Max
<1>5. Max(D) = k
  <2>1. \A y \in D : k >= y
    BY <1>1, <1>3
  <2>2. Max(D) \in D /\ \A y \in D : Max(D) >= y
    BY <1>3, <1>4, <2>1
  <2> DEFINE m == Max(D)
  <2>3. m \in D /\ k \in D /\ m >= k
    BY <1>3, <2>2
  <2> HIDE DEF m
  <2>5. m <= k
    BY <1>3, <2>3
  <2>4. m = k
    BY <1>1, <2>3, <2>5
  <2> QED
    BY <2>4 DEF m
<1> QED
  BY <1>2, <1>3, <1>5

(* The latest of some revisions is one of them.                              *)
LEMMA Greatest ==
  ASSUME NEW D \in SUBSET (1..MaxRevision), D # {}
  PROVE  \E k \in D : \A j \in D : j <= k
<1> DEFINE T == {n \in Nat : MaxRevision - n \in D}
<1>1. MaxRevision \in Int /\ D \subseteq 1..MaxRevision
  BY FundingAssumption
<1>2. PICK k \in D : TRUE
  OBVIOUS
<1>3. MaxRevision - k \in T
  <2>1. k \in Int /\ MaxRevision - k \in Nat /\ MaxRevision - (MaxRevision - k) = k
    BY <1>1
  <2> QED
    BY <1>2, <2>1
<1>4. T \in SUBSET Nat /\ T # {}
  BY <1>3
<1>5. PICK m \in T : \A n \in T : m <= n
  <2> HIDE DEF T
  <2> QED
    BY <1>4, NatLeast
<1>6. MaxRevision - m \in D /\ m \in Nat
  BY <1>5
<1>7. ASSUME NEW j \in D PROVE j <= MaxRevision - m
  <2>1. j \in Int /\ MaxRevision - j \in Nat /\ MaxRevision - (MaxRevision - j) = j
    BY <1>1
  <2>2. MaxRevision - j \in T
    BY <2>1
  <2>3. m <= MaxRevision - j
    BY <1>5, <2>2
  <2> QED
    BY <1>1, <1>6, <2>1, <2>3
<1> QED
  BY <1>6, <1>7

LEMMA LatestExists ==
  ASSUME NEW d, NEW c, Done(d, c) # {}
  PROVE  \E k \in Done(d, c) : \A j \in Done(d, c) : j <= k
  BY Greatest DEF Done

(* Tables that agree on the settled revisions agree on the latest one.        *)
LEMMA LatestAlike ==
  ASSUME NEW d, NEW n, NEW c, Done(n, c) = Done(d, c),
         \A k \in Done(d, c) : n.event[<<c, k>>] = d.event[<<c, k>>]
  PROVE  LatestUnits(n, c) = LatestUnits(d, c)
<1>1. CASE Done(d, c) = {}
  BY <1>1 DEF LatestUnits, Done
<1>2. CASE Done(d, c) # {}
  <2>1. PICK k \in Done(d, c) : \A j \in Done(d, c) : j <= k
    BY <1>2, LatestExists
  <2>2. LatestUnits(d, c) = d.event[<<c, k>>].units
    BY <2>1, LatestIs
  <2>3. k \in Done(n, c) /\ \A j \in Done(n, c) : j <= k
    BY <2>1
  <2>4. LatestUnits(n, c) = n.event[<<c, k>>].units
    BY <2>3, LatestIs
  <2> QED
    BY <2>1, <2>2, <2>4
<1> QED
  BY <1>1, <1>2

(* What a revision that is settled in its turn has before it.                *)
LEMMA DoneBefore ==
  ASSUME NEW d, NEW e \in Events, e \notin d.settled, InTurn(d, e)
  PROVE  \A k \in Done(d, e[1]) : k \in 1..MaxRevision /\ k < e[2]
<1> SUFFICES ASSUME NEW k \in Done(d, e[1])
             PROVE  k \in 1..MaxRevision /\ k < e[2]
  OBVIOUS
<1>1. k \in 1..MaxRevision /\ <<e[1], k>> \in d.settled
  BY DEF Done
<1>2. <<e[1], k>> \in RevisionsOf(e[1])
  BY <1>1 DEF RevisionsOf
<1>3. <<e[1], k>> \in Earlier(e)
  BY <1>1, <1>2, OnlyEarlier
<1> QED
  BY <1>1, <1>3, RevisionSets

(* The revision recorded before the one that is settled in its turn is the    *)
(* latest settled one.                                                      *)
LEMMA PreviousIs ==
  ASSUME NEW d, Chained(d), NEW e \in Events, e \notin d.settled, InTurn(d, e),
         NEW k \in Done(d, e[1]), \A j \in Done(d, e[1]) : j <= k
  PROVE  /\ k \in 1..(e[2] - 1)
         /\ \A j \in 1..(e[2] - 1) : Previous(d, e, j) <=> j = k
<1> DEFINE c == e[1]
           n == e[2]
           R == {j \in 1..(n - 1) : d.event[<<c, j>>] # None}
<1>1. /\ c \in Components /\ n \in 1..MaxRevision /\ MaxRevision \in Int
      /\ 1..(n - 1) \subseteq 1..MaxRevision
  BY RevisionSets, FundingAssumption
<1>2. k \in 1..(n - 1) /\ <<c, k>> \in d.settled
  <2>1. k \in 1..MaxRevision /\ k < n
    BY DoneBefore
  <2> QED
    BY <1>1, <2>1 DEF Done
<1>3. d.event[<<c, k>>] # None
  <2>1. <<c, k>> \in Events
    BY <1>1, <1>2 DEF Events
  <2> QED
    BY <1>2, <2>1 DEF Chained
<1>4. k \in R /\ R \in SUBSET (1..MaxRevision)
  BY <1>1, <1>2, <1>3
<1>5. PICK p \in R : \A j \in R : j <= p
  <2> HIDE DEF R
  <2> QED
    BY <1>4, Greatest
<1>6. p \in 1..(n - 1) /\ d.event[<<c, p>>] # None
  BY <1>5
<1>7. Previous(d, e, p)
  <2>1. ASSUME NEW j \in (p + 1)..(n - 1) PROVE d.event[<<c, j>>] = None
    <3>1. j \in 1..(n - 1) /\ ~(j <= p)
      BY <1>1, <1>6
    <3>2. j \notin R
      BY <1>5, <3>1
    <3> QED
      BY <3>1, <3>2
  <2> QED
    BY <1>6, <2>1 DEF Previous
<1>8. p = k
  <2>1. p \in Done(d, c)
    BY <1>1, <1>6, <1>7 DEF InTurn, Done
  <2>2. p <= k /\ k <= p
    BY <1>4, <1>5, <2>1
  <2> QED
    BY <1>1, <1>2, <1>6, <2>2
<1>9. ASSUME NEW j \in 1..(n - 1), Previous(d, e, j) PROVE j = k
  <2>1. d.event[<<c, j>>] # None
    BY <1>9 DEF Previous
  <2>2. j <= k
    BY <1>5, <1>8, <2>1
  <2>3. ASSUME j < k PROVE FALSE
    <3>1. k \in (j + 1)..(n - 1)
      BY <1>1, <1>2, <2>3
    <3> QED
      BY <1>3, <1>9, <3>1 DEF Previous
  <2> QED
    BY <1>1, <1>2, <2>2, <2>3
<1> QED
  BY <1>2, <1>7, <1>8, <1>9

(* settle charges the difference to the latest settled revision, in its turn. *)
LEMMA DeltaIs ==
  ASSUME NEW d \in Ledger, Chained(d), NEW e \in Events, e \notin d.settled,
         InTurn(d, e), Clean(d, e[1])
  PROVE  /\ ~HasSettlement(d, e)
         /\ Delta(d, e) = d.event[e].units - LatestUnits(d, e[1])
<1> DEFINE c == e[1]
           earlier == 1..(e[2] - 1)
<1>1. c \in Components /\ e[2] \in 1..MaxRevision /\ MaxRevision \in Int
  BY RevisionSets, FundingAssumption
<1>2. ~HasSettlement(d, e)
  BY DEF Chained, Quiet, HasSettlement
<1>3. Delta(d, e) = d.event[e].units - PriorUnits(d, e)
  BY <1>2 DEF Delta
<1>4. PriorUnits(d, e) = LatestUnits(d, c)
  <2>1. CASE Done(d, c) = {}
    <3>1. LatestUnits(d, c) = 0
      BY <2>1 DEF LatestUnits, Done
    <3>2. ASSUME NEW k \in earlier PROVE ~Previous(d, e, k)
      <4>1. k \in 1..MaxRevision
        BY <1>1
      <4>2. <<c, k>> \notin d.settled
        BY <2>1, <4>1 DEF Done
      <4> QED
        BY <4>2 DEF InTurn
    <3>3. PriorUnits(d, e) = 0
      BY <3>2 DEF PriorUnits
    <3> QED
      BY <3>1, <3>3
  <2>2. CASE Done(d, c) # {}
    <3>1. PICK k \in Done(d, c) : \A j \in Done(d, c) : j <= k
      BY <2>2, LatestExists
    <3>2. LatestUnits(d, c) = d.event[<<c, k>>].units
      BY <3>1, LatestIs
    <3>3. k \in earlier /\ \A j \in earlier : Previous(d, e, j) <=> j = k
      BY <3>1, PreviousIs
    <3>4. HasSettlement(d, <<c, k>>)
      <4>1. <<c, k>> \in d.settled /\ <<c, k>> \in Events /\ <<c, k>> \in RevisionsOf(c)
        BY <1>1, <3>1 DEF Done, Events, RevisionsOf
      <4>2. <<c, k>> \notin d.unposted
        BY <4>1 DEF Clean
      <4> QED
        BY <4>1, <4>2 DEF Chained
    <3>5. (CHOOSE j \in earlier : Previous(d, e, j)) = k
      BY <3>3
    <3>6. \E j \in earlier : Previous(d, e, j) /\ HasSettlement(d, <<c, j>>)
      BY <3>3, <3>4
    <3> QED
      BY <3>2, <3>5, <3>6 DEF PriorUnits
  <2> QED
    BY <2>1, <2>2
<1> QED
  BY <1>2, <1>3, <1>4

(* The debt of one component is no more than all the debt in the journal, if  *)
(* no component's is negative.                                              *)
LEMMA DebtsCover ==
  ASSUME NEW d, Journal(d), \A c \in Components : Debt(d, c) >= 0,
         NEW c \in Components
  PROVE  Charged(d, Events, {Postpaid}) >= Debt(d, c)
<1> DEFINE I == 1..MaxRevision
           R == Components \ {c}
           Of(C) == Charged(d, C \X I, {Postpaid})
           T == {C \in SUBSET R : Of(C) >= 0}
<1>1. /\ IsFiniteSet(R) /\ Events = Components \X I /\ {Postpaid} \in SUBSET Sources
      /\ \A C \in SUBSET Components : C \X I \in SUBSET Events
  <2>1. IsFiniteSet(Components)
    BY FundingAssumption
  <2>2. IsFiniteSet(R)
    BY <2>1, FS_Subset
  <2> QED
    BY <2>2 DEF Events, Sources
<1>2. \A C \in SUBSET Components : Of(C) \in Int
  <2> SUFFICES ASSUME NEW C \in SUBSET Components PROVE Of(C) \in Int
    OBVIOUS
  <2>1. C \X I \in SUBSET Events
    BY <1>1
  <2> DEFINE E == C \X I
  <2> HIDE DEF E
  <2>2. Summed(d, E, {Postpaid})
    BY <1>1, <2>1, ChargedSum DEF E
  <2>3. Charged(d, E, {Postpaid}) \in Int
    BY <2>2 DEF Summed
  <2> QED
    BY <2>3 DEF E
<1>3. ASSUME NEW x \in Components PROVE {x} \X I = RevisionsOf(x) /\ Of({x}) = Debt(d, x)
  <2>1. {x} \X I = RevisionsOf(x)
    BY DEF RevisionsOf
  <2> QED
    BY <2>1 DEF Debt
<1>4. ASSUME NEW C \in SUBSET Components, NEW x \in Components \ C
      PROVE  Of(C \union {x}) = Of(C) + Of({x})
  <2> DEFINE A == C \X I
             B == {x} \X I
  <2>1. A \in SUBSET Events /\ B \in SUBSET Events /\ A \intersect B = {}
    BY <1>1
  <2>2. (C \union {x}) \X I = A \union B
    OBVIOUS
  <2>3. Of(C) = Charged(d, A, {Postpaid}) /\ Of({x}) = Charged(d, B, {Postpaid})
        /\ Of(C \union {x}) = Charged(d, A \union B, {Postpaid})
    BY <2>2
  <2> HIDE DEF A, B, Of
  <2>4. Charged(d, A \union B, {Postpaid})
          = Charged(d, A, {Postpaid}) + Charged(d, B, {Postpaid})
    BY <1>1, <2>1, ChargedEvents
  <2> QED
    BY <2>3, <2>4
<1>5. {} \in T
  <2>1. {} \X I = {}
    OBVIOUS
  <2>2. Charged(d, {}, {Postpaid}) = 0
    BY <1>1, ChargedNothing
  <2> QED
    BY <2>1, <2>2
<1>6. ASSUME NEW C \in SUBSET R, C \in T, NEW x \in R \ C PROVE C \union {x} \in T
  <2>1. C \in SUBSET Components /\ x \in Components \ C /\ Of(C) >= 0
    <3>1. Of(C) >= 0
      BY <1>6
    <3> HIDE DEF Of, T
    <3> QED
      BY <3>1
  <2>2. Of(C) \in Int /\ Of({x}) \in Int
    BY <1>2, <2>1
  <2>3. Of({x}) >= 0
    BY <1>3, <2>1
  <2>4. Of(C \union {x}) = Of(C) + Of({x})
    BY <1>4, <2>1
  <2> HIDE DEF Of
  <2>5. Of(C \union {x}) >= 0
    BY <2>1, <2>2, <2>3, <2>4
  <2> QED
    BY <2>1, <2>5
<1>7. R \in T
  <2> HIDE DEF T
  <2> QED
    BY <1>1, <1>5, <1>6, SubsetInduction
<1>8. Of(R) >= 0 /\ R \in SUBSET Components /\ c \in Components \ R
      /\ R \union {c} = Components
  BY <1>7
<1>9. Of(Components) = Of(R) + Of({c})
  <2> HIDE DEF Of, R
  <2> QED
    BY <1>4, <1>8
<1>10. Of(Components) = Charged(d, Events, {Postpaid}) /\ Of({c}) = Debt(d, c)
  BY <1>1, <1>3
<1>11. Of(R) \in Int /\ Of({c}) \in Int
  BY <1>2, <1>8
<1> HIDE DEF Of, R
<1> QED
  BY <1>8, <1>9, <1>10, <1>11

(* What the revisions of a component forfeited.                              *)
LEMMA ForfeitedType ==
  ASSUME NEW d, d.forfeited \in [Events -> Nat], NEW c \in Components
  PROVE  Forfeited(d, c) \in Nat
<1> DEFINE E == RevisionsOf(c)
           f == d.forfeited
<1>1. E \in SUBSET Events /\ IsFiniteSet(E)
  BY RevisionSets
<1>2. \A m \in E : f[m] \in Nat
  BY <1>1
<1>3. Forfeited(d, c) = SumFunctionOnSet(f, E)
  BY DEF Forfeited
<1> HIDE DEF E, f
<1> QED
  BY <1>1, <1>2, <1>3, SumNat

LEMMA ForfeitedAlike ==
  ASSUME NEW d, NEW n, NEW c \in Components,
         \A m \in RevisionsOf(c) : n.forfeited[m] = d.forfeited[m]
  PROVE  Forfeited(n, c) = Forfeited(d, c)
<1> DEFINE E == RevisionsOf(c)
           f == d.forfeited
           h == n.forfeited
<1>1. IsFiniteSet(E)
  BY RevisionSets
<1>2. \A m \in E : f[m] = h[m]
  OBVIOUS
<1>3. Forfeited(d, c) = SumFunctionOnSet(f, E) /\ Forfeited(n, c) = SumFunctionOnSet(h, E)
  BY DEF Forfeited
<1> HIDE DEF E, f, h
<1>4. SumFunctionOnSet(f, E) = SumFunctionOnSet(h, E)
  BY <1>1, <1>2, SumEqual
<1> QED
  BY <1>3, <1>4

LEMMA ForfeitedMoves ==
  ASSUME NEW d, NEW n, d.forfeited \in [Events -> Nat], n.forfeited \in [Events -> Nat],
         NEW e \in Events, NEW u \in Int, n.forfeited[e] = d.forfeited[e] + u,
         \A m \in Events \ {e} : n.forfeited[m] = d.forfeited[m]
  PROVE  Forfeited(n, e[1]) = Forfeited(d, e[1]) + u
<1> DEFINE E == RevisionsOf(e[1])
           f == d.forfeited
           h == n.forfeited
<1>1. E \in SUBSET Events /\ IsFiniteSet(E) /\ e \in E
  BY RevisionSets
<1>2. \A m \in E : f[m] \in Int /\ h[m] \in Int
  BY <1>1
<1>3. h[e] = f[e] + u /\ \A m \in E \ {e} : h[m] = f[m]
  BY <1>1
<1>4. /\ Forfeited(d, e[1]) = SumFunctionOnSet(f, E)
      /\ Forfeited(n, e[1]) = SumFunctionOnSet(h, E)
  BY DEF Forfeited
<1> HIDE DEF E, f, h
<1>5. SumFunctionOnSet(h, E) = SumFunctionOnSet(f, E) - f[e] + h[e]
  BY <1>1, <1>2, <1>3, SumChanged
<1>6. SumFunctionOnSet(f, E) \in Int /\ f[e] \in Int
  BY <1>1, <1>2, SumType
<1> QED
  BY <1>3, <1>4, <1>5, <1>6

------------------------------------------------------------------------------
(* What a step of a command does to the chain *)

(* The events and their settlements are those of d.                          *)
History(d, e) ==
  /\ DOMAIN e = DOMAIN d
  /\ e.event = d.event /\ e.settled = d.settled /\ e.unposted = d.unposted
  /\ e.outOfTurn = d.outOfTurn /\ e.forfeited = d.forfeited

(* No posting to a table rewrites the events or their settlements.            *)
LEMMA HistoryKept ==
  ASSUME NEW d \in Ledger, NEW m, History(d, m)
  PROVE  /\ \A g, b, h : History(d, Moved(m, g, b, h))
         /\ \A a, b : History(d, Exposed(m, a, b))
         /\ \A r, line : History(d, Appended(m, r, line))
         /\ \A s, u : History(d, Posted(m, s, u))
         /\ \A r, i : History(d, MarkReleased(m, r, i))
         /\ \A r, status, until : History(d, Updated(m, r, status, until))
<1>1. {"event", "settled", "unposted", "outOfTurn", "forfeited"} \subseteq DOMAIN m
  BY DEF Ledger, History
<1>2. \A g, b, h : History(d, Moved(m, g, b, h))
  BY <1>1 DEF Moved, History
<1>3. \A a, b : History(d, Exposed(m, a, b))
  BY <1>1 DEF Exposed, History
<1>4. \A r, line : History(d, Appended(m, r, line))
  BY <1>1 DEF Appended, History
<1>5. \A s, u : History(d, Posted(m, s, u))
  BY <1>1 DEF Posted, History
<1>6. \A r, i : History(d, MarkReleased(m, r, i))
  BY <1>1 DEF MarkReleased, History
<1>7. \A r, status, until : History(d, Updated(m, r, status, until))
  BY <1>1 DEF Updated, History
<1> QED
  BY <1>2, <1>3, <1>4, <1>5, <1>6, <1>7

LEMMA HistoryOfLines ==
  ASSUME NEW d \in Ledger, NEW m, History(d, m)
  PROVE  /\ \A g, u : History(d, ReleaseCredits(m, g, u))
         /\ \A r, i, s, u : History(d, Spend(m, r, i, s, u))
<1>1. ASSUME NEW g, NEW u PROVE History(d, ReleaseCredits(m, g, u))
  <2>1. \A b, h : History(d, Moved(m, g, b, h))
    BY HistoryKept
  <2> DEFINE n == Moved(m, g, -u, -u)
  <2>2. History(d, n) /\ {"event", "settled", "unposted", "outOfTurn", "forfeited"} \subseteq DOMAIN n
    BY <2>1 DEF Ledger, History
  <2> HIDE DEF n
  <2>3. History(d, [n EXCEPT !.expired[g] = @ + u, !.active[g] = FALSE])
    BY <2>2 DEF History
  <2> QED
    BY <2>1, <2>3 DEF ReleaseCredits, n
<1>2. ASSUME NEW r, NEW i, NEW s, NEW u PROVE History(d, Spend(m, r, i, s, u))
  <2> DEFINE n == [m EXCEPT !.lines[r][i].consumed = @ + u]
  <2>1. {"event", "settled", "unposted", "outOfTurn", "forfeited"} \subseteq DOMAIN m
    BY DEF Ledger, History
  <2>2. History(d, n)
    BY <2>1 DEF History
  <2> HIDE DEF n
  <2>3. History(d, Posted(n, s, u))
    BY <2>2, HistoryKept
  <2> QED
    BY <2>3 DEF Spend, n
<1> QED
  BY <1>1, <1>2

(* The sums only look at the entries.                                        *)
LEMMA SameCharges ==
  ASSUME NEW d, NEW e, e.charge = d.charge
  PROVE  /\ \A E, S : Charged(e, E, S) = Charged(d, E, S)
         /\ \A c : NetCharge(e, c) = NetCharge(d, c) /\ Debt(e, c) = Debt(d, c)
         /\ \A m : HasSettlement(e, m) <=> HasSettlement(d, m)
  BY DEF Charged, NetCharge, Debt, HasSettlement

LEMMA SameForfeits ==
  ASSUME NEW d, NEW e, e.forfeited = d.forfeited
  PROVE  \A c : Forfeited(e, c) = Forfeited(d, c)
  BY DEF Forfeited

LEMMA Journals ==
  ASSUME NEW d \in Ledger
  PROVE  /\ Journal(d) /\ d.forfeited \in [Events -> Nat] /\ d.exposure.settled \in Nat
         /\ \A e \in Events : d.event[e] # None => d.event[e].units \in Nat
<1>1. Journal(d) /\ d.forfeited \in [Events -> Nat] /\ d.exposure.settled \in Nat
  BY DEF Ledger, Journal
<1>2. d.event \in [Events -> Event \union {None}]
  BY DEF Ledger
<1> QED
  BY <1>1, <1>2, FundingAssumption DEF Event

(* What the transaction goes on as.                                          *)
LEMMA NextSettling ==
  ASSUME FInv, tx # NoTx, NEW d
  PROVE  /\ \A left, stage : Proceed(d, left, stage) =>
              /\ tx'.draft = d /\ tx'.stage = stage /\ tx'.left = left
              /\ tx'.command = tx.command /\ tx'.event = tx.event
              /\ tx'.reversed = tx.reversed /\ UNCHANGED ledger
         /\ \A s, units : NextReversal(d, s, units) =>
              /\ tx'.draft = d /\ tx'.stage = tx.stage /\ tx'.left = tx.left - units
              /\ tx'.command = tx.command /\ tx'.event = tx.event
              /\ tx'.reversed = tx.reversed \union {s} /\ UNCHANGED ledger
<1>1. {"draft", "stage", "left", "command", "event", "reversed"} \subseteq DOMAIN tx
  BY DEF FInv, Pending, Transaction
<1>2. ASSUME NEW left, NEW stage, Proceed(d, left, stage)
      PROVE  /\ tx'.draft = d /\ tx'.stage = stage /\ tx'.left = left
             /\ tx'.command = tx.command /\ tx'.event = tx.event
             /\ tx'.reversed = tx.reversed /\ UNCHANGED ledger
  BY <1>1, <1>2 DEF Proceed
<1>3. ASSUME NEW s, NEW units, NextReversal(d, s, units)
      PROVE  /\ tx'.draft = d /\ tx'.stage = tx.stage /\ tx'.left = tx.left - units
             /\ tx'.command = tx.command /\ tx'.event = tx.event
             /\ tx'.reversed = tx.reversed \union {s} /\ UNCHANGED ledger
  BY <1>1, <1>3 DEF NextReversal
<1> QED
  BY <1>2, <1>3

(* The committed tables stay as they are.                                    *)
LEMMA KeepsChain ==
  ASSUME ChainInv, UNCHANGED ledger, tx' # NoTx => Advancing(ledger, tx')
  PROVE  ChainInv'
  BY DEF ChainInv

(* A step that funds or releases.                                            *)
LEMMA CalmAdvances ==
  ASSUME ChainInv, tx # NoTx, NEW t, t.command = tx.command, t.event = tx.event,
         t.stage = tx.stage, tx.stage \in {"fund", "release"},
         History(tx.draft, t.draft), t.draft.charge = tx.draft.charge,
         t.draft.exposure.settled = tx.draft.exposure.settled
  PROVE  Advancing(ledger, t)
<1> DEFINE d == tx.draft
           n == t.draft
<1>1. /\ \A E, S : Charged(n, E, S) = Charged(d, E, S)
      /\ \A c : NetCharge(n, c) = NetCharge(d, c) /\ Debt(n, c) = Debt(d, c)
      /\ \A c : Forfeited(n, c) = Forfeited(d, c)
  BY SameCharges, SameForfeits DEF History
<1>2. Advancing(ledger, tx)
  BY DEF ChainInv
<1>3. /\ n.event = ledger.event /\ n.settled = ledger.settled /\ n.unposted = ledger.unposted
      /\ n.outOfTurn = ledger.outOfTurn
  BY <1>2 DEF Advancing, History
<1>4. Regular(ledger, t) => DebtExact(n)
  <2>1. Regular(ledger, t) <=> Regular(ledger, tx)
    BY DEF Regular
  <2> QED
    BY <1>1, <1>2, <2>1 DEF Advancing, DebtExact
<1>5. CASE tx.command = "settle"
  <2>1. Settling(ledger, tx)
    BY <1>2, <1>5 DEF Advancing
  <2>2. tx.stage = "release"
    BY <2>1 DEF Settling
  <2>3. Progress(ledger, tx) => Progress(ledger, t)
    BY <1>1, <2>2 DEF Progress, Ahead
  <2>4. Settling(ledger, t)
    BY <2>1, <2>2, <2>3 DEF Settling, History
  <2> QED
    BY <1>3, <1>4, <1>5, <2>4 DEF Advancing
<1>6. CASE tx.command # "settle"
  BY <1>2, <1>3, <1>4, <1>6 DEF Advancing, History
<1> QED
  BY <1>5, <1>6

(* A settlement that is charging or correcting.                              *)
LEMMA InSettlement ==
  ASSUME FInv, ChainInv, tx # NoTx, tx.stage \in {"consume", "reverse"}
  PROVE  /\ tx.command = "settle" /\ Settling(ledger, tx)
         /\ tx.event \in Events /\ tx.event[1] \in Components
         /\ ledger.event[tx.event] # None
         /\ ~HasSettlement(ledger, tx.event)
         /\ ledger \in Ledger /\ tx.draft \in Ledger
         /\ Regular(ledger, tx) =>
              /\ tx.event \notin ledger.settled /\ InTurn(ledger, tx.event)
              /\ Clean(ledger, tx.event[1]) /\ Progress(ledger, tx) /\ DebtExact(tx.draft)
<1>1. Advancing(ledger, tx) /\ Chained(ledger)
  BY DEF ChainInv
<1>2. tx.command = "settle" /\ Settling(ledger, tx)
  BY <1>1 DEF Advancing
<1>3. /\ tx.event \in Events /\ tx.draft.event[tx.event] # None
      /\ tx.draft \in Ledger
  BY Opened
<1>4. tx.event[1] \in Components /\ ledger \in Ledger
  BY <1>3, RevisionSets DEF FInv, Sound
<1>5. ledger.event[tx.event] # None
  BY <1>1, <1>3 DEF Advancing
<1>6. ~HasSettlement(ledger, tx.event)
  BY <1>2 DEF Settling
<1>7. ASSUME Regular(ledger, tx)
      PROVE  /\ tx.event \notin ledger.settled /\ InTurn(ledger, tx.event)
             /\ Clean(ledger, tx.event[1]) /\ Progress(ledger, tx) /\ DebtExact(tx.draft)
  <2>1. tx.event \notin ledger.settled /\ InTurn(ledger, tx.event)
    BY <1>1, <1>2, <1>3, <1>6, <1>7 DEF Chained, Regular, Spotless, Turn
  <2>2. Clean(ledger, tx.event[1])
    BY <1>7 DEF Clean, Regular, Spotless
  <2> QED
    BY <1>1, <1>2, <1>7, <2>1, <2>2 DEF Settling, Advancing
<1> QED
  BY <1>2, <1>3, <1>4, <1>5, <1>6, <1>7

(* An entry of u units of the event e to the source s: what it adds to.       *)
Entered(d, n, e, s, u) ==
  /\ NetCharge(d, e[1]) \in Int /\ Debt(d, e[1]) \in Int
  /\ Charged(d, Events, {Postpaid}) \in Int
  /\ NetCharge(n, e[1]) = NetCharge(d, e[1]) + u
  /\ Debt(n, e[1]) = Plus(Debt(d, e[1]), Postpaid, s, u)
  /\ Charged(n, Events, {Postpaid}) = Plus(Charged(d, Events, {Postpaid}), Postpaid, s, u)
  /\ \A f \in Events \ {e} : n.charge[f] = d.charge[f]
  /\ \A q \in Sources \ {s} : n.charge[e][q] = d.charge[e][q]

LEMMA EntryPosted ==
  ASSUME NEW d, NEW n, Journal(d), NEW e \in Events, NEW s \in Sources, NEW u \in Int,
         Charges(d, n, e, s, u)
  PROVE  Entered(d, n, e, s, u)
<1> DEFINE R == RevisionsOf(e[1])
           P == {Postpaid}
<1>1. R \in SUBSET Events /\ e \in R /\ P \in SUBSET Sources /\ Sources \in SUBSET Sources
      /\ Events \in SUBSET Events
  BY RevisionSets DEF Sources
<1>2. s \in P <=> Postpaid = s
  OBVIOUS
<1>3. Charged(n, R, Sources) = Charged(d, R, Sources) + (IF e \in R /\ s \in Sources THEN u ELSE 0)
  BY <1>1, ChargedMoves
<1>4. Charged(n, R, P) = Charged(d, R, P) + (IF e \in R /\ s \in P THEN u ELSE 0)
  BY <1>1, ChargedMoves
<1>5. Charged(n, Events, P) = Charged(d, Events, P) + (IF e \in Events /\ s \in P THEN u ELSE 0)
  BY <1>1, ChargedMoves
<1>6. Summed(d, R, Sources) /\ Summed(d, R, P) /\ Summed(d, Events, P)
  BY <1>1, ChargedSum
<1>7. Charged(d, R, Sources) \in Int /\ Charged(d, R, P) \in Int /\ Charged(d, Events, P) \in Int
  BY <1>6 DEF Summed
<1>8. /\ \A f \in Events \ {e} : n.charge[f] = d.charge[f]
      /\ \A q \in Sources \ {s} : n.charge[e][q] = d.charge[e][q]
  BY DEF Charges, Journal
<1> HIDE DEF R, P
<1>9. /\ NetCharge(d, e[1]) = Charged(d, R, Sources) /\ NetCharge(n, e[1]) = Charged(n, R, Sources)
      /\ Debt(d, e[1]) = Charged(d, R, P) /\ Debt(n, e[1]) = Charged(n, R, P)
  BY DEF NetCharge, Debt, R, P
<1>10. NetCharge(n, e[1]) = NetCharge(d, e[1]) + u /\ NetCharge(d, e[1]) \in Int
  BY <1>1, <1>3, <1>7, <1>9
<1>11. Debt(n, e[1]) = Plus(Debt(d, e[1]), Postpaid, s, u) /\ Debt(d, e[1]) \in Int
  BY <1>1, <1>2, <1>4, <1>7, <1>9 DEF Plus
<1>12. Charged(n, Events, P) = Plus(Charged(d, Events, P), Postpaid, s, u)
       /\ Charged(d, Events, P) \in Int
  BY <1>1, <1>2, <1>5, <1>7 DEF Plus
<1> QED
  BY <1>8, <1>10, <1>11, <1>12 DEF P, Entered

(* A step that charges.                                                      *)
LEMMA PostAdvances ==
  ASSUME FInv, ChainInv, tx # NoTx, tx.stage = "consume", NEW t, t.command = tx.command,
         t.event = tx.event, NEW units \in Nat, t.left = tx.left - units,
         t.stage = "consume" \/ (t.stage \in {"release", "close"} /\ t.left = 0),
         t.draft \in Ledger, History(tx.draft, t.draft), NEW s \in Sources,
         Charges(tx.draft, t.draft, tx.event, s, units),
         t.draft.exposure.settled = Plus(tx.draft.exposure.settled, Postpaid, s, units)
  PROVE  Advancing(ledger, t)
<1> DEFINE d == tx.draft
           n == t.draft
           e == tx.event
           c == e[1]
<1>1. /\ tx.command = "settle" /\ Settling(ledger, tx) /\ e \in Events /\ c \in Components
      /\ ~HasSettlement(ledger, e) /\ d \in Ledger /\ tx.left \in Nat
  BY InSettlement, Opened
<1>2. Journal(d) /\ Journal(n) /\ n.forfeited = d.forfeited /\ d.exposure.settled \in Nat
  BY <1>1, Journals DEF History
<1>3. Charges(d, n, e, s, units)
  OBVIOUS
<1>4. /\ NetCharge(d, c) \in Int /\ Debt(d, c) \in Int /\ Charged(d, Events, {Postpaid}) \in Int
      /\ NetCharge(n, c) = NetCharge(d, c) + units
      /\ Debt(n, c) = Plus(Debt(d, c), Postpaid, s, units)
      /\ Charged(n, Events, {Postpaid}) = Plus(Charged(d, Events, {Postpaid}), Postpaid, s, units)
      /\ \A f \in Events \ {e} : n.charge[f] = d.charge[f]
  <2>1. Entered(d, n, e, s, units)
    BY <1>1, <1>2, <1>3, EntryPosted
  <2> QED
    BY <2>1 DEF Entered
<1>5. Forfeited(n, c) = Forfeited(d, c)
  BY <1>2, SameForfeits
<1>6. Ahead(t) = tx.left - units /\ Ahead(tx) = tx.left
  BY <1>1 DEF Ahead
<1>7. ASSUME Progress(ledger, tx) PROVE Progress(ledger, t)
  <2>1. Debt(d, c) >= 0 /\ NetCharge(d, c) + Ahead(tx) = ledger.event[e].units + Forfeited(d, c)
    BY <1>7 DEF Progress
  <2>2. Debt(n, c) >= 0
    BY <1>4, <2>1 DEF Plus
  <2>3. NetCharge(n, c) + Ahead(t) = NetCharge(d, c) + Ahead(tx)
    BY <1>1, <1>4, <1>6
  <2>4. t.stage # "reverse"
    OBVIOUS
  <2> QED
    BY <1>5, <2>1, <2>2, <2>3, <2>4 DEF Progress
<1>8. Settling(ledger, t)
  BY <1>1, <1>2, <1>4, <1>7 DEF Settling
<1>9. Advancing(ledger, tx)
  BY DEF ChainInv
<1>10. Regular(ledger, t) => DebtExact(n)
  <2>1. ASSUME DebtExact(d) PROVE DebtExact(n)
    BY <1>2, <1>4, <2>1 DEF DebtExact, Plus
  <2>2. Regular(ledger, t) <=> Regular(ledger, tx)
    BY DEF Regular
  <2> QED
    BY <1>9, <2>1, <2>2 DEF Advancing
<1> QED
  BY <1>1, <1>8, <1>9, <1>10 DEF Advancing, History

(* What the revisions before the settled one were charged, in the draft too.  *)
LEMMA DraftEarlier ==
  ASSUME FInv, ChainInv, tx # NoTx, tx.stage \in {"consume", "reverse"}
  PROVE  \A S \in SUBSET Sources :
           /\ Charged(tx.draft, Earlier(tx.event), S) = Charged(ledger, Earlier(tx.event), S)
           /\ Charged(ledger, Earlier(tx.event), S) \in Int
<1> DEFINE d == tx.draft
           e == tx.event
           A == Earlier(e)
<1>1. Settling(ledger, tx) /\ e \in Events /\ d \in Ledger /\ ledger \in Ledger
  BY InSettlement
<1>2. Journal(d) /\ Journal(ledger) /\ A \in SUBSET Events /\ e \notin A
  BY <1>1, Journals, RevisionSets
<1>3. \A m \in A : \A q : d.charge[m][q] = ledger.charge[m][q]
  BY <1>1, <1>2 DEF Settling
<1> SUFFICES ASSUME NEW S \in SUBSET Sources
             PROVE  Charged(d, A, S) = Charged(ledger, A, S) /\ Charged(ledger, A, S) \in Int
  OBVIOUS
<1> HIDE DEF A, d
<1>4. Charged(d, A, S) = Charged(ledger, A, S)
  BY <1>2, <1>3, ChargedAlike
<1>5. Summed(ledger, A, S)
  BY <1>2, ChargedSum
<1> QED
  BY <1>4, <1>5 DEF Summed

(* A correction takes no more from a source than the earlier revisions were   *)
(* charged to it, and all of that if more is left to correct.                *)
LEMMA ReversalOnTrack ==
  ASSUME FInv, ChainInv, tx # NoTx, tx.stage = "reverse", NEW s \in Sources,
         NEW units \in 1..tx.left, Reverses(s, units)
  PROVE  /\ s \notin tx.reversed
         /\ units <= Charged(ledger, Earlier(tx.event), {s})
         /\ tx.left - units > 0 =>
              Charged(ledger, Earlier(tx.event), tx.reversed \union {s}) + (tx.left - units)
                = Charged(ledger, Earlier(tx.event), tx.reversed) + tx.left
<1> DEFINE e == tx.event
           A == Earlier(e)
           prior == Charged(ledger, A, {s})
<1>1. e \in Events /\ ledger \in Ledger /\ tx.left \in Nat /\ tx.reversed \in SUBSET Sources
  BY InSettlement, Opened
<1>2. {s} \in SUBSET Sources /\ A \in SUBSET Events /\ Journal(ledger)
  BY <1>1, RevisionSets, Journals
<1>3. NetPrior(tx.draft, e, s) = prior /\ prior \in Int
  <2>1. NetPrior(tx.draft, e, s) = Charged(tx.draft, A, {s})
    BY DEF NetPrior, Earlier
  <2> QED
    BY <1>2, <2>1, DraftEarlier
<1>4. s \notin tx.reversed /\ prior > 0 /\ units = SmallerOf(prior, tx.left)
  BY <1>3 DEF Reverses, Reversible
<1>5. Charged(ledger, A, tx.reversed) \in Int
  BY <1>1, DraftEarlier
<1> HIDE DEF A, prior, e
<1>6. Charged(ledger, A, tx.reversed \union {s}) = Charged(ledger, A, tx.reversed) + prior
  <2>1. tx.reversed \intersect {s} = {}
    BY <1>4
  <2>2. Charged(ledger, A, tx.reversed \union {s})
          = Charged(ledger, A, tx.reversed) + Charged(ledger, A, {s})
    BY <1>1, <1>2, <2>1, ChargedSources
  <2> QED
    BY <2>2 DEF prior
<1>7. units <= prior
  BY <1>1, <1>3, <1>4 DEF SmallerOf
<1>8. tx.left - units > 0 => units = prior
  BY <1>1, <1>3, <1>4 DEF SmallerOf
<1>9. tx.left - units > 0 =>
        Charged(ledger, A, tx.reversed \union {s}) + (tx.left - units)
          = Charged(ledger, A, tx.reversed) + tx.left
  BY <1>1, <1>3, <1>5, <1>6, <1>8
<1> QED
  BY <1>4, <1>7, <1>9 DEF A, prior, e

(* The postpaid debt of a component whose correction has not come to it yet   *)
(* is what its earlier revisions were charged.                              *)
LEMMA DebtBefore ==
  ASSUME FInv, ChainInv, tx # NoTx, tx.stage = "reverse", Progress(ledger, tx),
         tx.event \notin ledger.settled, InTurn(ledger, tx.event),
         Postpaid \notin tx.reversed
  PROVE  Debt(tx.draft, tx.event[1]) = Charged(ledger, Earlier(tx.event), {Postpaid})
<1> DEFINE d == tx.draft
           e == tx.event
           R == RevisionsOf(e[1])
           P == {Postpaid}
<1>1. /\ Settling(ledger, tx) /\ e \in Events /\ d \in Ledger /\ ledger \in Ledger
      /\ Chained(ledger)
  BY InSettlement DEF ChainInv
<1>2. Journal(d) /\ Journal(ledger) /\ R \in SUBSET Events /\ P \in SUBSET Sources
      /\ Postpaid \in Sources
  BY <1>1, Journals, RevisionSets DEF Sources
<1>3. d.charge[e][Postpaid] = 0 /\ ledger.charge[e][Postpaid] = 0
  <2>1. d.charge[e][Postpaid] = 0
    BY <1>2 DEF Progress
  <2>2. Quiet(ledger, e)
    BY <1>1 DEF Chained
  <2> QED
    BY <1>2, <2>1, <2>2 DEF Quiet
<1>4. \A m \in R, q \in P : d.charge[m][q] = ledger.charge[m][q]
  BY <1>1, <1>2, <1>3 DEF Settling
<1>5. Debt(d, e[1]) = Charged(d, R, P)
  BY DEF Debt
<1>6. Charged(ledger, R, P) = Charged(ledger, Earlier(e), P)
  BY <1>1, <1>2, EarlierTotal
<1> HIDE DEF R, P, d
<1>7. Charged(d, R, P) = Charged(ledger, R, P)
  BY <1>2, <1>4, ChargedAlike
<1> QED
  BY <1>5, <1>6, <1>7 DEF P, d

(* While the open settlement corrects, no component's debt is negative.       *)
LEMMA DebtsStand ==
  ASSUME FInv, ChainInv, tx # NoTx, tx.stage = "reverse", Progress(ledger, tx),
         Spotless(ledger)
  PROVE  \A c \in Components : Debt(tx.draft, c) >= 0
<1> SUFFICES ASSUME NEW c \in Components PROVE Debt(tx.draft, c) >= 0
  OBVIOUS
<1> DEFINE d == tx.draft
           e == tx.event
           R == RevisionsOf(c)
           P == {Postpaid}
<1>1. /\ Settling(ledger, tx) /\ e \in Events /\ d \in Ledger /\ ledger \in Ledger
      /\ Reckoned(ledger)
  BY InSettlement DEF ChainInv
<1>2. Journal(d) /\ Journal(ledger) /\ R \in SUBSET Events /\ P \in SUBSET Sources
  BY <1>1, Journals, RevisionSets DEF Sources
<1>3. CASE c = e[1]
  BY <1>3 DEF Progress
<1>4. CASE c # e[1]
  <2>1. e \notin R
    BY <1>4 DEF RevisionsOf
  <2>2. \A m \in R, q \in P : d.charge[m][q] = ledger.charge[m][q]
    BY <1>1, <1>2, <2>1 DEF Settling
  <2>3. Debt(d, c) = Charged(d, R, P) /\ Debt(ledger, c) = Charged(ledger, R, P)
    BY DEF Debt
  <2>4. Debt(ledger, c) >= 0
    BY <1>1 DEF Reckoned, Clean, Spotless
  <2> HIDE DEF R, P, d
  <2>5. Charged(d, R, P) = Charged(ledger, R, P)
    BY <1>2, <2>2, ChargedAlike
  <2> QED
    BY <2>3, <2>4, <2>5 DEF d
<1> QED
  BY <1>3, <1>4

(* A step that gives units back: credits to their grant, or postpaid units.    *)
LEMMA ReversalAdvances ==
  ASSUME FInv, ChainInv, tx # NoTx, tx.stage = "reverse", NEW s \in Sources,
         NEW units \in 1..tx.left, Reverses(s, units), NEW t, t.command = tx.command,
         t.event = tx.event, t.stage = tx.stage, t.left = tx.left - units,
         t.reversed = tx.reversed \union {s}, t.draft \in Ledger,
         History(tx.draft, t.draft), Charges(tx.draft, t.draft, tx.event, s, -units),
         t.draft.exposure.settled =
           tx.draft.exposure.settled
             - (IF s = Postpaid THEN SmallerOf(tx.draft.exposure.settled, units) ELSE 0)
  PROVE  Advancing(ledger, t)
<1> DEFINE d == tx.draft
           n == t.draft
           e == tx.event
           c == e[1]
           P == {Postpaid}
<1>1. /\ tx.command = "settle" /\ Settling(ledger, tx) /\ e \in Events /\ c \in Components
      /\ ~HasSettlement(ledger, e) /\ d \in Ledger /\ tx.left \in Nat /\ units \in Nat
      /\ Regular(ledger, tx) =>
           /\ e \notin ledger.settled /\ InTurn(ledger, e) /\ Progress(ledger, tx)
           /\ DebtExact(d)
  BY InSettlement, Opened
<1>2. Journal(d) /\ Journal(n) /\ n.forfeited = d.forfeited /\ d.exposure.settled \in Nat
  BY <1>1, Journals DEF History
<1> DEFINE u == -units
<1>3. Charges(d, n, e, s, u) /\ u \in Int
  BY <1>1
<1>4. /\ NetCharge(d, c) \in Int /\ Debt(d, c) \in Int /\ Charged(d, Events, P) \in Int
      /\ NetCharge(n, c) = NetCharge(d, c) + u
      /\ Debt(n, c) = Plus(Debt(d, c), Postpaid, s, u)
      /\ Charged(n, Events, P) = Plus(Charged(d, Events, P), Postpaid, s, u)
      /\ \A f \in Events \ {e} : n.charge[f] = d.charge[f]
      /\ \A q \in Sources \ {s} : n.charge[e][q] = d.charge[e][q]
  <2>1. e \in Events /\ Journal(d)
    BY <1>1, <1>2
  <2> HIDE DEF u, d, n, e
  <2>2. Entered(d, n, e, s, u)
    BY <1>3, <2>1, EntryPosted
  <2> QED
    BY <2>2 DEF Entered
<1>5. Forfeited(n, c) = Forfeited(d, c)
  BY <1>2, SameForfeits
<1>6. Ahead(t) = -(tx.left - units) /\ Ahead(tx) = -tx.left
  BY <1>1 DEF Ahead
<1>7. /\ s \notin tx.reversed
      /\ units <= Charged(ledger, Earlier(e), {s})
      /\ tx.left - units > 0 =>
           Charged(ledger, Earlier(e), tx.reversed \union {s}) + (tx.left - units)
             = Charged(ledger, Earlier(e), tx.reversed) + tx.left
  BY ReversalOnTrack
<1>8. ASSUME Progress(ledger, tx), e \notin ledger.settled, InTurn(ledger, e), s = Postpaid
      PROVE  units <= Debt(d, c)
  <2>1. Debt(d, c) = Charged(ledger, Earlier(e), {s})
    BY <1>7, <1>8, DebtBefore
  <2> QED
    BY <1>7, <2>1
<1>9. ASSUME Progress(ledger, tx), e \notin ledger.settled, InTurn(ledger, e)
      PROVE  Progress(ledger, t)
  <2>1. /\ Debt(d, c) >= 0 /\ NetCharge(d, c) + Ahead(tx) = ledger.event[e].units + Forfeited(d, c)
        /\ \A q \in Sources \ tx.reversed : d.charge[e][q] = 0
        /\ tx.left > 0 => Charged(ledger, Earlier(e), tx.reversed) + tx.left
                            = LatestUnits(ledger, c) - ledger.event[e].units
    BY <1>9 DEF Progress
  <2>2. Debt(n, c) >= 0
    BY <1>1, <1>4, <1>8, <1>9, <2>1 DEF Plus
  <2>3. NetCharge(n, c) + Ahead(t) = NetCharge(d, c) + Ahead(tx)
    BY <1>1, <1>4, <1>6
  <2>4. \A q \in Sources \ t.reversed : n.charge[e][q] = 0
    BY <1>4, <2>1
  <2>5. t.left > 0 => Charged(ledger, Earlier(e), t.reversed) + t.left
                        = LatestUnits(ledger, c) - ledger.event[e].units
    <3> SUFFICES ASSUME t.left > 0
                 PROVE  Charged(ledger, Earlier(e), t.reversed) + t.left
                          = LatestUnits(ledger, c) - ledger.event[e].units
      OBVIOUS
    <3>1. tx.left > 0 /\ tx.left - units > 0
      BY <1>1
    <3> QED
      BY <1>7, <2>1, <3>1
  <2> QED
    BY <1>5, <2>1, <2>2, <2>3, <2>4, <2>5 DEF Progress
<1>10. Settling(ledger, t)
  BY <1>1, <1>2, <1>4, <1>9 DEF Settling
<1>11. ASSUME Regular(ledger, t) PROVE DebtExact(n)
  <2>0. Regular(ledger, tx) /\ Spotless(ledger)
    BY <1>11 DEF Regular
  <2>1. DebtExact(d) /\ Progress(ledger, tx) /\ e \notin ledger.settled /\ InTurn(ledger, e)
    BY <1>1, <2>0
  <2>2. CASE s # Postpaid
    BY <1>2, <1>4, <2>1, <2>2 DEF DebtExact, Plus
  <2>3. CASE s = Postpaid
    <3>1. Charged(d, Events, P) >= Debt(d, c)
      BY <1>1, <1>2, <2>0, <2>1, DebtsStand, DebtsCover
    <3>2. units <= d.exposure.settled
      BY <1>1, <1>2, <1>4, <1>8, <2>1, <2>3, <3>1 DEF DebtExact
    <3>3. SmallerOf(d.exposure.settled, units) = units
      BY <1>1, <1>2, <3>2 DEF SmallerOf
    <3>4. n.exposure.settled = d.exposure.settled - units
      BY <2>3, <3>3
    <3> QED
      BY <1>1, <1>2, <1>4, <2>1, <2>3, <3>4 DEF DebtExact, Plus
  <2> QED
    BY <2>2, <2>3
<1>12. Advancing(ledger, tx)
  BY DEF ChainInv
<1> QED
  BY <1>1, <1>10, <1>11, <1>12 DEF Advancing, History

(* A correction that an expired grant keeps.                                 *)
LEMMA ForfeitAdvances ==
  ASSUME FInv, ChainInv, tx # NoTx, tx.stage = "reverse", NEW s \in Sources,
         NEW units \in 1..tx.left, Reverses(s, units), NEW t, t.command = tx.command,
         t.event = tx.event, t.stage = tx.stage, t.left = tx.left - units,
         t.reversed = tx.reversed \union {s}, t.draft \in Ledger,
         t.draft = [tx.draft EXCEPT !.forfeited[tx.event] = @ + units]
  PROVE  Advancing(ledger, t)
<1> DEFINE d == tx.draft
           n == t.draft
           e == tx.event
           c == e[1]
<1>1. /\ tx.command = "settle" /\ Settling(ledger, tx) /\ e \in Events /\ c \in Components
      /\ ~HasSettlement(ledger, e) /\ d \in Ledger /\ tx.left \in Nat /\ units \in Nat
  BY InSettlement, Opened
<1>2. /\ Journal(d) /\ d.forfeited \in [Events -> Nat] /\ n.forfeited \in [Events -> Nat]
      /\ RevisionsOf(c) \in SUBSET Events /\ e \in RevisionsOf(c)
  BY <1>1, Journals, RevisionSets
<1>3. /\ n.charge = d.charge /\ n.exposure = d.exposure
      /\ n.event = d.event /\ n.settled = d.settled /\ n.unposted = d.unposted
      /\ n.outOfTurn = d.outOfTurn
      /\ n.forfeited = [d.forfeited EXCEPT ![e] = @ + units]
  BY <1>1 DEF Ledger
<1>4. n.forfeited[e] = d.forfeited[e] + units
      /\ \A f \in Events \ {e} : n.forfeited[f] = d.forfeited[f]
  BY <1>1, <1>2, <1>3
<1>5. Forfeited(n, c) = Forfeited(d, c) + units /\ Forfeited(d, c) \in Nat
  <2> HIDE DEF d, n
  <2>1. Forfeited(d, c) \in Nat
    BY <1>1, <1>2, ForfeitedType
  <2>2. units \in Int
    BY <1>1
  <2> QED
    BY <1>1, <1>2, <1>4, <2>1, <2>2, ForfeitedMoves
<1>6. /\ \A E, S : Charged(n, E, S) = Charged(d, E, S)
      /\ NetCharge(n, c) = NetCharge(d, c) /\ Debt(n, c) = Debt(d, c)
  <2> HIDE DEF d, n, e
  <2>1. /\ \A E, S : Charged(n, E, S) = Charged(d, E, S)
        /\ \A x : NetCharge(n, x) = NetCharge(d, x) /\ Debt(n, x) = Debt(d, x)
    BY <1>3, SameCharges
  <2> QED
    BY <2>1
<1>7. Ahead(t) = -(tx.left - units) /\ Ahead(tx) = -tx.left
  BY <1>1 DEF Ahead
<1>8. /\ tx.left - units > 0 =>
           Charged(ledger, Earlier(e), tx.reversed \union {s}) + (tx.left - units)
             = Charged(ledger, Earlier(e), tx.reversed) + tx.left
  BY ReversalOnTrack
<1>9. NetCharge(d, c) \in Int
  <2>1. Summed(d, RevisionsOf(c), Sources)
    BY <1>2, ChargedSum
  <2> QED
    BY <2>1 DEF Summed, NetCharge
<1>10. ASSUME Progress(ledger, tx) PROVE Progress(ledger, t)
  <2>1. /\ Debt(d, c) >= 0 /\ NetCharge(d, c) + Ahead(tx) = ledger.event[e].units + Forfeited(d, c)
        /\ \A q \in Sources \ tx.reversed : d.charge[e][q] = 0
        /\ tx.left > 0 => Charged(ledger, Earlier(e), tx.reversed) + tx.left
                            = LatestUnits(ledger, c) - ledger.event[e].units
    BY <1>10 DEF Progress
  <2>2. Ahead(t) = Ahead(tx) + units
    BY <1>1, <1>7
  <2>3. NetCharge(n, c) + Ahead(t) = ledger.event[e].units + Forfeited(n, c)
    <3>1. ledger.event[e].units \in Nat /\ Ahead(tx) \in Int
      BY <1>1, <1>7, InSettlement, Journals
    <3> QED
      BY <1>1, <1>5, <1>6, <1>9, <2>1, <2>2, <3>1
  <2>4. \A q \in Sources \ t.reversed : n.charge[e][q] = 0
    BY <1>3, <2>1
  <2>5. t.left > 0 => Charged(ledger, Earlier(e), t.reversed) + t.left
                        = LatestUnits(ledger, c) - ledger.event[e].units
    <3> SUFFICES ASSUME t.left > 0
                 PROVE  Charged(ledger, Earlier(e), t.reversed) + t.left
                          = LatestUnits(ledger, c) - ledger.event[e].units
      OBVIOUS
    <3>1. tx.left > 0 /\ tx.left - units > 0
      BY <1>1
    <3> QED
      BY <1>8, <2>1, <3>1
  <2> QED
    BY <1>6, <2>1, <2>3, <2>4, <2>5 DEF Progress
<1>11. Settling(ledger, t)
  BY <1>1, <1>3, <1>4, <1>10 DEF Settling
<1>12. Advancing(ledger, tx)
  BY DEF ChainInv
<1>13. Regular(ledger, t) => DebtExact(n)
  <2>1. Regular(ledger, t) <=> Regular(ledger, tx)
    BY DEF Regular
  <2> QED
    BY <1>3, <1>6, <1>12, <2>1 DEF Advancing, DebtExact
<1> QED
  BY <1>1, <1>3, <1>11, <1>12, <1>13 DEF Advancing

(* What the latest settled revision says is a number of units.               *)
LEMMA LatestType ==
  ASSUME NEW d \in Ledger, Chained(d), NEW c \in Components
  PROVE  LatestUnits(d, c) \in Nat
<1>1. CASE Done(d, c) = {}
  BY <1>1 DEF LatestUnits, Done
<1>2. CASE Done(d, c) # {}
  <2>1. PICK k \in Done(d, c) : \A j \in Done(d, c) : j <= k
    BY <1>2, LatestExists
  <2>2. LatestUnits(d, c) = d.event[<<c, k>>].units
    BY <2>1, LatestIs
  <2>3. <<c, k>> \in Events /\ <<c, k>> \in d.settled
    BY DEF Done, Events
  <2>4. d.event[<<c, k>>] # None
    BY <2>3 DEF Chained
  <2> QED
    BY <2>2, <2>3, <2>4, Journals
<1> QED
  BY <1>1, <1>2

(* A correction ends with nothing left to give back: what the revisions      *)
(* before were charged is enough for it.                                    *)
LEMMA EndAdvances ==
  ASSUME FInv, ChainInv, tx # NoTx, tx.stage = "reverse",
         tx.left = 0 \/ \A s \in Sources : ~Reversible(s),
         NEW t, t.command = tx.command, t.event = tx.event, t.left = 0,
         t.stage \in {"release", "close"}, t.draft = tx.draft
  PROVE  Advancing(ledger, t)
<1> DEFINE d == tx.draft
           e == tx.event
           c == e[1]
           A == Earlier(e)
           u == ledger.event[e].units
<1>1. /\ tx.command = "settle" /\ Settling(ledger, tx) /\ e \in Events /\ c \in Components
      /\ ~HasSettlement(ledger, e) /\ ledger \in Ledger /\ tx.left \in Nat
      /\ tx.reversed \in SUBSET Sources /\ ledger.event[e] # None
      /\ Chained(ledger) /\ Reckoned(ledger) /\ Advancing(ledger, tx)
  BY InSettlement, Opened DEF ChainInv
<1>2. Journal(ledger) /\ A \in SUBSET Events /\ u \in Nat /\ ledger.forfeited \in [Events -> Nat]
  BY <1>1, Journals, RevisionSets
<1>3. ASSUME Progress(ledger, tx), e \notin ledger.settled, InTurn(ledger, e),
             Clean(ledger, c), tx.left > 0
      PROVE  FALSE
  <2>1. Charged(ledger, A, tx.reversed) + tx.left = LatestUnits(ledger, c) - u
    BY <1>3 DEF Progress
  <2>2. ASSUME NEW s \in Sources \ tx.reversed PROVE Charged(ledger, A, {s}) <= 0
    <3>1. ~Reversible(s)
      BY <1>3
    <3>2. ~(NetPrior(d, e, s) > 0)
      BY <3>1 DEF Reversible
    <3>3. NetPrior(d, e, s) = Charged(d, A, {s})
      BY DEF NetPrior, Earlier
    <3>4. {s} \in SUBSET Sources
      OBVIOUS
    <3>5. Charged(d, A, {s}) = Charged(ledger, A, {s}) /\ Charged(ledger, A, {s}) \in Int
      BY <3>4, DraftEarlier
    <3> QED
      BY <3>2, <3>3, <3>5
  <2>3. Charged(ledger, A, Sources) <= Charged(ledger, A, tx.reversed)
    <3> HIDE DEF A
    <3> QED
      BY <1>1, <1>2, <2>2, ChargedLimited
  <2>4. Sources \in SUBSET Sources
    OBVIOUS
  <2>5. NetCharge(ledger, c) = Charged(ledger, A, Sources)
    BY <1>1, <1>2, <1>3, <2>4, EarlierTotal DEF NetCharge
  <2>6. NetCharge(ledger, c) = LatestUnits(ledger, c) + Forfeited(ledger, c)
    BY <1>1, <1>3 DEF Reckoned
  <2>7. Forfeited(ledger, c) \in Nat /\ LatestUnits(ledger, c) \in Nat
    BY <1>1, <1>2, ForfeitedType, LatestType
  <2>8. Charged(ledger, A, tx.reversed) \in Int
    BY <1>1, DraftEarlier
  <2> HIDE DEF A, u, c
  <2> QED
    BY <1>1, <1>2, <1>3, <2>1, <2>3, <2>5, <2>6, <2>7, <2>8
<1>4. ASSUME Progress(ledger, tx), e \notin ledger.settled, InTurn(ledger, e), Clean(ledger, c)
      PROVE  Progress(ledger, t)
  <2>1. tx.left = 0
    BY <1>1, <1>3, <1>4
  <2>2. Ahead(t) = Ahead(tx)
    <3>1. Ahead(t) = 0
      BY DEF Ahead
    <3>2. Ahead(tx) = -tx.left
      BY DEF Ahead
    <3> DEFINE x == tx.left
               y == -x
    <3>3. x = 0 /\ x \in Int
      BY <2>1
    <3>4. Ahead(tx) = y
      BY <3>2
    <3> HIDE DEF x
    <3>5. y \in Int /\ y + x = 0
      BY <3>3
    <3> HIDE DEF y
    <3>6. y = 0
      BY <3>3, <3>5
    <3> QED
      BY <3>1, <3>4, <3>6
  <2> QED
    BY <1>4, <2>2 DEF Progress
<1>5. Settling(ledger, t)
  BY <1>1, <1>4 DEF Settling
<1>6. Regular(ledger, t) <=> Regular(ledger, tx)
  BY DEF Regular
<1> QED
  BY <1>1, <1>5, <1>6 DEF Advancing

(* Tables with the same entries, events and settlements.                     *)
LEMMA SameChain ==
  ASSUME NEW d, NEW n, n.charge = d.charge, n.forfeited = d.forfeited, n.event = d.event,
         n.settled = d.settled, n.unposted = d.unposted, n.outOfTurn = d.outOfTurn
  PROVE  /\ Chained(d) => Chained(n)
         /\ Reckoned(d) => Reckoned(n)
         /\ n.exposure.settled = d.exposure.settled => (DebtExact(d) => DebtExact(n))
<1>1. /\ \A E, S : Charged(n, E, S) = Charged(d, E, S)
      /\ \A c : NetCharge(n, c) = NetCharge(d, c) /\ Debt(n, c) = Debt(d, c)
      /\ \A m : HasSettlement(n, m) <=> HasSettlement(d, m)
  BY SameCharges
<1>2. \A c : Forfeited(n, c) = Forfeited(d, c)
  BY SameForfeits
<1>3. \A c : LatestUnits(n, c) = LatestUnits(d, c) /\ (Clean(n, c) <=> Clean(d, c))
  BY DEF LatestUnits, Clean
<1>4. \A e : Quiet(n, e) <=> Quiet(d, e)
  BY DEF Quiet
<1>5. Chained(d) => Chained(n)
  BY <1>1, <1>4 DEF Chained
<1>6. Reckoned(d) => Reckoned(n)
  BY <1>1, <1>2, <1>3 DEF Reckoned
<1>7. n.exposure.settled = d.exposure.settled => (DebtExact(d) => DebtExact(n))
  BY <1>1 DEF DebtExact
<1> QED
  BY <1>5, <1>6, <1>7

(* A command that settles nothing commits.                                   *)
LEMMA CommitsOther ==
  ASSUME FInv, ChainInv, tx # NoTx, tx.command # "settle", NEW n, Commit(n),
         History(tx.draft, n), n.charge = tx.draft.charge, n.exposure = tx.draft.exposure
  PROVE  ChainInv'
<1> DEFINE d == ledger
<1>1. Advancing(d, tx) /\ Chained(d) /\ Reckoned(d)
  BY DEF ChainInv
<1>2. /\ n.charge = d.charge /\ n.forfeited = d.forfeited /\ n.event = d.event
      /\ n.settled = d.settled /\ n.unposted = d.unposted /\ n.outOfTurn = d.outOfTurn
  BY <1>1 DEF Advancing, History
<1>3. Chained(n) /\ Reckoned(n)
  BY <1>1, <1>2, SameChain
<1>4. Spotless(n) => DebtExact(n)
  <2>1. Spotless(n) => DebtExact(tx.draft)
    BY <1>1, <1>2 DEF Advancing, Regular, Spotless
  <2>2. \A E, S : Charged(n, E, S) = Charged(tx.draft, E, S)
    BY SameCharges
  <2> QED
    BY <1>2, <2>1, <2>2 DEF DebtExact
<1>5. ledger' = n /\ tx' = NoTx
  BY DEF Commit
<1> QED
  BY <1>3, <1>4, <1>5 DEF ChainInv

(* A revision is settled in its turn: it is the latest one.                  *)
LEMMA LatestSettled ==
  ASSUME NEW d, NEW e \in Events, e \notin d.settled, InTurn(d, e),
         NEW n, n.settled = d.settled \union {e}, n.event = d.event
  PROVE  LatestUnits(n, e[1]) = d.event[e].units
<1> DEFINE c == e[1]
           k == e[2]
<1>1. k \in 1..MaxRevision /\ e = <<c, k>> /\ MaxRevision \in Int
  BY RevisionSets, FundingAssumption
<1>2. \A j \in Done(d, c) : j < k
  BY DoneBefore
<1>3. k \in Done(n, c)
  BY <1>1 DEF Done
<1>4. ASSUME NEW j \in Done(n, c) PROVE j <= k
  <2>1. j \in 1..MaxRevision /\ (<<c, j>> \in d.settled \/ <<c, j>> = e)
    BY DEF Done
  <2>2. CASE <<c, j>> = e
    <3>1. j = k
      BY <1>1, <2>2
    <3> QED
      BY <1>1, <3>1
  <2>3. CASE <<c, j>> \in d.settled
    <3>1. j < k
      BY <1>2, <2>1, <2>3 DEF Done
    <3> QED
      BY <1>1, <2>1, <3>1
  <2> QED
    BY <2>1, <2>2, <2>3
<1> HIDE DEF c, k
<1>5. LatestUnits(n, c) = n.event[<<c, k>>].units
  BY <1>3, <1>4, LatestIs
<1> QED
  BY <1>1, <1>5 DEF c

(* A settlement commits: in its turn, the revision is its component's latest.  *)
LEMMA CommitsSettled ==
  ASSUME FInv, ChainInv, tx # NoTx, tx.command = "settle", tx.stage \in {"release", "close"},
         NEW m, History(tx.draft, m), m.charge = tx.draft.charge,
         m.exposure = tx.draft.exposure, Commit(Recorded(m, tx.event))
  PROVE  ChainInv'
<1> DEFINE d == ledger
           k == tx.draft
           e == tx.event
           c == e[1]
           n == Recorded(m, e)
<1>1. /\ Advancing(d, tx) /\ Settling(d, tx) /\ Chained(d) /\ Reckoned(d)
      /\ e \in Events /\ k.event[e] # None /\ k \in Ledger /\ d \in Ledger
  BY Opened DEF ChainInv, Advancing, FInv, Sound
<1>2. {"charge", "forfeited", "event", "settled", "unposted", "outOfTurn", "exposure"} \subseteq DOMAIN m
  BY <1>1 DEF History, Ledger
<1>3. /\ n.charge = k.charge /\ n.forfeited = k.forfeited /\ n.event = d.event
      /\ n.settled = d.settled \union {e} /\ n.exposure = k.exposure
      /\ n.unposted = IF HasSettlement(k, e) THEN d.unposted ELSE d.unposted \union {e}
      /\ n.outOfTurn = IF Turn(d, e) THEN d.outOfTurn ELSE d.outOfTurn \union {c}
  <2>1. HasSettlement(m, e) <=> HasSettlement(k, e)
    BY SameCharges
  <2>2. m.event = d.event /\ m.settled = d.settled /\ m.unposted = d.unposted
        /\ m.forfeited = k.forfeited /\ m.outOfTurn = d.outOfTurn
    BY <1>1 DEF Advancing, History
  <2>3. /\ n.charge = m.charge /\ n.forfeited = m.forfeited /\ n.event = m.event
        /\ n.settled = m.settled \union {e} /\ n.exposure = m.exposure
        /\ n.unposted = IF HasSettlement(m, e) THEN m.unposted ELSE m.unposted \union {e}
        /\ n.outOfTurn = IF Turn(m, e) THEN m.outOfTurn ELSE m.outOfTurn \union {c}
    BY <1>2 DEF Recorded, Turn
  <2>4. Turn(m, e) <=> Turn(d, e)
    BY <2>2 DEF Turn, InTurn, Previous
  <2> QED
    BY <2>1, <2>2, <2>3, <2>4
<1>4. ledger' = n /\ tx' = NoTx
  BY DEF Commit
<1> HIDE DEF n
<1>5. /\ c \in Components /\ e \in RevisionsOf(c)
      /\ Journal(d) /\ Journal(k) /\ Journal(n)
      /\ d.forfeited \in [Events -> Nat] /\ k.forfeited \in [Events -> Nat]
      /\ d.event[e] # None /\ d.event[e].units \in Nat
  <2>1. Journal(d) /\ Journal(k) /\ d.forfeited \in [Events -> Nat] /\ k.forfeited \in [Events -> Nat]
    BY <1>1, Journals
  <2>2. Journal(n)
    BY <1>3, <2>1 DEF Journal
  <2>3. d.event[e] # None
    BY <1>1 DEF Advancing
  <2>4. d.event[e].units \in Nat
    BY <1>1, <2>3, Journals
  <2> QED
    BY <1>1, <2>1, <2>2, <2>3, <2>4, RevisionSets
<1>6. \A f \in Events \ {e} : n.charge[f] = d.charge[f] /\ n.forfeited[f] = d.forfeited[f]
  BY <1>1, <1>3 DEF Settling
<1>7. HasSettlement(n, e) <=> HasSettlement(k, e)
  BY <1>3 DEF HasSettlement
<1>8. Chained(n)
  <2> SUFFICES ASSUME NEW f \in Events
               PROVE  /\ f \in n.settled => n.event[f] # None
                      /\ f \in n.settled \/ Quiet(n, f)
                      /\ f \in n.settled => HasSettlement(n, f) \/ f \in n.unposted
    BY DEF Chained
  <2>1. /\ f \in d.settled => d.event[f] # None
        /\ f \in d.settled \/ Quiet(d, f)
        /\ f \in d.settled => HasSettlement(d, f) \/ f \in d.unposted
    BY <1>1 DEF Chained
  <2>2. d.unposted \subseteq n.unposted /\ d.settled \subseteq n.settled
    BY <1>3
  <2>3. CASE f = e
    BY <1>3, <1>5, <1>7, <2>1, <2>2, <2>3
  <2>4. CASE f # e
    <3>1. f \in n.settled <=> f \in d.settled
      BY <1>3, <2>4
    <3>2. n.charge[f] = d.charge[f] /\ n.forfeited[f] = d.forfeited[f]
      BY <1>6, <2>4
    <3>3. (Quiet(n, f) <=> Quiet(d, f)) /\ (HasSettlement(n, f) <=> HasSettlement(d, f))
      BY <3>2 DEF Quiet, HasSettlement
    <3> QED
      BY <1>3, <2>1, <2>2, <3>1, <3>3
  <2> QED
    BY <2>3, <2>4
<1>9. ASSUME NEW x \in Components, Clean(n, x), x # c
      PROVE  NetCharge(n, x) = LatestUnits(n, x) + Forfeited(n, x) /\ Debt(n, x) >= 0
  <2>1. e \notin RevisionsOf(x) /\ RevisionsOf(x) \in SUBSET Events
    <3>1. RevisionsOf(x) \in SUBSET Events
      BY RevisionSets
    <3>2. \A f \in RevisionsOf(x) : f[1] = x
      BY DEF RevisionsOf
    <3>3. e[1] # x
      BY <1>9
    <3> QED
      BY <3>1, <3>2, <3>3
  <2>2. Clean(d, x)
    BY <1>3, <1>9 DEF Clean
  <2>3. NetCharge(d, x) = LatestUnits(d, x) + Forfeited(d, x) /\ Debt(d, x) >= 0
    BY <1>1, <2>2 DEF Reckoned
  <2>4. \A f \in RevisionsOf(x) : \A s : n.charge[f][s] = d.charge[f][s]
    BY <1>6, <2>1
  <2>5. Sources \in SUBSET Sources /\ {Postpaid} \in SUBSET Sources
    BY DEF Sources
  <2>6. NetCharge(n, x) = NetCharge(d, x)
    BY <1>5, <2>1, <2>4, <2>5, ChargedAlike DEF NetCharge
  <2>7. Debt(n, x) = Debt(d, x)
    BY <1>5, <2>1, <2>4, <2>5, ChargedAlike DEF Debt
  <2>8. Forfeited(n, x) = Forfeited(d, x)
    BY <1>6, <2>1, ForfeitedAlike
  <2>9. LatestUnits(n, x) = LatestUnits(d, x)
    <3>1. Done(n, x) = Done(d, x)
      BY <1>3, <2>1 DEF Done, RevisionsOf
    <3> QED
      BY <1>3, <3>1, LatestAlike
  <2> QED
    BY <2>3, <2>6, <2>7, <2>8, <2>9
<1>10. ASSUME Clean(n, c)
       PROVE  NetCharge(n, c) = LatestUnits(n, c) + Forfeited(n, c) /\ Debt(n, c) >= 0
  <2>1. Clean(d, c) /\ HasSettlement(k, e) /\ Turn(d, e)
    BY <1>3, <1>5, <1>10 DEF Clean
  <2>2. /\ NetCharge(n, c) = NetCharge(k, c) /\ Debt(n, c) = Debt(k, c)
        /\ Forfeited(n, c) = Forfeited(k, c)
    BY <1>3, SameCharges, SameForfeits
  <2>3. CASE e \notin d.settled
    <3>1. Progress(d, tx)
      BY <1>1, <2>1, <2>3 DEF Settling, Turn
    <3>2. Ahead(tx) = 0
      BY DEF Ahead
    <3>3. Debt(k, c) >= 0 /\ NetCharge(k, c) + 0 = d.event[e].units + Forfeited(k, c)
      BY <3>1, <3>2 DEF Progress
    <3>4. LatestUnits(n, c) = d.event[e].units
      BY <1>1, <1>3, <2>1, <2>3, LatestSettled DEF Turn
    <3>5. NetCharge(k, c) \in Int
      <4>1. Summed(k, RevisionsOf(c), Sources)
        BY <1>5, RevisionSets, ChargedSum
      <4> QED
        BY <4>1 DEF Summed, NetCharge
    <3>6. NetCharge(k, c) = d.event[e].units + Forfeited(k, c)
      BY <3>3, <3>5
    <3> QED
      BY <2>2, <3>3, <3>4, <3>6
  <2>4. CASE e \in d.settled
    <3>1. HasSettlement(d, e)
      BY <1>1, <1>5, <2>1, <2>4 DEF Chained, Clean
    <3>2. n.charge[e] = d.charge[e] /\ n.forfeited[e] = d.forfeited[e]
      BY <1>1, <1>3, <3>1 DEF Settling
    <3>3. n.charge = d.charge /\ n.forfeited = d.forfeited
      <4>1. n.charge \in [Events -> [Sources -> Int]] /\ d.charge \in [Events -> [Sources -> Int]]
        BY <1>5 DEF Journal
      <4>2. n.forfeited \in [Events -> Nat]
        BY <1>3, <1>5
      <4>3. \A f \in Events : n.charge[f] = d.charge[f] /\ n.forfeited[f] = d.forfeited[f]
        BY <1>6, <3>2
      <4>4. n.charge = d.charge
        BY <4>1, <4>3
      <4>5. n.forfeited = d.forfeited
        BY <1>5, <4>2, <4>3
      <4> QED
        BY <4>4, <4>5
    <3>4. n.settled = d.settled /\ n.unposted = d.unposted /\ n.outOfTurn = d.outOfTurn
      BY <1>3, <2>1, <2>4
    <3>5. Reckoned(n)
      BY <1>1, <1>3, <3>3, <3>4, SameChain
    <3> QED
      BY <1>5, <1>10, <3>5 DEF Reckoned
  <2> QED
    BY <2>3, <2>4
<1>11. Reckoned(n)
  BY <1>9, <1>10 DEF Reckoned
<1>12. Spotless(n) => DebtExact(n)
  <2>1. Spotless(n) => Regular(d, tx)
    BY <1>3 DEF Regular, Spotless
  <2>3. Spotless(n) => DebtExact(k)
    BY <1>1, <2>1 DEF Advancing
  <2>2. \A E, S : Charged(n, E, S) = Charged(k, E, S)
    BY <1>3, SameCharges
  <2> QED
    BY <1>3, <2>2, <2>3 DEF DebtExact
<1> QED
  BY <1>4, <1>8, <1>11, <1>12 DEF ChainInv

------------------------------------------------------------------------------
(* Every step keeps the chain *)

(* The draft goes on in the same stage, with the same entries.               *)
LEMMA CalmStep ==
  ASSUME FInv, ChainInv, tx # NoTx, tx.stage \in {"fund", "release"}, NEW m, NEW left,
         Proceed(m, left, tx.stage), History(tx.draft, m), m.charge = tx.draft.charge,
         m.exposure.settled = tx.draft.exposure.settled
  PROVE  ChainInv'
<1>1. /\ tx'.draft = m /\ tx'.stage = tx.stage /\ tx'.command = tx.command
      /\ tx'.event = tx.event /\ UNCHANGED ledger
  BY NextSettling
<1>2. Advancing(ledger, tx')
  BY <1>1, CalmAdvances
<1> QED
  BY <1>1, <1>2, KeepsChain

(* Plan lines.                                                               *)
LEMMA FundChain ==
  ASSUME FInv, ChainInv, HoldPostpaid \/ \E g \in Grants : HoldCredits(g)
  PROVE  ChainInv'
<1> DEFINE d == tx.draft
           r == tx.reservation
<1>1. tx # NoTx /\ tx.stage = "fund"
  BY DEF HoldPostpaid, HoldCredits
<1>2. d \in Ledger /\ History(d, d) /\ tx.left \in Nat /\ d.exposure.settled \in Nat
      /\ {"exposure", "lines", "charge", "event"} \subseteq DOMAIN d
  BY <1>1, Opened DEF History, Ledger
<1>3. ASSUME NEW g \in Grants, HoldCredits(g) PROVE ChainInv'
  <2> DEFINE units == SmallerOf(d.balance[g] - d.held[g], tx.left)
             m == Moved(d, g, 0, units)
             line == NewLine(g, units)
             e == Appended(m, r, line)
  <2>1. Proceed(e, tx.left - units, tx.stage)
    BY <1>1, <1>3 DEF HoldCredits
  <2>2. e.charge = d.charge /\ e.exposure = d.exposure
    BY <1>2 DEF Moved, Appended
  <2> HIDE DEF units, line, d
  <2>3. History(d, m)
    BY <1>2, HistoryKept
  <2> HIDE DEF m
  <2>4. History(d, e)
    BY <1>2, <2>3, HistoryKept
  <2> HIDE DEF e
  <2> QED
    BY <1>1, <2>1, <2>2, <2>4, CalmStep DEF d
<1>4. ASSUME HoldPostpaid PROVE ChainInv'
  <2> DEFINE m == Exposed(d, tx.left, 0)
             line == NewLine(Postpaid, tx.left)
             e == Appended(m, r, line)
  <2>1. Proceed(e, 0, tx.stage)
    BY <1>1, <1>4 DEF HoldPostpaid
  <2>2. e.charge = d.charge /\ e.exposure.settled = d.exposure.settled
    BY <1>2 DEF Exposed, Appended
  <2> HIDE DEF line, d
  <2>3. History(d, m)
    BY <1>2, HistoryKept
  <2> HIDE DEF m
  <2>4. History(d, e)
    BY <1>2, <2>3, HistoryKept
  <2> HIDE DEF e
  <2> QED
    BY <1>1, <2>1, <2>2, <2>4, CalmStep DEF d
<1> QED
  BY <1>3, <1>4

(* A line is released.                                                       *)
LEMMA ReleaseChain ==
  ASSUME FInv, ChainInv, tx # NoTx, NEW i \in DOMAIN tx.draft.lines[tx.reservation],
         ReleaseLine(i)
  PROVE  ChainInv'
<1> DEFINE d == tx.draft
           r == tx.reservation
           s == d.lines[r][i].source
           units == Remaining(d.lines[r][i])
<1>1. tx.stage = "release"
  BY DEF ReleaseLine
<1>2. d \in Ledger /\ History(d, d) /\ d.exposure.settled \in Nat
      /\ {"balance", "held", "expired", "active", "exposure", "lines", "charge"} \subseteq DOMAIN d
  BY Opened DEF History, Ledger
<1>3. ASSUME NEW m, Proceed(MarkReleased(m, r, i), tx.left, "release"), History(d, m),
             m.charge = d.charge, m.exposure.settled = d.exposure.settled
      PROVE  ChainInv'
  <2> DEFINE e == MarkReleased(m, r, i)
  <2>0. {"lines", "charge", "exposure"} \subseteq DOMAIN m
    BY <1>2, <1>3 DEF History
  <2>1. e.charge = d.charge /\ e.exposure.settled = d.exposure.settled
    BY <1>3, <2>0 DEF MarkReleased
  <2> HIDE DEF d, r
  <2>2. History(d, e)
    BY <1>2, <1>3, HistoryKept
  <2>3. Proceed(e, tx.left, tx.stage)
    BY <1>1, <1>3
  <2> HIDE DEF e
  <2> QED
    BY <1>1, <2>1, <2>2, <2>3, CalmStep DEF d
<1>4. ASSUME Proceed(MarkReleased(ReleasePostpaid(d, units), r, i), tx.left, "release")
      PROVE  ChainInv'
  <2> DEFINE m == ReleasePostpaid(d, units)
  <2>1. m.charge = d.charge /\ m.exposure.settled = d.exposure.settled
    BY <1>2 DEF ReleasePostpaid, Exposed
  <2> HIDE DEF d, units
  <2>2. History(d, m)
    BY <1>2, HistoryKept DEF ReleasePostpaid
  <2>3. Proceed(MarkReleased(m, r, i), tx.left, "release")
    BY <1>4
  <2> HIDE DEF m
  <2> QED
    BY <1>3, <2>1, <2>2, <2>3
<1>5. ASSUME Proceed(MarkReleased(ReleaseCredits(d, s, units), r, i), tx.left, "release")
      PROVE  ChainInv'
  <2> DEFINE m == ReleaseCredits(d, s, units)
  <2>1. m.charge = d.charge /\ m.exposure.settled = d.exposure.settled
    BY <1>2 DEF ReleaseCredits, Moved
  <2> HIDE DEF d, s, units
  <2>2. History(d, m)
    BY <1>2, HistoryOfLines
  <2>3. Proceed(MarkReleased(m, r, i), tx.left, "release")
    BY <1>5
  <2> HIDE DEF m
  <2> QED
    BY <1>3, <2>1, <2>2, <2>3
<1> QED
  BY <1>4, <1>5 DEF ReleaseLine

(* The draft of the next step is a set of tables again.                      *)
LEMMA NextDraft == ASSUME FInv', tx' # NoTx PROVE tx'.draft \in Ledger
  BY DEF FInv, Pending, Sound

(* The draft goes on with a charge.                                          *)
LEMMA PostStep ==
  ASSUME FInv, FInv', ChainInv, tx # NoTx, tx.stage = "consume", NEW m, NEW left, NEW stage,
         Proceed(m, left, stage), NEW units \in Nat, left = tx.left - units,
         stage = "consume" \/ (stage \in {"release", "close"} /\ left = 0),
         History(tx.draft, m), NEW s \in Sources,
         Charges(tx.draft, m, tx.event, s, units),
         m.exposure.settled = Plus(tx.draft.exposure.settled, Postpaid, s, units)
  PROVE  ChainInv'
<1>1. /\ tx'.draft = m /\ tx'.stage = stage /\ tx'.left = left /\ tx'.command = tx.command
      /\ tx'.event = tx.event /\ UNCHANGED ledger
  BY NextSettling
<1>2. ASSUME tx' # NoTx PROVE Advancing(ledger, tx')
  <2>1. tx'.draft \in Ledger
    BY <1>2, NextDraft
  <2> QED
    BY <1>1, <2>1, PostAdvances
<1> QED
  BY <1>1, <1>2, KeepsChain

(* A line is charged.                                                        *)
LEMMA ConsumeChain ==
  ASSUME FInv, FInv', ChainInv, tx # NoTx,
         NEW i \in DOMAIN tx.draft.lines[tx.reservation], ConsumeLine(i)
  PROVE  ChainInv'
<1> DEFINE d == tx.draft
           r == tx.reservation
           line == d.lines[r][i]
           s == line.source
           units == SmallerOf(Remaining(line), tx.left)
           left == tx.left - units
           next == IF left = 0 THEN AfterCharge(tx.finalize) ELSE "consume"
<1>1. /\ d \in Ledger /\ History(d, d) /\ r \in Reservations /\ i \in DOMAIN d.lines[r]
      /\ tx.stage = "consume" /\ tx.left \in Nat /\ d.exposure.settled \in Nat
      /\ {"balance", "held", "exposure", "lines", "charge"} \subseteq DOMAIN d
  BY Opened DEF ConsumeLine, History, Ledger
<1>2. s \in Sources /\ units \in Nat
  <2>1. i \in Unused(d.lines[r])
    BY DEF ConsumeLine, NextUnused
  <2>2. d.lines[r] \in Seq(Line)
    BY <1>1 DEF Ledger
  <2>3. d.lines[r][i] \in Line
    BY <1>1, <2>2, LenProperties, ElementOfSeq
  <2>4. Remaining(line) \in Nat
    BY <2>1, <2>3, Arithmetic DEF Unused
  <2> QED
    BY <1>1, <2>3, <2>4, Arithmetic DEF Line
<1>3. next = "consume" \/ (next \in {"release", "close"} /\ left = 0)
  BY DEF AfterCharge
<1> HIDE DEF units, next
<1>4. ASSUME NEW m, Proceed(Spend(m, r, i, s, units), left, next), Frame(d, m),
             History(d, m), m.exposure.settled = Plus(d.exposure.settled, Postpaid, s, units)
      PROVE  ChainInv'
  <2> DEFINE e == Spend(m, r, i, s, units)
  <2>1. units \in Int
    BY <1>2
  <2> HIDE DEF d, r, s, line
  <2>2. Still(m, e) /\ Charges(d, e, tx.event, s, units)
    BY <1>1, <1>4, <2>1, SpentBooks
  <2>3. History(d, e)
    BY <1>1, <1>4, HistoryOfLines
  <2>4. e.exposure.settled = Plus(d.exposure.settled, Postpaid, s, units)
    BY <1>4, <2>2 DEF Still
  <2>5. Proceed(e, left, next)
    BY <1>4
  <2> HIDE DEF e
  <2> QED
    BY <1>1, <1>2, <1>3, <2>2, <2>3, <2>4, <2>5, PostStep DEF d, left
<1>5. CASE /\ s = Postpaid
           /\ Proceed(Spend(SettlePostpaid(d, units), r, i, s, units), left, next)
  <2> HIDE DEF d, r, s, line
  <2> DEFINE m == SettlePostpaid(d, units)
  <2>1. -units \in Int /\ units \in Int
    BY <1>2
  <2>2. /\ Frame(d, m) /\ m.exposure.settled = d.exposure.settled + units
    BY <1>1, <2>1, ExposedBooks DEF SettlePostpaid
  <2>3. History(d, m)
    BY <1>1, HistoryKept DEF SettlePostpaid
  <2>4. Proceed(Spend(m, r, i, s, units), left, next)
    BY <1>5
  <2> HIDE DEF m
  <2>5. m.exposure.settled = Plus(d.exposure.settled, Postpaid, s, units)
    BY <1>5, <2>2 DEF Plus
  <2> QED
    BY <1>4, <2>2, <2>3, <2>4, <2>5
<1>6. CASE /\ s # Postpaid
           /\ Proceed(Spend(ConsumeCredits(d, s, units), r, i, s, units), left, next)
  <2> HIDE DEF d, r, s, line
  <2> DEFINE m == ConsumeCredits(d, s, units)
  <2>1. s \in Grants /\ -units \in Int
    BY <1>2, <1>6 DEF Sources
  <2>2. Frame(d, m) /\ m.exposure = d.exposure
    BY <1>1, <2>1, MovedBooks DEF ConsumeCredits
  <2>3. History(d, m)
    BY <1>1, HistoryKept DEF ConsumeCredits
  <2>4. Proceed(Spend(m, r, i, s, units), left, next)
    BY <1>6
  <2> HIDE DEF m
  <2>5. m.exposure.settled = Plus(d.exposure.settled, Postpaid, s, units)
    BY <1>1, <1>6, <2>2 DEF Plus
  <2> QED
    BY <1>4, <2>2, <2>3, <2>4, <2>5
<1> QED
  BY <1>5, <1>6 DEF ConsumeLine, units, next

(* The overrun is charged to postpaid.                                       *)
LEMMA OverrunChain ==
  ASSUME FInv, FInv', ChainInv, Overrun
  PROVE  ChainInv'
<1> DEFINE d == tx.draft
           r == tx.reservation
           units == tx.left
           line == [NewLine(Postpaid, units) EXCEPT !.consumed = units]
           a == Appended(d, r, line)
           m == Exposed(a, 0, units)
           e == Posted(m, Postpaid, units)
<1>1. tx # NoTx /\ tx.stage = "consume" /\ Proceed(e, 0, AfterCharge(tx.finalize))
  BY DEF Overrun
<1>2. /\ d \in Ledger /\ History(d, d) /\ Postpaid \in Sources /\ units \in Nat
      /\ {"exposure", "lines", "charge"} \subseteq DOMAIN d /\ d.exposure.settled \in Nat
  BY <1>1, Opened DEF Sources, History, Ledger
<1>3. /\ Charges(d, e, tx.event, Postpaid, units)
      /\ e.exposure.settled = d.exposure.settled + units
  BY <1>2 DEF Posted, Exposed, Appended, Charges
<1>4. AfterCharge(tx.finalize) \in {"release", "close"} /\ 0 = tx.left - units
  BY <1>2 DEF AfterCharge
<1> HIDE DEF d, line, units
<1>5. History(d, a)
  BY <1>2, HistoryKept
<1> HIDE DEF a
<1>6. History(d, m)
  BY <1>2, <1>5, HistoryKept
<1> HIDE DEF m
<1>7. History(d, e)
  BY <1>2, <1>6, HistoryKept
<1> HIDE DEF e
<1>8. e.exposure.settled = Plus(d.exposure.settled, Postpaid, Postpaid, units)
  BY <1>3 DEF Plus
<1> QED
  BY <1>1, <1>2, <1>3, <1>4, <1>7, <1>8, PostStep DEF d

(* Credits are restored.                                                     *)
LEMMA RestoreChain ==
  ASSUME FInv, FInv', ChainInv, tx # NoTx, NEW g \in Grants, NEW units \in 1..tx.left,
         NEW i \in DOMAIN tx.draft.lines[tx.reservation], RestoreCredits(g, i, units)
  PROVE  ChainInv'
<1> DEFINE d == tx.draft
           r == tx.reservation
           m == Moved(d, g, units, 0)
           u == -units
           e == Spend(m, r, i, g, u)
<1>1. /\ d \in Ledger /\ History(d, d) /\ r \in Reservations /\ i \in DOMAIN d.lines[r]
      /\ tx.stage = "reverse" /\ tx.left \in Nat /\ d.exposure.settled \in Nat
      /\ NextReversal(e, g, units) /\ Reverses(g, units)
  BY Opened DEF RestoreCredits, History, Ledger
<1>2. g \in Sources /\ g # Postpaid /\ units \in Int /\ 0 \in Int /\ u \in Int
  BY <1>1, FundingAssumption DEF Sources
<1>3. /\ tx'.draft = e /\ tx'.stage = tx.stage /\ tx'.left = tx.left - units
      /\ tx'.command = tx.command /\ tx'.event = tx.event
      /\ tx'.reversed = tx.reversed \union {g} /\ UNCHANGED ledger
  BY <1>1, NextSettling
<1> HIDE DEF d, r
<1>4. Frame(d, m) /\ m.exposure = d.exposure
  BY SMTT(40), <1>1, <1>2, MovedBooks
<1>5. History(d, m)
  BY <1>1, HistoryKept
<1> HIDE DEF m, u
<1>6. Still(m, e) /\ Charges(d, e, tx.event, g, u)
  BY <1>1, <1>2, <1>4, SpentBooks
<1>7. History(d, e)
  BY <1>1, <1>5, HistoryOfLines
<1>8. e.exposure.settled
        = d.exposure.settled
            - (IF g = Postpaid THEN SmallerOf(d.exposure.settled, units) ELSE 0)
  BY <1>1, <1>2, <1>4, <1>6 DEF Still
<1> HIDE DEF e
<1>9. ASSUME tx' # NoTx PROVE Advancing(ledger, tx')
  <2>1. tx'.draft \in Ledger
    BY <1>9, NextDraft
  <2>2. Charges(d, e, tx.event, g, -units)
    BY <1>6 DEF u
  <2> QED
    BY <1>1, <1>2, <1>3, <1>7, <1>8, <2>1, <2>2, ReversalAdvances DEF d
<1> QED
  BY <1>3, <1>9, KeepsChain

(* The postpaid debt is adjusted.                                            *)
LEMMA RepayChain ==
  ASSUME FInv, FInv', ChainInv, tx # NoTx, NEW units \in 1..tx.left, ReversePostpaid(units)
  PROVE  ChainInv'
<1> DEFINE d == tx.draft
           repaid == SmallerOf(d.exposure.settled, units)
           m == Exposed(d, 0, -repaid)
           e == Posted(m, Postpaid, -units)
<1>1. /\ d \in Ledger /\ History(d, d) /\ tx.stage = "reverse" /\ tx.left \in Nat
      /\ d.exposure.settled \in Nat /\ Postpaid \in Sources
      /\ NextReversal(e, Postpaid, units) /\ Reverses(Postpaid, units)
      /\ {"exposure", "charge"} \subseteq DOMAIN d
  BY Opened DEF ReversePostpaid, History, Ledger, Sources
<1>2. repaid \in Int
  BY <1>1 DEF SmallerOf
<1>3. /\ tx'.draft = e /\ tx'.stage = tx.stage /\ tx'.left = tx.left - units
      /\ tx'.command = tx.command /\ tx'.event = tx.event
      /\ tx'.reversed = tx.reversed \union {Postpaid} /\ UNCHANGED ledger
  BY <1>1, NextSettling
<1> HIDE DEF repaid
<1>4. /\ Charges(d, e, tx.event, Postpaid, -units)
      /\ e.exposure.settled = d.exposure.settled + -repaid
  BY <1>1 DEF Posted, Exposed, Charges
<1> HIDE DEF d
<1>5. History(d, m)
  BY <1>1, HistoryKept
<1> HIDE DEF m
<1>6. History(d, e)
  BY <1>1, <1>5, HistoryKept
<1> HIDE DEF e
<1>7. e.exposure.settled
        = d.exposure.settled
            - (IF Postpaid = Postpaid THEN SmallerOf(d.exposure.settled, units) ELSE 0)
  <2>1. e.exposure.settled = d.exposure.settled - repaid
    BY <1>1, <1>2, <1>4
  <2> QED
    BY <2>1 DEF repaid
<1>8. ASSUME tx' # NoTx PROVE Advancing(ledger, tx')
  <2>1. tx'.draft \in Ledger
    BY <1>8, NextDraft
  <2> QED
    BY <1>1, <1>3, <1>4, <1>6, <1>7, <2>1, ReversalAdvances DEF d
<1> QED
  BY <1>3, <1>8, KeepsChain

(* An expired grant keeps a correction.                                      *)
LEMMA ForfeitChain ==
  ASSUME FInv, FInv', ChainInv, tx # NoTx, NEW g \in Grants, NEW units \in 1..tx.left,
         ForfeitCredits(g, units)
  PROVE  ChainInv'
<1> DEFINE e == [tx.draft EXCEPT !.forfeited[tx.event] = @ + units]
<1>1. /\ tx.stage = "reverse" /\ NextReversal(e, g, units) /\ Reverses(g, units)
      /\ g \in Sources
  BY DEF ForfeitCredits, Sources
<1>2. /\ tx'.draft = e /\ tx'.stage = tx.stage /\ tx'.left = tx.left - units
      /\ tx'.command = tx.command /\ tx'.event = tx.event
      /\ tx'.reversed = tx.reversed \union {g} /\ UNCHANGED ledger
  BY <1>1, NextSettling
<1>3. ASSUME tx' # NoTx PROVE Advancing(ledger, tx')
  <2>1. tx'.draft \in Ledger
    BY <1>3, NextDraft
  <2> QED
    BY <1>1, <1>2, <2>1, ForfeitAdvances
<1> QED
  BY <1>2, <1>3, KeepsChain

(* The correction is over.                                                   *)
LEMMA EndChain ==
  ASSUME FInv, ChainInv, EndReversal
  PROVE  ChainInv'
<1>1. /\ tx # NoTx /\ tx.stage = "reverse" /\ Proceed(tx.draft, 0, AfterCharge(tx.finalize))
      /\ tx.left = 0 \/ \A s \in Sources : ~Reversible(s)
      /\ AfterCharge(tx.finalize) \in {"release", "close"}
  BY DEF EndReversal, AfterCharge
<1>2. /\ tx'.draft = tx.draft /\ tx'.stage = AfterCharge(tx.finalize) /\ tx'.left = 0
      /\ tx'.command = tx.command /\ tx'.event = tx.event /\ UNCHANGED ledger
  BY <1>1, NextSettling
<1>3. Advancing(ledger, tx')
  BY <1>1, <1>2, EndAdvances
<1> QED
  BY <1>2, <1>3, KeepsChain

(* The commits.                                                              *)
LEMMA CommitChain ==
  ASSUME FInv, ChainInv, CommitFunding \/ CommitRelease \/ CommitSettle
  PROVE  ChainInv'
<1> DEFINE d == tx.draft
           r == tx.reservation
<1>1. tx # NoTx
  BY DEF CommitFunding, CommitRelease, CommitSettle
<1>2. /\ d \in Ledger /\ History(d, d) /\ {"exposure", "charge", "reservation"} \subseteq DOMAIN d
      /\ Advancing(ledger, tx)
  BY <1>1, Opened DEF History, Ledger, ChainInv
<1>3. ASSUME NEW status, NEW until
      PROVE  /\ History(d, Updated(d, r, status, until))
             /\ Updated(d, r, status, until).charge = d.charge
             /\ Updated(d, r, status, until).exposure = d.exposure
  <2>1. History(d, Updated(d, r, status, until))
    BY <1>2, HistoryKept
  <2> QED
    BY <1>2, <2>1 DEF Updated
<1>4. CASE CommitFunding
  <2> DEFINE old == d.reservation[r].status
             m == Updated(d, r, IF old = "none" THEN "reserved" ELSE old, tx.until)
  <2>1. Commit(m) /\ tx.stage = "fund"
    BY <1>4 DEF CommitFunding
  <2>2. tx.command # "settle"
    BY <1>2, <2>1 DEF Advancing, Settling
  <2>3. History(d, m) /\ m.charge = d.charge /\ m.exposure = d.exposure
    BY <1>3
  <2> HIDE DEF m
  <2> QED
    BY <1>1, <2>1, <2>2, <2>3, CommitsOther
<1>5. CASE CommitRelease
  <2> DEFINE used == \E i \in DOMAIN d.lines[r] : d.lines[r][i].consumed > 0
             status == IF tx.command = "settle" /\ used THEN "settled" ELSE "released"
             m == Updated(d, r, status, d.reservation[r].until)
  <2>1. Commit(IF tx.command = "settle" THEN Recorded(m, tx.event) ELSE m) /\ tx.stage = "release"
    BY <1>5 DEF CommitRelease
  <2> HIDE DEF status
  <2>3. History(d, m) /\ m.charge = d.charge /\ m.exposure = d.exposure
    BY <1>3
  <2> HIDE DEF m
  <2>4. CASE tx.command = "settle"
    BY <1>1, <2>1, <2>3, <2>4, CommitsSettled
  <2>5. CASE tx.command # "settle"
    BY <1>1, <2>1, <2>3, <2>5, CommitsOther
  <2> QED
    BY <2>4, <2>5
<1>6. CASE CommitSettle
  <2> DEFINE m == Updated(d, r, "partially_consumed", d.reservation[r].until)
  <2>1. Commit(Recorded(m, tx.event)) /\ tx.stage = "close"
    BY <1>6 DEF CommitSettle
  <2>2. tx.command = "settle"
    BY <1>2, <2>1 DEF Advancing
  <2>3. History(d, m) /\ m.charge = d.charge /\ m.exposure = d.exposure
    BY <1>3
  <2> HIDE DEF m
  <2> QED
    BY <1>1, <2>1, <2>2, <2>3, CommitsSettled
<1> QED
  BY <1>4, <1>5, <1>6

(* A settlement opens: what it is to charge, or to give back, is what the      *)
(* revision lacks, or what was charged too much.                            *)
LEMMA OpensSettlement ==
  ASSUME FInv, ChainInv, NEW e \in Events, NEW finalize \in BOOLEAN, NEW now,
         BeginSettle(e, finalize, now)
  PROVE  ChainInv'
<1> DEFINE d == ledger
           c == e[1]
           delta == Delta(d, e)
<1>1. /\ d \in Ledger /\ Chained(d) /\ Reckoned(d) /\ d.event[e] # None
      /\ Spotless(d) => DebtExact(d)
      /\ c \in Components /\ UNCHANGED ledger
  BY RevisionSets DEF FInv, Sound, ChainInv, BeginSettle
<1>2. /\ tx'.command = "settle" /\ tx'.event = e /\ tx'.draft = d /\ tx'.reversed = {}
      /\ tx'.stage = IF delta > 0 THEN "consume"
                     ELSE IF delta < 0 THEN "reverse" ELSE AfterCharge(finalize)
      /\ tx'.left = IF delta > 0 THEN delta ELSE IF delta < 0 THEN -delta ELSE 0
  BY DEF BeginSettle, Began
<1>3. AfterCharge(finalize) \in {"release", "close"}
  BY DEF AfterCharge
<1>4. HasSettlement(d, e) => delta = 0
  BY DEF Delta
<1>5. ASSUME e \notin d.settled, InTurn(d, e), Clean(d, c)
      PROVE  Progress(d, tx')
  <2>1. ~HasSettlement(d, e) /\ delta = d.event[e].units - LatestUnits(d, c)
    BY <1>1, <1>5, DeltaIs
  <2>2. NetCharge(d, c) = LatestUnits(d, c) + Forfeited(d, c) /\ Debt(d, c) >= 0
    BY <1>1, <1>5 DEF Reckoned
  <2>3. /\ LatestUnits(d, c) \in Nat /\ d.event[e].units \in Nat /\ Forfeited(d, c) \in Nat
    <3>1. d.event[e].units \in Nat /\ d.forfeited \in [Events -> Nat]
      BY <1>1, Journals
    <3> QED
      BY <1>1, <3>1, LatestType, ForfeitedType
  <2>4. \A s \in Sources : d.charge[e][s] = 0
    BY <1>1, <1>5 DEF Chained, Quiet
  <2>5. Charged(d, Earlier(e), {}) = 0
    <3>1. Journal(d) /\ Earlier(e) \in SUBSET Events /\ {} \in SUBSET Sources
      BY <1>1, Journals, RevisionSets
    <3> QED
      BY <3>1, ChargedNothing
  <2> HIDE DEF delta, d, c
  <2>6. delta \in Int
    BY <2>1, <2>3
  <2>7. Ahead(tx') = delta
    <3>1. CASE delta > 0
      BY <1>2, <3>1 DEF Ahead
    <3>2. CASE delta < 0
      <4> DEFINE x == -delta
      <4>1. x \in Int /\ delta = -x
        BY <2>6
      <4>2. tx'.stage = "reverse" /\ tx'.left = x
        BY <1>2, <2>6, <3>2
      <4> HIDE DEF x
      <4>3. Ahead(tx') = -x
        BY <4>2 DEF Ahead
      <4> QED
        BY <4>1, <4>3
    <3>3. CASE delta = 0
      BY <1>2, <1>3, <3>3 DEF Ahead
    <3> QED
      BY <2>6, <3>1, <3>2, <3>3
  <2>8. NetCharge(d, c) + Ahead(tx') = d.event[e].units + Forfeited(d, c)
    BY <2>1, <2>2, <2>3, <2>7
  <2>9. tx'.stage = "reverse" =>
          /\ \A s \in Sources \ tx'.reversed : d.charge[e][s] = 0
          /\ tx'.left > 0 => Charged(d, Earlier(e), tx'.reversed) + tx'.left
                               = LatestUnits(d, c) - d.event[e].units
    <3> SUFFICES ASSUME tx'.stage = "reverse"
                 PROVE  /\ \A s \in Sources \ tx'.reversed : d.charge[e][s] = 0
                        /\ Charged(d, Earlier(e), tx'.reversed) + tx'.left
                             = LatestUnits(d, c) - d.event[e].units
      OBVIOUS
    <3>1. tx'.left = -delta
      BY <1>2, <1>3
    <3>2. Charged(d, Earlier(e), tx'.reversed) = 0
      BY <1>2, <2>5
    <3> QED
      BY <2>1, <2>3, <2>4, <2>6, <3>1, <3>2
  <2> QED
    BY <1>2, <2>2, <2>8, <2>9 DEF Progress, d, c
<1>6. Settling(d, tx')
  <2>1. tx'.stage # "fund"
    BY <1>2, <1>3
  <2>2. HasSettlement(d, e) => tx'.stage \in {"release", "close"}
    BY <1>2, <1>3, <1>4
  <2> HIDE DEF d, c, delta
  <2> QED
    BY <1>2, <1>5, <2>1, <2>2 DEF Settling, c
<1>7. Advancing(d, tx')
  BY <1>1, <1>2, <1>6 DEF Advancing, Regular
<1> QED
  BY <1>1, <1>7, KeepsChain

(* A command opens on the committed tables.                                  *)
LEMMA BeginChain ==
  ASSUME FInv, ChainInv, Begin
  PROVE  ChainInv'
<1>1. ASSUME tx'.draft = ledger, UNCHANGED ledger, tx'.command # "settle",
             tx'.stage \in {"fund", "release"}
      PROVE  ChainInv'
  <2>1. Advancing(ledger, tx')
    BY <1>1 DEF ChainInv, Advancing, Regular
  <2> QED
    BY <1>1, <2>1, KeepsChain
<1>2. ASSUME NEW r, NEW units, NEW until, NEW now,
             BeginReserve(r, units, until, now) \/ BeginExtend(r, units, until, now)
      PROVE  ChainInv'
  <2>1. /\ tx'.draft = ledger /\ UNCHANGED ledger /\ tx'.command # "settle"
        /\ tx'.stage \in {"fund", "release"}
    BY <1>2 DEF BeginReserve, BeginExtend, Began
  <2> QED
    BY <1>1, <2>1
<1>3. ASSUME NEW r, NEW now, BeginRelease(r, now) PROVE ChainInv'
  <2>1. /\ tx'.draft = ledger /\ UNCHANGED ledger /\ tx'.command # "settle"
        /\ tx'.stage \in {"fund", "release"}
    BY <1>3 DEF BeginRelease, Began
  <2> QED
    BY <1>1, <2>1
<1> QED
  BY <1>2, <1>3, OpensSettlement DEF Begin

(* A revision is recorded: the settled ones and what they were charged stay.   *)
LEMMA RecordChain ==
  ASSUME FInv, ChainInv, NEW e \in Events, NEW units, NEW at, RecordEvent(e, units, at)
  PROVE  ChainInv'
<1> DEFINE d == ledger
           n == ledger'
<1>1. /\ d \in Ledger /\ Chained(d) /\ Reckoned(d) /\ (Spotless(d) => DebtExact(d))
      /\ tx = NoTx /\ tx' = NoTx /\ d.event[e] = None
  BY DEF FInv, Sound, ChainInv, RecordEvent
<1>2. /\ n.charge = d.charge /\ n.forfeited = d.forfeited /\ n.settled = d.settled
      /\ n.unposted = d.unposted /\ n.outOfTurn = d.outOfTurn /\ n.exposure = d.exposure
      /\ \A f \in Events \ {e} : n.event[f] = d.event[f]
  BY <1>1 DEF RecordEvent, Ledger
<1>3. e \notin d.settled
  BY <1>1 DEF Chained
<1> HIDE DEF n
<1>5. Chained(n)
  <2>1. \A f \in Events : Quiet(n, f) <=> Quiet(d, f)
    BY <1>2 DEF Quiet
  <2>2. \A f \in Events : HasSettlement(n, f) <=> HasSettlement(d, f)
    BY <1>2 DEF HasSettlement
  <2> QED
    BY <1>1, <1>2, <1>3, <2>1, <2>2 DEF Chained
<1>6. Reckoned(n)
  <2> SUFFICES ASSUME NEW c \in Components, Clean(n, c)
               PROVE  NetCharge(n, c) = LatestUnits(n, c) + Forfeited(n, c) /\ Debt(n, c) >= 0
    BY DEF Reckoned
  <2>1. Clean(d, c)
    BY <1>2 DEF Clean
  <2>2. NetCharge(n, c) = NetCharge(d, c) /\ Debt(n, c) = Debt(d, c)
    BY <1>2, SameCharges
  <2>3. Forfeited(n, c) = Forfeited(d, c)
    BY <1>2, SameForfeits
  <2>4. LatestUnits(n, c) = LatestUnits(d, c)
    <3>1. Done(n, c) = Done(d, c)
      BY <1>2 DEF Done
    <3>2. \A k \in Done(d, c) : n.event[<<c, k>>] = d.event[<<c, k>>]
      BY <1>2, <1>3 DEF Done, Events
    <3> QED
      BY <3>1, <3>2, LatestAlike
  <2> QED
    BY <1>1, <2>1, <2>2, <2>3, <2>4 DEF Reckoned
<1>7. Spotless(n) => DebtExact(n)
  <2>1. \A E, S : Charged(n, E, S) = Charged(d, E, S)
    BY <1>2, SameCharges
  <2> QED
    BY <1>1, <1>2, <2>1 DEF DebtExact, Spotless
<1> QED
  BY <1>1, <1>5, <1>6, <1>7 DEF ChainInv, n

(* A grant that expires leaves the journal alone.                            *)
LEMMA ExpireChain ==
  ASSUME FInv, ChainInv, NEW g \in Grants, ExpireGrant(g)
  PROVE  ChainInv'
<1> DEFINE d == ledger
           n == ledger'
<1>1. /\ d \in Ledger /\ Chained(d) /\ Reckoned(d) /\ (Spotless(d) => DebtExact(d))
      /\ tx = NoTx /\ tx' = NoTx
  BY DEF FInv, Sound, ChainInv, ExpireGrant
<1>2. /\ n.charge = d.charge /\ n.forfeited = d.forfeited /\ n.event = d.event
      /\ n.settled = d.settled /\ n.unposted = d.unposted /\ n.outOfTurn = d.outOfTurn
      /\ n.exposure = d.exposure
  BY <1>1 DEF ExpireGrant, Moved, Ledger
<1> HIDE DEF n
<1>3. Chained(n) /\ Reckoned(n) /\ (DebtExact(d) => DebtExact(n))
  BY <1>1, <1>2, SameChain
<1> QED
  BY <1>1, <1>2, <1>3 DEF ChainInv, Spotless, n

(* Nothing is settled at first.                                              *)
LEMMA InitialChain == FundingInit => ChainInv
<1> SUFFICES ASSUME FundingInit PROVE ChainInv
  OBVIOUS
<1> DEFINE d == ledger
<1>1. /\ tx = NoTx /\ d.settled = {} /\ d.unposted = {} /\ d.exposure.settled = 0
      /\ d.charge = [e \in Events |-> [s \in Sources |-> 0]]
      /\ \A e \in Events : d.event[e] = None /\ d.forfeited[e] = 0
  BY DEF FundingInit
<1>2. Journal(d) /\ \A e \in Events, s \in Sources : d.charge[e][s] = 0
  BY <1>1 DEF Journal
<1> HIDE DEF d
<1>3. ASSUME NEW E \in SUBSET Events, NEW S \in SUBSET Sources
      PROVE  Charged(d, E, S) = 0
  BY <1>2, ChargedNothing
<1>4. {Postpaid} \in SUBSET Sources /\ Sources \in SUBSET Sources /\ Events \in SUBSET Events
  BY DEF Sources
<1>5. Chained(d)
  BY <1>1, <1>2 DEF Chained, Quiet
<1>6. ASSUME NEW c \in Components
      PROVE  NetCharge(d, c) = LatestUnits(d, c) + Forfeited(d, c) /\ Debt(d, c) >= 0
  <2>1. RevisionsOf(c) \in SUBSET Events /\ IsFiniteSet(RevisionsOf(c))
    BY RevisionSets
  <2>2. NetCharge(d, c) = 0 /\ Debt(d, c) = 0
    BY <1>3, <1>4, <2>1 DEF NetCharge, Debt
  <2>3. LatestUnits(d, c) = 0
    BY <1>1 DEF LatestUnits
  <2>4. Forfeited(d, c) = 0
    <3> DEFINE E == RevisionsOf(c)
               f == d.forfeited
    <3>1. IsFiniteSet(E) /\ \A m \in E : f[m] = 0
      BY <1>1, <2>1
    <3>2. Forfeited(d, c) = SumFunctionOnSet(f, E)
      BY DEF Forfeited
    <3> HIDE DEF E, f
    <3>3. SumFunctionOnSet(f, E) = 0
      BY <3>1, SumZero
    <3> QED
      BY <3>2, <3>3
  <2> QED
    BY <2>2, <2>3, <2>4
<1>7. DebtExact(d)
  BY <1>1, <1>3, <1>4 DEF DebtExact
<1> QED
  BY <1>1, <1>5, <1>6, <1>7 DEF ChainInv, Reckoned, d

(* Every step keeps the chain.                                               *)
LEMMA InductiveChain ==
  FInv /\ FInv' /\ ChainInv /\ [FundingNext]_vars => ChainInv'
<1> SUFFICES ASSUME FInv, FInv', ChainInv, [FundingNext]_vars PROVE ChainInv'
  OBVIOUS
<1>1. CASE UNCHANGED vars \/ Tick
  BY <1>1 DEF vars, Tick, ChainInv
<1>2. CASE Rollback
  BY <1>2 DEF Rollback, ChainInv
<1>3. CASE Begin
  BY <1>3, BeginChain
<1>4. CASE FundStep
  BY <1>4, FundChain, CommitChain DEF FundStep
<1>5. CASE ReleaseStep
  BY <1>5, ReleaseChain, CommitChain DEF ReleaseStep
<1>6. CASE SettleStep
  <2>1. CASE ReverseStep
    BY <2>1, RestoreChain, ForfeitChain, RepayChain, EndChain DEF ReverseStep
  <2> QED
    BY <1>6, <2>1, ConsumeChain, OverrunChain, CommitChain DEF SettleStep
<1>7. CASE \E e \in Events, units \in 0..MaxUnits, at \in Instants : RecordEvent(e, units, at)
  BY <1>7, RecordChain
<1>8. CASE \E g \in Grants : ExpireGrant(g)
  BY <1>8, ExpireChain
<1> QED
  BY <1>1, <1>2, <1>3, <1>4, <1>5, <1>6, <1>7, <1>8 DEF FundingNext

(* So the chain is kept always.                                              *)
LEMMA ChainInvariance ==
  FundingSpec => []ChainInv
<1>1. FInv /\ FInv' /\ ChainInv /\ [FundingNext]_vars => ChainInv'
  BY InductiveChain
<1> QED
  BY <1>1, Invariance, InitialChain, PTL DEF FundingSpec

(* A component is charged what its latest settled revision says it used, plus *)
(* what expired grants kept of a correction, however often its revisions are  *)
(* settled again, in whatever order they are recorded, and whatever was given *)
(* back to which source: as long as each of its settlements left an entry and *)
(* came in its turn.                                                        *)
THEOREM RevisionsAreChargedOnce == FundingSpec => []ChargedOnce
<1>1. ChainInv => ChargedOnce
  BY DEF ChainInv, Reckoned, Clean, ChargedOnce
<1> QED
  BY <1>1, ChainInvariance, PTL

(* No correction takes more off the postpaid debt than the journal has of it:  *)
(* the exposure is the open postpaid lines plus at least the debt in the      *)
(* journal, and no more than that while every settlement leaves an entry and *)
(* comes in its turn.                                                       *)
THEOREM ExposureIsExact == FundingSpec => []PostpaidExact
<1>1. BooksInv /\ ChainInv => PostpaidExact
  BY DEF BooksInv, Books, ReservedMatches, SettledCovers, ChainInv, Spotless, DebtExact,
         PostpaidExact
<1> QED
  BY <1>1, ChainInvariance, BooksInvariance, PTL
==============================================================================
