-------------------------------- MODULE Invoices --------------------------------
(***************************************************************************)
(* The postpaid debt of one organization in one billing period, kept for    *)
(* each workspace and, under an organization limit, once more for all of    *)
(* them, and the invoices that ask for it: charges and late corrections of  *)
(* usage, closing the period again and again, payments that wait for a      *)
(* review, and credit notes. An invoice is for all workspaces at once, but  *)
(* each of its lines is paid from the totals of its own.                    *)
(*                                                                         *)
(* Four commands reduce the same settled_units, each by rules of its own; a *)
(* correction takes what it finds, a payment or a credit note insists on    *)
(* the exact amount. Every command is the callback of one transaction of    *)
(* the unit of work, which is serialized, and so is one action; one that    *)
(* throws is rolled back and is no action. What lies between a payment's    *)
(* submission and its approval is the reviewer's time.                      *)
(***************************************************************************)
EXTENDS Integers, Sequences, FiniteSets, Functions

CONSTANTS
  Workspaces,      \* workspaces of the organization
  Org,             \* the organization, as the owner of a total
  Charges,         \* units one usage event may be charged
  MaxCharges,      \* bound: charges
  MaxCorrections,  \* bound: later revisions that charge less
  MaxRequests,     \* bound: payment requests
  MaxReturns,      \* bound: decisions that ask for clarification
  MaxCreditNotes   \* bound: credit notes

ASSUME InvoicesAssumption ==
  /\ Org \notin Workspaces
  /\ Charges \subseteq Nat \ {0}
  /\ {MaxCharges, MaxCorrections, MaxRequests, MaxReturns, MaxCreditNotes} \subseteq Nat

VARIABLES
  settled,   \* settled_units of the period, by owner of the total
  journal,   \* usage_charge and usage_adjustment entries, in their order
  invoices,  \* billing_invoices of the period
  lines,     \* billing_invoice_lines, in their order
  requests,  \* billing_payment_requests for these invoices
  unmet,     \* history: units of corrections that found no debt, by total
  returns, credits

vars == <<settled, journal, invoices, lines, requests, unmet, returns, credits>>

Totals == Workspaces \union {Org}

(* Where usage counts: for its workspace, and under an organization limit for *)
(* the organization too.                                                     *)
Scopes == {{w} : w \in Workspaces} \union {{w, Org} : w \in Workspaces}

InvoicesInit ==
  /\ settled = [s \in Totals |-> 0] /\ unmet = [s \in Totals |-> 0]
  /\ journal = <<>> /\ invoices = <<>> /\ lines = <<>> /\ requests = <<>>
  /\ returns = 0 /\ credits = 0

Smaller(a, b) == IF a < b THEN a ELSE b
UnitsOf(rows) == [k \in DOMAIN rows |-> rows[k].units]
AppliedOf(rows) == [k \in DOMAIN rows |-> rows[k].applied]

(* The entries, or lines, that count in total s.                             *)
CountedIn(rows, s) == {k \in DOMAIN rows : s \in rows[k].totals}

-----------------------------------------------------------------------------
(* Usage                                                                     *)

(* A usage component is known by the place of its first charge; its revisions *)
(* are charged or credited by their difference, in its workspace.            *)
Entry(event, totals, units) ==
  [event |-> event, totals |-> totals, units |-> units, invoiced |-> FALSE]

EntriesOf(e) == {j \in DOMAIN journal : journal[j].event = e}
Charged == {j \in DOMAIN journal : journal[j].units > 0}
Known == {journal[j].event : j \in DOMAIN journal}

(* What the event has been charged, its corrections included.                *)
NetOf(e) == SumFunctionOnSet(UnitsOf(journal), EntriesOf(e))

(* A limit that applied to one of its charges applies to its corrections.     *)
TotalsOf(e) == UNION {journal[j].totals : j \in EntriesOf(e)}

(* A settlement that charges: what was held becomes settled.                 *)
ChargeUsage(e, totals, units) ==
  /\ Cardinality(Charged) < MaxCharges
  /\ e \in Known => totals \ {Org} = TotalsOf(e) \ {Org}
  /\ settled' = [s \in Totals |-> IF s \in totals THEN settled[s] + units ELSE settled[s]]
  /\ journal' = Append(journal, Entry(e, totals, units))
  /\ UNCHANGED <<invoices, lines, requests, unmet, returns, credits>>

(* A settlement of a revision that is lower by `units`. What exceeds one of   *)
(* the totals is not reduced, and the caller drops the answer that says so.   *)
CorrectUsage(e, units) ==
  /\ Cardinality(DOMAIN journal \ Charged) < MaxCorrections
  /\ units <= NetOf(e)
  /\ LET found == {units} \union {settled[s] : s \in TotalsOf(e)} IN
       \E reduction \in found :
         /\ \A n \in found : reduction <= n
         /\ settled' = [s \in Totals |->
              IF s \in TotalsOf(e) THEN settled[s] - reduction ELSE settled[s]]
         /\ unmet' = [s \in Totals |->
              IF s \in TotalsOf(e) THEN unmet[s] + (units - reduction) ELSE unmet[s]]
  /\ journal' = Append(journal, Entry(e, TotalsOf(e), -units))
  /\ UNCHANGED <<invoices, lines, requests, returns, credits>>

-----------------------------------------------------------------------------
(* Closing the period                                                        *)

Open == {i \in DOMAIN invoices : invoices[i].status \in {"open", "partially_paid"}}
Outstanding(i) == invoices[i].total - invoices[i].paid

Unbilled == {j \in DOMAIN journal : ~journal[j].invoiced}
UnbilledUnits == SumFunctionOnSet(UnitsOf(journal), Unbilled)

(* The entries that are on no invoice yet, in their order, as lines of i.    *)
InsertLines(i) ==
  /\ journal' = [j \in DOMAIN journal |-> [journal[j] EXCEPT !.invoiced = TRUE]]
  /\ lines' = lines \o [k \in 1..Cardinality(Unbilled) |->
       LET j == CHOOSE j \in Unbilled : Cardinality({h \in Unbilled : h < j}) = k - 1
       IN  [invoice |-> i, totals |-> journal[j].totals, units |-> journal[j].units,
            applied |-> 0, credit |-> FALSE]]

StatusOf(total, paid) ==
  IF total = paid THEN "paid" ELSE IF paid > 0 THEN "partially_paid" ELSE "open"

(* Late entries go on the open invoice, unless they take more off it than    *)
(* is still outstanding.                                                     *)
AppendsTo(i, delta) == delta >= 0 \/ -delta <= Outstanding(i)

AppendLate(i) ==
  /\ Unbilled # {} /\ i \in Open /\ AppendsTo(i, UnbilledUnits)
  /\ invoices' = [invoices EXCEPT ![i].total = @ + UnbilledUnits,
       ![i].status = StatusOf(invoices[i].total + UnbilledUnits, invoices[i].paid)]
  /\ InsertLines(i)
  /\ UNCHANGED <<settled, requests, unmet, returns, credits>>

IssueInvoice ==
  /\ Unbilled # {}
  /\ \A i \in Open : ~AppendsTo(i, UnbilledUnits)
  /\ invoices' = Append(invoices, [total |-> UnbilledUnits, paid |-> 0,
       status |-> IF UnbilledUnits >= 0 THEN "open" ELSE "credit_note"])
  /\ InsertLines(Len(invoices) + 1)
  /\ UNCHANGED <<settled, requests, unmet, returns, credits>>

ClosePeriod == IssueInvoice \/ \E i \in DOMAIN invoices : AppendLate(i)

-----------------------------------------------------------------------------
(* Taking an amount off the charges of an invoice, line by line              *)

Eligible(i) == {l \in DOMAIN lines : lines[l].invoice = i /\ lines[l].units > 0}

(* Mutant: what has been applied to the line before is forgotten.            *)
OpenUnits_Forgets(l) == lines[l].units

OpenUnits(l) == lines[l].units - lines[l].applied

OpenTotal(chosen) == SumFunctionOnSet([l \in DOMAIN lines |-> OpenUnits(l)], chosen)

(* Line l gets what the lines before it leave of the amount, at most what is *)
(* still open of it.                                                         *)
Share(l, chosen, amount) ==
  LET left == amount - OpenTotal({k \in chosen : k < l})
  IN  IF left <= 0 THEN 0 ELSE Smaller(left, OpenUnits(l))

(* Mutant: the organization's total is left as it was.                       *)
TakenFrom_WorkspaceOnly(s, chosen, amount) ==
  IF s = Org THEN 0 ELSE
    SumFunctionOnSet([l \in DOMAIN lines |-> Share(l, chosen, amount)], chosen \intersect CountedIn(lines, s))

(* The shares of the lines that count in total s.                            *)
TakenFrom(s, chosen, amount) ==
  SumFunctionOnSet([l \in DOMAIN lines |-> Share(l, chosen, amount)], chosen \intersect CountedIn(lines, s))

(* Every share must find its debt in each total it counts in, and the whole   *)
(* amount its lines.                                                         *)
Applicable(chosen, amount) ==
  /\ amount <= OpenTotal(chosen)
  /\ \A s \in Totals : TakenFrom(s, chosen, amount) <= settled[s]

ReduceTotals(chosen, amount) ==
  settled' = [s \in Totals |-> settled[s] - TakenFrom(s, chosen, amount)]

Applied(chosen, amount) ==
  [l \in DOMAIN lines |-> IF l \notin chosen THEN lines[l]
     ELSE [lines[l] EXCEPT !.applied = @ + Share(l, chosen, amount)]]

-----------------------------------------------------------------------------
(* Payments                                                                  *)

Payable(i, amount) == i \in Open /\ 0 < amount /\ amount <= Outstanding(i)

RequestsOnly == UNCHANGED <<settled, journal, invoices, lines, unmet, credits>>

SubmitPayment(i, amount) ==
  /\ Len(requests) < MaxRequests
  /\ Payable(i, amount)
  /\ requests' = Append(requests, [invoice |-> i, amount |-> amount, status |-> "pending"])
  /\ RequestsOnly /\ UNCHANGED returns

Resubmit(r, amount) ==
  /\ requests[r].status = "clarification"
  /\ Payable(requests[r].invoice, amount)
  /\ requests' = [requests EXCEPT ![r].amount = amount, ![r].status = "pending"]
  /\ RequestsOnly /\ UNCHANGED returns

Reject(r) ==
  /\ requests[r].status = "pending"
  /\ requests' = [requests EXCEPT ![r].status = "rejected"]
  /\ RequestsOnly /\ UNCHANGED returns

AskClarification(r) ==
  /\ returns < MaxReturns /\ requests[r].status = "pending"
  /\ requests' = [requests EXCEPT ![r].status = "clarification"]
  /\ returns' = returns + 1
  /\ RequestsOnly

(* The decision and the payment it applies are one transaction.              *)
ApprovePayment(r) ==
  LET i == requests[r].invoice
      amount == requests[r].amount IN
  /\ requests[r].status = "pending"
  /\ Payable(i, amount) /\ Applicable(Eligible(i), amount)
  /\ requests' = [requests EXCEPT ![r].status = "approved"]
  /\ ReduceTotals(Eligible(i), amount)
  /\ lines' = Applied(Eligible(i), amount)
  /\ invoices' = [invoices EXCEPT ![i].paid = @ + amount,
       ![i].status = IF invoices[i].paid + amount = invoices[i].total THEN "paid" ELSE "partially_paid"]
  /\ UNCHANGED <<journal, unmet, returns, credits>>

-----------------------------------------------------------------------------
(* Credit notes, for all lines of an invoice or for a chosen one. One credit  *)
(* line stands for those the code writes for each line it reduces.           *)

(* Mutant: the credit reduces the debt, but not the invoice.                 *)
IssueCreditNote_TotalKept(i, chosen, amount) ==
  /\ credits < MaxCreditNotes
  /\ Payable(i, amount) /\ Applicable(chosen, amount)
  /\ credits' = credits + 1
  /\ ReduceTotals(chosen, amount)
  /\ lines' = Applied(chosen, amount)
  /\ UNCHANGED <<journal, invoices, requests, unmet, returns>>

IssueCreditNote(i, chosen, amount) ==
  /\ credits < MaxCreditNotes
  /\ Payable(i, amount) /\ Applicable(chosen, amount)
  /\ credits' = credits + 1
  /\ ReduceTotals(chosen, amount)
  /\ lines' = Append(Applied(chosen, amount),
       [invoice |-> i, totals |-> {}, units |-> -amount, applied |-> 0, credit |-> TRUE])
  /\ invoices' = [invoices EXCEPT ![i].total = @ - amount,
       ![i].status = StatusOf(invoices[i].total - amount, invoices[i].paid)]
  /\ UNCHANGED <<journal, requests, unmet, returns>>

-----------------------------------------------------------------------------
UsageStep ==
  \/ \E units \in Charges, totals \in Scopes : \E e \in Known \union {Len(journal) + 1} :
       ChargeUsage(e, totals, units)
  \/ \E e \in Known : \E units \in 1..NetOf(e) : CorrectUsage(e, units)

PaymentStep ==
  \/ \E i \in Open : \E amount \in 1..Outstanding(i) : SubmitPayment(i, amount)
  \/ \E r \in DOMAIN requests :
       \/ \E amount \in 1..Outstanding(requests[r].invoice) : Resubmit(r, amount)
       \/ Reject(r) \/ AskClarification(r) \/ ApprovePayment(r)

CreditStep ==
  \E i \in Open : \E amount \in 1..Outstanding(i),
     chosen \in {Eligible(i)} \union {{l} : l \in Eligible(i)} : IssueCreditNote(i, chosen, amount)

InvoicesNext == UsageStep \/ ClosePeriod \/ PaymentStep \/ CreditStep

InvoicesSpec == InvoicesInit /\ [][InvoicesNext]_vars

-----------------------------------------------------------------------------
(* Properties                                                                *)

TypeOK ==
  /\ settled \in [Totals -> Nat] /\ unmet \in [Totals -> Nat]
  /\ {returns, credits} \subseteq Nat
  /\ journal \in Seq([event : Nat, totals : SUBSET Totals, units : Int, invoiced : BOOLEAN])
  /\ invoices \in Seq([total : Int, paid : Nat,
                       status : {"open", "partially_paid", "paid", "credit_note"}])
  /\ lines \in Seq([invoice : Nat, totals : SUBSET Totals, units : Int, applied : Nat, credit : BOOLEAN])
  /\ requests \in Seq([invoice : Nat, amount : Nat,
                       status : {"pending", "clarification", "rejected", "approved"}])

(* The debt of a workspace, and that of the organization, is what the usage   *)
(* that counts in it was charged, less what payments and credit notes have    *)
(* been applied to its lines, plus the part of corrections that came too late *)
(* to find any: no command takes a unit off twice or off another's total, and *)
(* none changes a total without the journal (reverseSettledExposure,          *)
(* recordDebtJournal).                                                       *)
DebtIsAccounted ==
  \A s \in Totals :
    settled[s] = SumFunctionOnSet(UnitsOf(journal), CountedIn(journal, s))
                 - SumFunctionOnSet(AppliedOf(lines), CountedIn(lines, s)) + unmet[s]

(* Each invoice is the sum of its lines, and what was paid or credited on it *)
(* is itemized: applied to its charges, to none beyond its amount            *)
(* (applyPayment, addCreditNote).                                            *)
InvoicesAreItemized ==
  \A i \in DOMAIN invoices :
    LET own == {l \in DOMAIN lines : lines[l].invoice = i}
        credited == -SumFunctionOnSet(UnitsOf(lines), {l \in own : lines[l].credit}) IN
    /\ invoices[i].total = SumFunctionOnSet(UnitsOf(lines), own)
    /\ invoices[i].paid + credited = SumFunctionOnSet(AppliedOf(lines), own)
    /\ \A l \in Eligible(i) : lines[l].applied <= lines[l].units

(* However often a period is closed again, at most one of its invoices is    *)
(* open: late entries go on it (closePeriod).                                *)
OneOpenInvoice == Cardinality(Open) <= 1

(* No usage that counts in the total was corrected.                          *)
Uncorrected(s) == \A j \in CountedIn(journal, s) : journal[j].units > 0

(* All usage of the period counts in the total, and its corrections found the *)
(* debt they reduce and are invoiced.                                        *)
Met(s) ==
  /\ DOMAIN journal = CountedIn(journal, s)
  /\ unmet[s] = 0
  /\ \A j \in Unbilled : journal[j].units > 0

(* The lines of an open invoice suffice for whatever is payable, and only a   *)
(* total with corrections can refuse its approval: one that has them all in   *)
(* time and invoiced still does not if all usage of the period counts in it.  *)
(* applyPayment's conflicts are left to totals that share an invoice with     *)
(* others, and to corrections that came late.                                *)
PayableIsAccepted ==
  \A i \in Open : \A amount \in 1..Outstanding(i) :
    /\ amount <= OpenTotal(Eligible(i))
    /\ \A s \in Totals : Uncorrected(s) \/ Met(s) =>
         TakenFrom(s, Eligible(i), amount) <= settled[s]

(* An invoice that is open can be paid once the period has been closed       *)
(* again. A correction after a partial payment refutes it.                   *)
OpenCanBePaid ==
  Unbilled = {} => \A i \in Open : Applicable(Eligible(i), Outstanding(i))

(* As long as every correction found its debt and is invoiced, what is open   *)
(* can be paid. Two workspaces on one invoice, one of them corrected in time, *)
(* refute it: the payment asks the corrected line for its whole amount.       *)
TimelyCanBePaid ==
  (\A s \in Totals : unmet[s] = 0) => OpenCanBePaid

=============================================================================
