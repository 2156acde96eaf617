--------------------------- MODULE SubscriptionProofs ---------------------------
(***************************************************************************)
(* Proofs about Subscription for every term, notice, life of a quote and    *)
(* length of grace, and every bound: types and references, disjoint         *)
(* periods, payments and the periods they fund, credits, judgements, and    *)
(* the two sides of access: never suspended early, open while a period runs.*)
(***************************************************************************)
EXTENDS Subscription, SequenceTheorems, TLAPS

(* Nothing exists before the subscription. *)
NothingBefore ==
  sub.lifecycle = "none" =>
    /\ periods = <<>> /\ quotes = <<>> /\ requests = <<>> /\ grants = <<>>
    /\ grace = <<>> /\ renewing = Nothing /\ activation = Idle
    /\ sub.current = 0 /\ sub.deadline = NoDeadline

BaseInv == TypeOK /\ NothingBefore

------------------------------------------------------------------------------
(* Rows are appended or rewritten in place *)

LEMMA Rows ==
  ASSUME NEW S, NEW s \in Seq(S)
  PROVE  Len(s) \in Nat /\ DOMAIN s = 1..Len(s) /\ \A i \in DOMAIN s : s[i] \in S
  BY LenProperties, ElementOfSeq

LEMMA AddRow ==
  ASSUME NEW S, NEW s \in Seq(S), NEW e \in S
  PROVE  /\ Append(s, e) \in Seq(S)
         /\ Len(Append(s, e)) = Len(s) + 1
         /\ DOMAIN Append(s, e) = DOMAIN s \cup {Len(s) + 1}
         /\ Len(s) + 1 \notin DOMAIN s
         /\ \A i \in DOMAIN s : Append(s, e)[i] = s[i]
         /\ Append(s, e)[Len(s) + 1] = e
<1>1. Len(s) \in Nat /\ DOMAIN s = 1..Len(s)
  BY LenProperties
<1>2. Append(s, e) \in Seq(S) /\ Len(Append(s, e)) = Len(s) + 1
  BY AppendProperties
<1>3. DOMAIN Append(s, e) = 1..(Len(s) + 1)
  BY <1>2, LenProperties
<1>4. 1..(Len(s) + 1) = 1..Len(s) \cup {Len(s) + 1} /\ Len(s) + 1 \notin 1..Len(s)
  BY <1>1
<1> QED
  BY <1>1, <1>2, <1>3, <1>4, AppendProperties

LEMMA RewriteRows ==
  ASSUME NEW S, NEW s \in Seq(S), NEW t, t \in [DOMAIN s -> S]
  PROVE  t \in Seq(S) /\ Len(t) = Len(s) /\ DOMAIN t = DOMAIN s
<1>1. Len(s) \in Nat /\ DOMAIN s = 1..Len(s)
  BY LenProperties
<1>2. t \in [1..Len(s) -> S]
  BY <1>1
<1>3. t \in Seq(S)
  BY <1>1, <1>2, SeqDef
<1> QED
  BY <1>1, <1>2, <1>3, LenProperties

------------------------------------------------------------------------------
(* Types and references *)

LEMMA BaseInit == SubscriptionInit => BaseInv
<1> SUFFICES ASSUME SubscriptionInit PROVE BaseInv
  OBVIOUS
<1>1. \A S : <<>> \in Seq(S)
  BY EmptySeq
<1>2. Len(<<>>) = 0 /\ DOMAIN <<>> = {}
  BY EmptySeq
<1> QED
  BY <1>1, <1>2 DEF SubscriptionInit, BaseInv, TypeOK, NothingBefore, ReferencesExist,
     Idle, NoCandidate, NoDeadline, Nothing

LEMMA RewriteRow ==
  ASSUME NEW S, NEW s \in Seq(S), NEW i \in DOMAIN s, NEW e \in S,
         NEW t, t = [s EXCEPT ![i] = e]
  PROVE  /\ t \in Seq(S) /\ Len(t) = Len(s) /\ DOMAIN t = DOMAIN s
         /\ t[i] = e /\ \A j \in DOMAIN s \ {i} : t[j] = s[j]
<1>1. t \in [DOMAIN s -> S]
  BY Rows
<1> QED
  BY <1>1, RewriteRows

(* The rows of the five tables. *)
LEMMA Tables ==
  ASSUME TypeOK
  PROVE  /\ Len(periods) \in Nat /\ DOMAIN periods = 1..Len(periods)
         /\ \A p \in DOMAIN periods : periods[p] \in Periods
         /\ Len(quotes) \in Nat /\ DOMAIN quotes = 1..Len(quotes)
         /\ \A q \in DOMAIN quotes : quotes[q] \in Quotes
         /\ Len(requests) \in Nat /\ DOMAIN requests = 1..Len(requests)
         /\ \A r \in DOMAIN requests : requests[r] \in PaymentRequests
         /\ Len(grants) \in Nat /\ DOMAIN grants = 1..Len(grants)
         /\ \A i \in DOMAIN grants : grants[i] \in Grants
         /\ Len(grace) \in Nat /\ DOMAIN grace = 1..Len(grace)
         /\ \A g \in DOMAIN grace : grace[g] \in GraceRequests
  BY Rows DEF TypeOK

LEMMA RecentIsNat ==
  ASSUME TypeOK, NEW at \in Recent
  PROVE  at \in Nat /\ at <= now
  BY DEF TypeOK, Recent

(* A new quote needs no row but the others. *)
LEMMA BaseAddQuote ==
  ASSUME BaseInv, NEW type \in {"purchase", "renewal"}, NEW until \in Nat,
         AddQuote(type, until)
  PROVE  /\ quotes' \in Seq(Quotes) /\ DOMAIN quotes \subseteq DOMAIN quotes'
         /\ \A q \in DOMAIN quotes : quotes'[q] = quotes[q]
         /\ \A q \in DOMAIN quotes' \ DOMAIN quotes : quotes'[q].period = 0
<1> DEFINE e == [type |-> type, status |-> "draft", until |-> until,
                 link |-> "awaiting_payment", period |-> 0]
<1>1. e \in Quotes /\ e.period = 0
  BY DEF Quotes
<1>2. quotes \in Seq(Quotes) /\ quotes' = Append(quotes, e)
  BY DEF BaseInv, TypeOK, AddQuote
<1> HIDE DEF e
<1> QED
  BY <1>1, <1>2, AddRow

LEMMA BaseProvisionInitialQuote ==
  ASSUME BaseInv, ProvisionInitialQuote
  PROVE  BaseInv'
<1>1. now + QuoteLife \in Nat
  BY SubscriptionAssumption DEF BaseInv, TypeOK
<1>2. /\ quotes' \in Seq(Quotes) /\ DOMAIN quotes \subseteq DOMAIN quotes'
      /\ \A q \in DOMAIN quotes : quotes'[q] = quotes[q]
      /\ \A q \in DOMAIN quotes' \ DOMAIN quotes : quotes'[q].period = 0
  BY <1>1, BaseAddQuote DEF ProvisionInitialQuote
<1>3. UNCHANGED <<now, periods, requests, grants, grace, renewing, enforced,
                  activation, enforcement>>
  BY DEF ProvisionInitialQuote, jobVars
<1>4. sub' = [lifecycle |-> "onboarding", current |-> 0,
              access |-> "billing_recovery",
              cause |-> "initial_subscription_unpaid", deadline |-> NoDeadline]
  BY DEF ProvisionInitialQuote
<1>5. Len(periods) \in Nat
  BY Tables DEF BaseInv
<1>6. ReferencesExist'
  <2>1. ReferencesExist
    BY DEF BaseInv, TypeOK
  <2>2. \A q \in DOMAIN quotes' : quotes'[q].period <= Len(periods')
    BY <2>1, <1>2, <1>3, <1>5 DEF ReferencesExist
  <2>3. \A r \in DOMAIN requests' :
          /\ requests'[r].quote \in DOMAIN quotes'
          /\ requests'[r].period <= Len(periods')
    BY <2>1, <1>2, <1>3 DEF ReferencesExist
  <2> QED
    BY <2>1, <2>2, <2>3, <1>3, <1>4, <1>5 DEF ReferencesExist
<1>7. NothingBefore'
  BY <1>4 DEF NothingBefore
<1> QED
  BY <1>2, <1>3, <1>4, <1>6, <1>7 DEF BaseInv, TypeOK, NoDeadline

LEMMA BaseFreeTrial ==
  ASSUME BaseInv, NEW length \in TrialLengths, ProvisionFreeTrial(length)
  PROVE  BaseInv'
<1> DEFINE e == [start |-> now, end |-> now + length, status |-> "active",
                 trial |-> TRUE, payment |-> 0]
           c == [period |-> 1, from |-> now, until |-> now + length]
<1>1. now + length \in Nat
  BY SubscriptionAssumption DEF BaseInv, TypeOK
<1>2. e \in Periods /\ c \in Grants /\ c.period = 1 /\ e.payment = 0
  BY <1>1 DEF Periods, Grants, BaseInv, TypeOK
<1>3. /\ quotes = <<>> /\ requests = <<>> /\ grace = <<>>
      /\ activation.todo = {}
  BY DEF ProvisionFreeTrial, BaseInv, NothingBefore, Idle
<1>4. periods' = <<e>> /\ grants' = <<c>>
  BY DEF ProvisionFreeTrial
<1>5. /\ sub' = [lifecycle |-> "active", current |-> 1, access |-> "operational",
                 cause |-> "none", deadline |-> now + length]
      /\ UNCHANGED <<now, quotes, requests, grace, renewing, enforced,
                     activation, enforcement>>
  BY DEF ProvisionFreeTrial, jobVars
<1> HIDE DEF e, c
<1>6. /\ periods' \in Seq(Periods) /\ Len(periods') = 1 /\ DOMAIN periods' = {1}
      /\ periods'[1] = e
  BY <1>2, <1>4
<1>7. grants' \in Seq(Grants) /\ DOMAIN grants' = {1} /\ grants'[1] = c
  BY <1>2, <1>4
<1>8. /\ Len(requests) = 0 /\ DOMAIN requests = {} /\ DOMAIN quotes = {}
      /\ DOMAIN grace = {}
  BY <1>3, EmptySeq, LenProperties DEF BaseInv, TypeOK
<1>9. ReferencesExist'
  <2>1. /\ DOMAIN requests' = {} /\ DOMAIN quotes' = {} /\ DOMAIN grace' = {}
        /\ activation'.todo = {} /\ Len(requests') = 0 /\ sub'.current = 1
    BY <1>3, <1>5, <1>8
  <2>2. \A p \in DOMAIN periods' : periods'[p].payment <= Len(requests')
    BY <2>1, <1>2, <1>6
  <2>3. \A i \in DOMAIN grants' : grants'[i].period \in DOMAIN periods'
    BY <1>2, <1>6, <1>7
  <2> QED
    BY <2>1, <2>2, <2>3, <1>6 DEF ReferencesExist
<1>10. NothingBefore'
  BY <1>5 DEF NothingBefore
<1> QED
  BY <1>1, <1>4, <1>5, <1>6, <1>7, <1>9, <1>10 DEF BaseInv, TypeOK

(* Steps that leave every table alone. *)
LEMMA BaseNoTable ==
  ASSUME BaseInv,
         UNCHANGED <<sub, periods, quotes, requests, grants, grace>>,
         now' \in Nat, renewing' \in {Nothing} \cup Nat,
         activation' \in [at : Nat, todo : SUBSET DOMAIN periods],
         enforcement' \in [at : Nat, deadline : Int],
         sub.lifecycle = "none" => renewing' = Nothing /\ activation' = Idle
  PROVE  BaseInv'
<1>1. DOMAIN periods \subseteq Nat
  BY Tables DEF BaseInv
<1>2. ReferencesExist'
  BY DEF BaseInv, TypeOK, ReferencesExist
<1>3. NothingBefore'
  BY DEF BaseInv, NothingBefore
<1> QED
  BY <1>1, <1>2, <1>3 DEF BaseInv, TypeOK

LEMMA BaseRenewal ==
  ASSUME BaseInv, RenewalStep
  PROVE  BaseInv'
<1>1. CASE ReadRenewal
  <2>1. periods # <<>>
    BY <1>1, EmptySeq DEF ReadRenewal, Shown
  <2>2. now \in Nat /\ renewing' = now
    BY <1>1 DEF ReadRenewal, BaseInv, TypeOK
  <2>3. sub.lifecycle # "none"
    BY <2>1 DEF BaseInv, NothingBefore
  <2>4. /\ activation \in [at : Nat, todo : SUBSET DOMAIN periods]
        /\ enforcement \in [at : Nat, deadline : Int]
    BY DEF BaseInv, TypeOK, ReferencesExist
  <2> QED
    BY <1>1, <2>2, <2>3, <2>4, BaseNoTable DEF ReadRenewal, jobVars
<1>2. CASE RenewalNotCreated
  <2>1. /\ activation \in [at : Nat, todo : SUBSET DOMAIN periods]
        /\ enforcement \in [at : Nat, deadline : Int] /\ now \in Nat
        /\ sub.lifecycle = "none" => activation = Idle
    BY DEF BaseInv, TypeOK, ReferencesExist, NothingBefore
  <2> QED
    BY <1>2, <2>1, BaseNoTable DEF RenewalNotCreated, jobVars
<1>3. CASE CreateRenewalQuote
  <2>1. renewing \in Nat /\ sub.lifecycle # "none" /\ renewing' = Nothing
    BY <1>3 DEF CreateRenewalQuote, BaseInv, TypeOK, NothingBefore
  <2>2. renewing + QuoteLife \in Nat
    BY <2>1, SubscriptionAssumption
  <2>3. /\ quotes' \in Seq(Quotes) /\ DOMAIN quotes \subseteq DOMAIN quotes'
        /\ \A q \in DOMAIN quotes : quotes'[q] = quotes[q]
        /\ \A q \in DOMAIN quotes' \ DOMAIN quotes : quotes'[q].period = 0
    BY <1>3, <2>2, BaseAddQuote DEF CreateRenewalQuote
  <2>4. UNCHANGED <<now, sub, periods, requests, grants, grace, enforced,
                    activation, enforcement>>
    BY <1>3 DEF CreateRenewalQuote, jobVars
  <2>5. Len(periods) \in Nat
    BY Tables DEF BaseInv
  <2>6. ReferencesExist
    BY DEF BaseInv, TypeOK
  <2>7. \A q \in DOMAIN quotes' : quotes'[q].period <= Len(periods')
    BY <2>3, <2>4, <2>5, <2>6 DEF ReferencesExist
  <2>8. \A r \in DOMAIN requests' :
          /\ requests'[r].quote \in DOMAIN quotes'
          /\ requests'[r].period <= Len(periods')
    BY <2>3, <2>4, <2>6 DEF ReferencesExist
  <2>9. ReferencesExist'
    BY <2>4, <2>6, <2>7, <2>8 DEF ReferencesExist
  <2>10. NothingBefore'
    BY <2>1, <2>4 DEF NothingBefore
  <2> QED
    BY <2>1, <2>3, <2>4, <2>9, <2>10 DEF BaseInv, TypeOK
<1> QED
  BY <1>1, <1>2, <1>3 DEF RenewalStep

(* The requests of a step that adds one, or rewrites one, and the quotes and  *)
(* periods that such a step leaves where they are.                            *)
LEMMA BaseRequests ==
  ASSUME BaseInv, UNCHANGED <<now, sub, periods, grants, grace, renewing,
                              activation, enforcement>>,
         sub.lifecycle # "none",
         quotes' \in Seq(Quotes), DOMAIN quotes' = DOMAIN quotes,
         \A q \in DOMAIN quotes : quotes'[q].period = quotes[q].period,
         requests' \in Seq(PaymentRequests),
         Len(requests) <= Len(requests'),
         \A r \in DOMAIN requests' :
            requests'[r].quote \in DOMAIN quotes /\ requests'[r].period <= Len(periods)
  PROVE  BaseInv'
<1>1. /\ Len(requests') \in Nat /\ Len(requests) \in Nat
      /\ \A p \in DOMAIN periods : periods[p].payment \in Nat
  BY Tables, LenProperties DEF BaseInv, Periods
<1>2. ReferencesExist
  BY DEF BaseInv, TypeOK
<1>3. \A p \in DOMAIN periods' : periods'[p].payment <= Len(requests')
  BY <1>1, <1>2 DEF ReferencesExist
<1>4. ReferencesExist'
  BY <1>2, <1>3 DEF ReferencesExist
<1>5. NothingBefore'
  BY DEF NothingBefore
<1> QED
  BY <1>4, <1>5 DEF BaseInv, TypeOK

LEMMA RowsOfPeople ==
  ASSUME BaseInv, \/ DOMAIN periods # {} \/ DOMAIN quotes # {}
                  \/ DOMAIN requests # {} \/ DOMAIN grace # {}
                  \/ activation # Idle \/ sub.current # 0
                  \/ sub.deadline # NoDeadline
  PROVE  sub.lifecycle # "none"
<1>1. DOMAIN << >> = {}
  BY EmptySeq
<1> QED
  BY <1>1 DEF BaseInv, NothingBefore

LEMMA BaseSubmit ==
  ASSUME BaseInv, NEW q \in DOMAIN quotes, SubmitPayment(q)
  PROVE  BaseInv'
<1> DEFINE e == [quote |-> q, version |-> 1, proof |-> 1,
                 status |-> "pending_verification", judged |-> 0, period |-> 0]
           f == [quotes[q] EXCEPT !.status = "accepted"]
<1>1. /\ quotes' = [quotes EXCEPT ![q] = f] /\ requests' = Append(requests, e)
      /\ UNCHANGED <<now, sub, periods, grants, grace, renewing, activation,
                     enforcement>>
  BY DEF SubmitPayment, jobVars
<1>2. quotes[q] \in Quotes /\ q \in Nat /\ Len(periods) \in Nat
      /\ Len(requests) \in Nat
  BY Tables DEF BaseInv
<1>3. f \in Quotes /\ f.period = quotes[q].period
  BY <1>2 DEF Quotes
<1>4. e \in PaymentRequests /\ e.quote = q /\ e.period = 0
  BY <1>2 DEF PaymentRequests
<1> HIDE DEF e, f
<1>5. quotes \in Seq(Quotes) /\ requests \in Seq(PaymentRequests)
      /\ ReferencesExist
  BY DEF BaseInv, TypeOK
<1>6. /\ quotes' \in Seq(Quotes) /\ DOMAIN quotes' = DOMAIN quotes
      /\ \A o \in DOMAIN quotes : quotes'[o].period = quotes[o].period
  BY <1>1, <1>3, <1>5, RewriteRow
<1>7. /\ requests' \in Seq(PaymentRequests) /\ Len(requests') = Len(requests) + 1
      /\ DOMAIN requests' = DOMAIN requests \cup {Len(requests) + 1}
      /\ \A r \in DOMAIN requests : requests'[r] = requests[r]
      /\ requests'[Len(requests) + 1] = e
  BY <1>1, <1>4, <1>5, AddRow
<1>8. \A r \in DOMAIN requests' :
         requests'[r].quote \in DOMAIN quotes /\ requests'[r].period <= Len(periods)
  BY <1>2, <1>4, <1>5, <1>7 DEF ReferencesExist
<1>9. sub.lifecycle # "none"
  BY RowsOfPeople
<1> QED
  BY <1>1, <1>2, <1>6, <1>7, <1>8, <1>9, BaseRequests

(* Rewriting one request that keeps its quote. *)
LEMMA BaseRewriteRequest ==
  ASSUME BaseInv, NEW r \in DOMAIN requests, NEW e \in PaymentRequests,
         e.quote = requests[r].quote, e.period <= Len(periods),
         requests' = [requests EXCEPT ![r] = e],
         UNCHANGED <<now, sub, periods, quotes, grants, grace, renewing,
                     activation, enforcement>>
  PROVE  BaseInv'
<1>1. quotes \in Seq(Quotes) /\ requests \in Seq(PaymentRequests)
      /\ ReferencesExist
  BY DEF BaseInv, TypeOK
<1>2. /\ requests' \in Seq(PaymentRequests) /\ Len(requests') = Len(requests)
      /\ DOMAIN requests' = DOMAIN requests /\ requests'[r] = e
      /\ \A o \in DOMAIN requests \ {r} : requests'[o] = requests[o]
  BY <1>1, RewriteRow
<1>3. Len(requests) \in Nat /\ sub.lifecycle # "none"
  BY Tables, RowsOfPeople DEF BaseInv
<1>4. \A o \in DOMAIN requests' :
         requests'[o].quote \in DOMAIN quotes /\ requests'[o].period <= Len(periods)
  BY <1>1, <1>2 DEF ReferencesExist
<1> QED
  BY <1>1, <1>2, <1>3, <1>4, BaseRequests

(* The row of a request with a new proof, and with a decision. *)
WithProof(x) ==
  [x EXCEPT !.status = "pending_verification", !.version = @ + 1,
            !.proof = x.version + 1]

WithDecision(x, seen, status, period) ==
  [x EXCEPT !.status = status, !.version = @ + 1, !.judged = seen,
            !.period = period]

LEMMA ProofRow ==
  ASSUME NEW x \in PaymentRequests, NEW e, e = WithProof(x)
  PROVE  /\ e \in PaymentRequests /\ e.status = "pending_verification"
         /\ e.version = x.version + 1 /\ e.proof = x.version + 1
         /\ e.quote = x.quote /\ e.judged = x.judged /\ e.period = x.period
<1>1. PICK v \in Nat : v = x.version + 1
  BY DEF PaymentRequests
<1>2. e = [x EXCEPT !.status = "pending_verification", !.version = v, !.proof = v]
  BY <1>1 DEF WithProof
<1>3. /\ e \in PaymentRequests /\ e.status = "pending_verification"
      /\ e.version = v /\ e.proof = v
      /\ e.quote = x.quote /\ e.judged = x.judged /\ e.period = x.period
  BY <1>2 DEF PaymentRequests
<1> QED
  BY <1>1, <1>3

LEMMA DecisionRow ==
  ASSUME NEW x \in PaymentRequests, NEW seen \in Nat, NEW period \in Nat,
         NEW status, status \in {"approved", "rejected", "needs_clarification"}
  PROVE  /\ WithDecision(x, seen, status, period) \in PaymentRequests
         /\ WithDecision(x, seen, status, period).status = status
         /\ WithDecision(x, seen, status, period).version = x.version + 1
         /\ WithDecision(x, seen, status, period).judged = seen
         /\ WithDecision(x, seen, status, period).period = period
         /\ WithDecision(x, seen, status, period).quote = x.quote
         /\ WithDecision(x, seen, status, period).proof = x.proof
<1> DEFINE e == WithDecision(x, seen, status, period)
<1>1. PICK v \in Nat : v = x.version + 1
  BY DEF PaymentRequests
<1>2. e = [x EXCEPT !.status = status, !.version = v, !.judged = seen,
                    !.period = period]
  BY <1>1 DEF WithDecision
<1> HIDE DEF e
<1>3. /\ e \in PaymentRequests /\ e.status = status /\ e.version = v
      /\ e.judged = seen /\ e.period = period
      /\ e.quote = x.quote /\ e.proof = x.proof
  BY <1>2 DEF PaymentRequests
<1> QED
  BY <1>1, <1>3 DEF e

LEMMA BaseResubmit ==
  ASSUME BaseInv, NEW r \in DOMAIN requests, Resubmit(r)
  PROVE  BaseInv'
<1> DEFINE e == WithProof(requests[r])
<1>1. requests[r] \in PaymentRequests /\ requests[r].period <= Len(periods)
  BY Tables DEF BaseInv, TypeOK, ReferencesExist
<1>2. e \in PaymentRequests /\ e.quote = requests[r].quote
      /\ e.period = requests[r].period
  BY <1>1, ProofRow
<1>3. requests' = [requests EXCEPT ![r] = e]
  BY DEF Resubmit, WithProof
<1>4. UNCHANGED <<now, sub, periods, quotes, grants, grace, renewing,
                  activation, enforcement>>
  BY DEF Resubmit, jobVars
<1> HIDE DEF e
<1> QED
  BY <1>1, <1>2, <1>3, <1>4, BaseRewriteRequest

LEMMA BaseRefuse ==
  ASSUME BaseInv, NEW r \in DOMAIN requests, NEW seen \in 1..MaxReviews,
         NEW status \in {"rejected", "needs_clarification"}, Refuse(r, seen, status)
  PROVE  BaseInv'
<1> DEFINE e == WithDecision(requests[r], seen, status, 0)
<1>1. /\ seen \in Nat /\ 0 \in Nat /\ 0 <= Len(periods)
      /\ requests[r] \in PaymentRequests
      /\ status \in {"approved", "rejected", "needs_clarification"}
  BY SubscriptionAssumption, Tables DEF BaseInv
<1>2. e \in PaymentRequests /\ e.quote = requests[r].quote /\ e.period = 0
  <2>1. seen \in Nat /\ 0 \in Nat /\ requests[r] \in PaymentRequests
    BY <1>1
  <2>2. status \in {"approved", "rejected", "needs_clarification"}
    BY <1>1
  <2> QED
    BY <2>1, <2>2, DecisionRow
<1>3. requests' = [requests EXCEPT ![r] = e]
  BY DEF Refuse, Decided, WithDecision
<1>4. UNCHANGED <<now, sub, periods, quotes, grants, grace, renewing,
                  activation, enforcement>>
  BY DEF Refuse, jobVars
<1> HIDE DEF e
<1> QED
  BY <1>1, <1>2, <1>3, <1>4, BaseRewriteRequest

(* What an approval does to every table. *)
NewGrant(p, until) ==
  /\ Len(grants') = Len(grants) + 1
  /\ DOMAIN grants' = DOMAIN grants \cup {Len(grants) + 1}
  /\ Len(grants) + 1 \notin DOMAIN grants
  /\ \A i \in DOMAIN grants : grants'[i] = grants[i]
  /\ grants'[Len(grants) + 1].period = p
  /\ grants'[Len(grants) + 1].until = until

Approval(r, seen, start, q, p) ==
  /\ start \in Nat /\ q = requests[r].quote /\ p = Len(periods) + 1
  /\ quotes[q].status = "accepted"
  /\ Decidable(r, seen)
  /\ ~Overlaps(start, start + Term)
  /\ UNCHANGED <<now, sub, grace, renewing, enforced, activation, enforcement>>
  /\ requests' \in Seq(PaymentRequests) /\ Len(requests') = Len(requests)
  /\ DOMAIN requests' = DOMAIN requests
  /\ \A o \in DOMAIN requests \ {r} : requests'[o] = requests[o]
  /\ requests'[r].quote = q /\ requests'[r].period = p
  /\ requests'[r].status = "approved" /\ requests'[r].judged = seen
  /\ requests'[r].proof = requests[r].proof
  /\ requests'[r].version = requests[r].version + 1
  /\ quotes' \in Seq(Quotes) /\ DOMAIN quotes' = DOMAIN quotes
  /\ \A o \in DOMAIN quotes \ {q} : quotes'[o] = quotes[o]
  /\ quotes'[q].status = "paid" /\ quotes'[q].period = p
  /\ periods' \in Seq(Periods) /\ Len(periods') = p
  /\ DOMAIN periods' = DOMAIN periods \cup {p} /\ p \notin DOMAIN periods
  /\ \A o \in DOMAIN periods : periods'[o] = periods[o]
  /\ periods'[p].start = start /\ periods'[p].end = start + Term
  /\ periods'[p].status = "scheduled" /\ ~periods'[p].trial
  /\ periods'[p].payment = r
  /\ grants' \in Seq(Grants)
  /\ \/ grants' = grants
     \/ NewGrant(p, start + Term)

LEMMA StartIsNat ==
  ASSUME TypeOK, NEW at \in Nat
  PROVE  ScheduledStart(at) \in Nat
<1>1. CASE CurrentAt(at) = {}
  BY <1>1 DEF ScheduledStart
<1>2. CASE CurrentAt(at) # {}
  <2>1. PICK p \in CurrentAt(at) : p = CHOOSE o \in CurrentAt(at) : TRUE
    BY <1>2
  <2>2. p \in DOMAIN periods
    BY DEF CurrentAt
  <2>3. periods[p].end \in Nat
    BY <2>2, Tables DEF Periods
  <2> QED
    BY <1>2, <2>1, <2>3 DEF ScheduledStart
<1> QED
  BY <1>1, <1>2

LEMMA ApprovalIs ==
  ASSUME BaseInv, NEW r \in DOMAIN requests, NEW seen \in 1..MaxReviews,
         Approve(r, seen)
  PROVE  \E start, q, p : Approval(r, seen, start, q, p)
<1> DEFINE q == requests[r].quote
           p == Len(periods) + 1
           e == WithDecision(requests[r], seen, "approved", p)
           f == [quotes[q] EXCEPT !.status = "paid", !.link = "scheduled",
                                  !.period = p]
<1>1. PICK at \in Recent :
        /\ Decidable(r, seen)
        /\ quotes[q].status = "accepted"
        /\ ~Overlaps(ScheduledStart(at), ScheduledStart(at) + Term)
        /\ requests' = Decided(r, seen, "approved", p)
        /\ quotes' = QuotePaid(q, p)
        /\ periods' = Append(periods, [start |-> ScheduledStart(at),
                                       end |-> ScheduledStart(at) + Term,
                                       status |-> "scheduled", trial |-> FALSE,
                                       payment |-> r])
        /\ grants' = CreditsAtApproval(p, at, ScheduledStart(at))
        /\ UNCHANGED <<now, sub, grace, renewing, enforced, jobVars>>
  BY DEF Approve
<1> DEFINE start == ScheduledStart(at)
           x == [start |-> start, end |-> start + Term, status |-> "scheduled",
                 trial |-> FALSE, payment |-> r]
           c == [period |-> p, from |-> at, until |-> start + Term]
<1>2. TypeOK /\ at \in Nat /\ start \in Nat /\ Term \in Nat
  BY RecentIsNat, StartIsNat, SubscriptionAssumption DEF BaseInv
<1>3. /\ p \in Nat /\ seen \in Nat /\ r \in Nat /\ q \in DOMAIN quotes
      /\ requests[r] \in PaymentRequests /\ quotes[q] \in Quotes
  BY SMTT(40), <1>2, Tables, SubscriptionAssumption DEF TypeOK, ReferencesExist
<1>4. /\ e \in PaymentRequests /\ e.status = "approved" /\ e.judged = seen
      /\ e.quote = q /\ e.period = p /\ e.proof = requests[r].proof
      /\ e.version = requests[r].version + 1
  <2>1. "approved" \in {"approved", "rejected", "needs_clarification"}
    OBVIOUS
  <2> QED
    BY <1>3, <2>1, DecisionRow
<1>5. f \in Quotes /\ f.status = "paid" /\ f.period = p
  BY <1>3 DEF Quotes
<1>6. /\ x \in Periods /\ x.start = start /\ x.end = start + Term
      /\ x.status = "scheduled" /\ ~x.trial /\ x.payment = r
  BY <1>2, <1>3 DEF Periods
<1>7. c \in Grants /\ c.period = p /\ c.until = start + Term
  BY <1>2, <1>3 DEF Grants
<1>8. requests' = [requests EXCEPT ![r] = e]
  BY <1>1 DEF Decided, WithDecision
<1>9. quotes' = [quotes EXCEPT ![q] = f]
  BY <1>1 DEF QuotePaid
<1>10. periods' = Append(periods, x)
  BY <1>1
<1>11. grants' = grants \/ grants' = Append(grants, c)
  BY <1>1 DEF CreditsAtApproval
<1> HIDE DEF e, f, x, c, start
<1>0. /\ periods \in Seq(Periods) /\ grants \in Seq(Grants)
      /\ quotes \in Seq(Quotes) /\ requests \in Seq(PaymentRequests)
  BY <1>2 DEF TypeOK
<1>12. /\ requests' \in Seq(PaymentRequests) /\ Len(requests') = Len(requests)
       /\ DOMAIN requests' = DOMAIN requests /\ requests'[r] = e
       /\ \A o \in DOMAIN requests \ {r} : requests'[o] = requests[o]
  BY <1>0, <1>4, <1>8, RewriteRow
<1>13. /\ quotes' \in Seq(Quotes) /\ DOMAIN quotes' = DOMAIN quotes
       /\ quotes'[q] = f
       /\ \A o \in DOMAIN quotes \ {q} : quotes'[o] = quotes[o]
  BY <1>0, <1>3, <1>5, <1>9, RewriteRow
<1>14. /\ periods' \in Seq(Periods) /\ Len(periods') = p
       /\ DOMAIN periods' = DOMAIN periods \cup {p} /\ p \notin DOMAIN periods
       /\ periods'[p] = x /\ \A o \in DOMAIN periods : periods'[o] = periods[o]
  BY <1>0, <1>6, <1>10, AddRow
<1>15. grants' \in Seq(Grants) /\ (grants' = grants \/ NewGrant(p, start + Term))
  <2>1. CASE grants' = grants
    BY <1>0, <2>1
  <2>2. CASE grants' = Append(grants, c)
    <3>1. /\ grants' \in Seq(Grants) /\ Len(grants') = Len(grants) + 1
          /\ DOMAIN grants' = DOMAIN grants \cup {Len(grants) + 1}
          /\ Len(grants) + 1 \notin DOMAIN grants
          /\ \A i \in DOMAIN grants : grants'[i] = grants[i]
          /\ grants'[Len(grants) + 1] = c
      BY <1>0, <1>7, <2>2, AddRow
    <3> QED
      BY <1>7, <3>1 DEF NewGrant
  <2> QED
    BY <1>11, <2>1, <2>2
<1>16. UNCHANGED <<now, sub, grace, renewing, enforced, activation, enforcement>>
  BY <1>1 DEF jobVars
<1>17. ~Overlaps(start, start + Term)
  BY <1>1 DEF start
<1>18. Approval(r, seen, start, q, p)
  BY <1>1, <1>2, <1>4, <1>5, <1>6, <1>12, <1>13, <1>14, <1>15, <1>16, <1>17
     DEF Approval
<1> QED
  BY <1>18

LEMMA BaseApprove ==
  ASSUME BaseInv, NEW r \in DOMAIN requests, NEW seen \in 1..MaxReviews,
         Approve(r, seen)
  PROVE  BaseInv'
<1>1. PICK start, q, p : Approval(r, seen, start, q, p)
  BY ApprovalIs
<1>2. TypeOK /\ ReferencesExist /\ Len(periods) \in Nat /\ p = Len(periods) + 1
      /\ r \in 1..Len(requests) /\ Len(requests) \in Nat
      /\ DOMAIN grants = 1..Len(grants) /\ DOMAIN periods' = 1..p
  BY SMTT(40), <1>1, Tables, LenProperties DEF BaseInv, TypeOK, Approval
<1>3. sub.lifecycle # "none"
  BY RowsOfPeople
<1>4. sub'.current <= Len(periods')
  BY SMTT(40), <1>1, <1>2 DEF Approval, ReferencesExist, TypeOK
<1>5. \A o \in DOMAIN periods' : periods'[o].payment <= Len(requests')
  BY <1>1, <1>2 DEF Approval, ReferencesExist
<1>6. \A o \in DOMAIN quotes' : quotes'[o].period <= Len(periods')
  <2> SUFFICES ASSUME NEW o \in DOMAIN quotes, o # q
               PROVE  quotes[o].period <= Len(periods')
    BY <1>1, <1>2 DEF Approval
  <2>1. quotes[o].period \in Nat
    BY <1>2, Tables DEF Quotes
  <2> QED
    BY <2>1, <1>1, <1>2 DEF Approval, ReferencesExist
<1>7. \A o \in DOMAIN requests' :
        requests'[o].quote \in DOMAIN quotes' /\ requests'[o].period <= Len(periods')
  <2> SUFFICES ASSUME NEW o \in DOMAIN requests
               PROVE  /\ requests'[o].quote \in DOMAIN quotes
                      /\ requests'[o].period <= p
    BY <1>1 DEF Approval
  <2>1. requests[o].period \in Nat /\ q \in DOMAIN quotes
    BY <1>1, <1>2, Tables DEF PaymentRequests, Approval, ReferencesExist
  <2>2. CASE o = r
    BY <2>1, <2>2, <1>1, <1>2 DEF Approval
  <2>3. CASE o # r
    <3>1. /\ requests'[o] = requests[o] /\ requests[o].quote \in DOMAIN quotes
          /\ requests[o].period <= Len(periods)
      BY <2>3, <1>1, <1>2 DEF Approval, ReferencesExist
    <3> QED
      BY <3>1, <2>1, <1>2
  <2> QED
    BY <2>2, <2>3
<1>8. \A i \in DOMAIN grants' : grants'[i].period \in DOMAIN periods'
  BY <1>1, <1>2 DEF Approval, NewGrant, ReferencesExist
<1>9. ReferencesExist'
  BY <1>1, <1>2, <1>4, <1>5, <1>6, <1>7, <1>8 DEF Approval, ReferencesExist
<1>10. NothingBefore'
  BY <1>1, <1>3 DEF Approval, NothingBefore
<1> QED
  BY <1>1, <1>2, <1>9, <1>10 DEF BaseInv, TypeOK, Approval

(* What a candidate of the activation job does when it is activated. *)
SamePeriod(a, b) ==
  /\ a.start = b.start /\ a.end = b.end /\ a.trial = b.trial
  /\ a.payment = b.payment

SameQuote(a, b) ==
  /\ a.type = b.type /\ a.status = b.status /\ a.until = b.until
  /\ a.period = b.period

Activated(p) ==
  /\ Activatable(p, activation.at)
  /\ sub' = Restored(p)
  /\ periods' \in Seq(Periods) /\ Len(periods') = Len(periods)
  /\ DOMAIN periods' = DOMAIN periods
  /\ SamePeriod(periods'[p], periods[p]) /\ periods'[p].status = "active"
  /\ \A o \in DOMAIN periods \ {p} : periods'[o] = periods[o]
  /\ quotes' \in Seq(Quotes) /\ DOMAIN quotes' = DOMAIN quotes
  /\ \A q \in DOMAIN quotes : SameQuote(quotes'[q], quotes[q])
  /\ grants' \in Seq(Grants)
  /\ \/ Granted(p) /\ grants' = grants
     \/ ~Granted(p) /\ NewGrant(p, periods[p].end)

ActivationMoves ==
  /\ activation'.at \in Nat /\ activation'.todo \subseteq activation.todo
  /\ activation' \in [at : Nat, todo : SUBSET Nat]
  /\ activation' = Idle \/ activation'.at = activation.at
  /\ UNCHANGED <<now, requests, grace, renewing, enforcement, enforced>>

LEMMA ActivationIs ==
  ASSUME BaseInv, ActivateNext
  PROVE  /\ ActivationMoves
         /\ \/ UNCHANGED <<periods, quotes, sub, grants>>
            \/ \E p \in DOMAIN periods : Activated(p)
<1>1. PICK p \in activation.todo :
        /\ activation' = ActivationAfter(p)
        /\ IF Activatable(p, activation.at)
           THEN /\ periods' = [periods EXCEPT ![p].status = "active"]
                /\ quotes' = [q \in DOMAIN quotes |->
                                IF quotes[q].period = p
                                THEN [quotes[q] EXCEPT !.link = "active"]
                                ELSE quotes[q]]
                /\ sub' = Restored(p)
                /\ grants' = CreditsAtActivation(p)
           ELSE UNCHANGED <<periods, quotes, sub, grants>>
        /\ UNCHANGED <<now, requests, grace, renewing, enforcement, enforced>>
  BY DEF ActivateNext
<1>2. /\ TypeOK /\ p \in DOMAIN periods /\ p \in Nat /\ periods[p] \in Periods
      /\ activation \in [at : Nat, todo : SUBSET Nat]
  BY Tables DEF BaseInv, TypeOK, ReferencesExist
<1>3. ActivationMoves
  <2>1. CASE activation.todo = {p}
    BY <1>1, <2>1 DEF ActivationMoves, ActivationAfter, Idle
  <2>2. CASE activation.todo # {p}
    <3>1. activation' = [activation EXCEPT !.todo = activation.todo \ {p}]
      BY <1>1, <2>2 DEF ActivationAfter
    <3> QED
      BY <1>1, <1>2, <3>1 DEF ActivationMoves
  <2> QED
    BY <2>1, <2>2
<1>4. CASE ~Activatable(p, activation.at)
  BY <1>1, <1>3, <1>4
<1>5. CASE Activatable(p, activation.at)
  <2> DEFINE x == [periods[p] EXCEPT !.status = "active"]
             c == [period |-> p, from |-> periods[p].start,
                   until |-> periods[p].end]
  <2>1. periods \in Seq(Periods) /\ quotes \in Seq(Quotes) /\ grants \in Seq(Grants)
    BY <1>2 DEF TypeOK
  <2>2. x \in Periods /\ SamePeriod(x, periods[p]) /\ x.status = "active"
    BY <1>2 DEF Periods, SamePeriod
  <2>3. c \in Grants /\ c.period = p /\ c.until = periods[p].end
    BY <1>2 DEF Periods, Grants
  <2>4. periods' = [periods EXCEPT ![p] = x]
    BY <1>1, <1>5
  <2>5. \/ Granted(p) /\ grants' = grants
        \/ ~Granted(p) /\ grants' = Append(grants, c)
    BY <1>1, <1>5 DEF CreditsAtActivation
  <2> HIDE DEF x, c
  <2>6. /\ periods' \in Seq(Periods) /\ Len(periods') = Len(periods)
        /\ DOMAIN periods' = DOMAIN periods /\ periods'[p] = x
        /\ \A o \in DOMAIN periods \ {p} : periods'[o] = periods[o]
    BY <1>2, <2>1, <2>2, <2>4, RewriteRow
  <2>7. \A q \in DOMAIN quotes :
          quotes'[q] \in Quotes /\ SameQuote(quotes'[q], quotes[q])
    <3> SUFFICES ASSUME NEW q \in DOMAIN quotes
                 PROVE  quotes'[q] \in Quotes /\ SameQuote(quotes'[q], quotes[q])
      OBVIOUS
    <3>1. quotes[q] \in Quotes
      BY <1>2, Tables
    <3>2. \/ quotes'[q] = [quotes[q] EXCEPT !.link = "active"]
          \/ quotes'[q] = quotes[q]
      BY <1>1, <1>5
    <3> QED
      BY <3>1, <3>2 DEF Quotes, SameQuote
  <2>8. quotes' \in [DOMAIN quotes -> Quotes]
    BY <1>1, <1>5, <2>7
  <2>9. quotes' \in Seq(Quotes) /\ DOMAIN quotes' = DOMAIN quotes
    BY <2>1, <2>8, RewriteRows
  <2>10. /\ grants' \in Seq(Grants)
         /\ \/ Granted(p) /\ grants' = grants
            \/ ~Granted(p) /\ NewGrant(p, periods[p].end)
    <3>1. CASE Granted(p)
      BY <2>1, <2>5, <3>1
    <3>2. CASE ~Granted(p)
      <4>1. grants' = Append(grants, c)
        BY <2>5, <3>2
      <4>2. /\ grants' \in Seq(Grants) /\ Len(grants') = Len(grants) + 1
            /\ DOMAIN grants' = DOMAIN grants \cup {Len(grants) + 1}
            /\ Len(grants) + 1 \notin DOMAIN grants
            /\ \A i \in DOMAIN grants : grants'[i] = grants[i]
            /\ grants'[Len(grants) + 1] = c
        BY <2>1, <2>3, <4>1, AddRow
      <4> QED
        BY <2>3, <3>2, <4>2 DEF NewGrant
    <3> QED
      BY <3>1, <3>2
  <2>11. Activated(p)
    BY <1>1, <1>5, <2>2, <2>6, <2>7, <2>9, <2>10 DEF Activated
  <2> QED
    BY <1>2, <1>3, <2>11
<1> QED
  BY <1>4, <1>5

LEMMA BaseActivate ==
  ASSUME BaseInv, ActivateNext
  PROVE  BaseInv'
<1>1. ActivationMoves /\ TypeOK /\ ReferencesExist
  BY ActivationIs DEF BaseInv, TypeOK
<1>2. CASE UNCHANGED <<periods, quotes, sub, grants>>
  <2>1. /\ activation' \in [at : Nat, todo : SUBSET DOMAIN periods]
        /\ activation \in [at : Nat, todo : SUBSET Nat]
    BY <1>1 DEF ActivationMoves, TypeOK, ReferencesExist
  <2>2. activation # Idle
    BY DEF ActivateNext, Idle
  <2>3. sub.lifecycle # "none"
    BY <2>2, RowsOfPeople
  <2> QED
    BY <1>1, <1>2, <2>1, <2>3, BaseNoTable DEF ActivationMoves, TypeOK
<1>3. ASSUME NEW p \in DOMAIN periods, Activated(p)
      PROVE  BaseInv'
  <2>1. p \in Nat /\ p <= Len(periods) /\ Len(periods) \in Nat
        /\ periods[p] \in Periods /\ GraceAfter \in Nat
    BY <1>1, Tables, SubscriptionAssumption
  <2>2. /\ sub' = [lifecycle |-> "active", current |-> p,
                   access |-> "operational", cause |-> "none",
                   deadline |-> periods[p].end + GraceAfter]
        /\ periods[p].end + GraceAfter \in Int
    BY <1>3, <2>1 DEF Activated, Restored, Periods
  <2>3. \A o \in DOMAIN periods' : periods'[o].payment <= Len(requests')
    BY <1>1, <1>3 DEF Activated, ActivationMoves, SamePeriod, ReferencesExist
  <2>4. \A q \in DOMAIN quotes' : quotes'[q].period <= Len(periods')
    BY <1>1, <1>3 DEF Activated, SameQuote, ReferencesExist
  <2>5. \A r \in DOMAIN requests' :
          requests'[r].quote \in DOMAIN quotes' /\ requests'[r].period <= Len(periods')
    BY <1>1, <1>3 DEF Activated, ActivationMoves, ReferencesExist
  <2>6. \A i \in DOMAIN grants' : grants'[i].period \in DOMAIN periods'
    BY <1>1, <1>3 DEF Activated, NewGrant, ReferencesExist
  <2>7. ReferencesExist'
    BY <1>1, <1>3, <2>1, <2>2, <2>3, <2>4, <2>5, <2>6
       DEF Activated, ActivationMoves, ReferencesExist
  <2>8. NothingBefore'
    BY <2>2 DEF NothingBefore
  <2>9. /\ sub' \in [lifecycle : {"none", "onboarding", "active"}, current : Nat,
                     access : {"none", "operational", "billing_recovery",
                               "billing_suspended"},
                     cause : {"none", "initial_subscription_unpaid",
                              "subscription_expired"},
                     deadline : Int]
    BY <2>1, <2>2
  <2> QED
    BY <1>1, <1>3, <2>7, <2>8, <2>9 DEF BaseInv, TypeOK, Activated, ActivationMoves
<1> QED
  BY <1>2, <1>3, ActivationIs

LEMMA BaseJobs ==
  ASSUME BaseInv, \/ StartActivation \/ ActivationAborts \/ StartEnforcement
                  \/ EnforcementAborts \/ Tick
  PROVE  BaseInv'
<1>1. /\ now \in Nat /\ now + 1 \in Nat /\ renewing \in {Nothing} \cup Nat
      /\ activation \in [at : Nat, todo : SUBSET DOMAIN periods]
      /\ enforcement \in [at : Nat, deadline : Int] /\ sub.deadline \in Int
      /\ sub.lifecycle = "none" => renewing = Nothing /\ activation = Idle
  BY DEF BaseInv, TypeOK, ReferencesExist, NothingBefore
<1>2. CASE StartActivation
  <2>1. DueActivations(now) \subseteq DOMAIN periods /\ DueActivations(now) # {}
    BY <1>2 DEF StartActivation, DueActivations, CurrentAt
  <2>2. sub.lifecycle # "none"
    BY <2>1, RowsOfPeople
  <2> QED
    BY <1>1, <1>2, <2>1, <2>2, BaseNoTable DEF StartActivation
<1>3. CASE ActivationAborts
  <2>1. Idle \in [at : Nat, todo : SUBSET DOMAIN periods]
    BY DEF Idle
  <2> QED
    BY <1>1, <1>3, <2>1, BaseNoTable DEF ActivationAborts
<1>4. CASE StartEnforcement
  BY <1>1, <1>4, BaseNoTable DEF StartEnforcement
<1>5. CASE EnforcementAborts
  <2>1. NoCandidate \in [at : Nat, deadline : Int]
    BY DEF NoCandidate, NoDeadline
  <2> QED
    BY <1>1, <1>5, <2>1, BaseNoTable DEF EnforcementAborts
<1>6. CASE Tick
  BY <1>1, <1>6, BaseNoTable DEF Tick, jobVars
<1> QED
  BY <1>2, <1>3, <1>4, <1>5, <1>6

(* Steps that change access and grace only. *)
LEMMA BaseAccess ==
  ASSUME BaseInv, sub.lifecycle # "none",
         sub'.lifecycle = sub.lifecycle, sub'.current = sub.current,
         sub' \in [lifecycle : {"none", "onboarding", "active"}, current : Nat,
                   access : {"none", "operational", "billing_recovery",
                             "billing_suspended"},
                   cause : {"none", "initial_subscription_unpaid",
                            "subscription_expired"},
                   deadline : Int],
         enforcement' \in [at : Nat, deadline : Int],
         grace' \in Seq(GraceRequests),
         \A g \in DOMAIN grace' : grace'[g].period \in DOMAIN periods,
         UNCHANGED <<now, periods, quotes, requests, grants, renewing, activation>>
  PROVE  BaseInv'
<1>1. ReferencesExist'
  BY DEF BaseInv, TypeOK, ReferencesExist
<1>2. NothingBefore'
  BY DEF NothingBefore
<1> QED
  BY <1>1, <1>2 DEF BaseInv, TypeOK

LEMMA BaseEnforce ==
  ASSUME BaseInv, EnforceExpiredAccess
  PROVE  BaseInv'
<1>1. TypeOK /\ ReferencesExist /\ NoCandidate \in [at : Nat, deadline : Int]
  BY DEF BaseInv, TypeOK, NoCandidate, NoDeadline
<1>2. CASE /\ enforcement.deadline \notin enforced
           /\ RestrictionDue(enforcement.at)
  <2>1. sub' = [sub EXCEPT !.access = "billing_suspended",
                           !.cause = "subscription_expired"]
    BY <1>2 DEF EnforceExpiredAccess
  <2>2. /\ sub' \in [lifecycle : {"none", "onboarding", "active"}, current : Nat,
                     access : {"none", "operational", "billing_recovery",
                               "billing_suspended"},
                     cause : {"none", "initial_subscription_unpaid",
                              "subscription_expired"},
                     deadline : Int]
        /\ sub'.lifecycle = sub.lifecycle /\ sub'.current = sub.current
    BY <1>1, <2>1 DEF TypeOK
  <2>3. sub.lifecycle # "none"
    BY <1>2, RowsOfPeople DEF RestrictionDue
  <2> QED
    BY <1>1, <2>2, <2>3, BaseAccess DEF EnforceExpiredAccess, TypeOK, ReferencesExist
<1>3. CASE ~(/\ enforcement.deadline \notin enforced
             /\ RestrictionDue(enforcement.at))
  <2>1. /\ UNCHANGED <<sub, periods, quotes, requests, grants, grace, now, renewing,
                       activation>>
        /\ enforcement' = NoCandidate
    BY <1>3 DEF EnforceExpiredAccess
  <2>2. /\ activation \in [at : Nat, todo : SUBSET DOMAIN periods]
        /\ now \in Nat /\ renewing \in {Nothing} \cup Nat
        /\ sub.lifecycle = "none" => renewing = Nothing /\ activation = Idle
    BY DEF BaseInv, TypeOK, ReferencesExist, NothingBefore
  <2> QED
    BY <1>1, <2>1, <2>2, BaseNoTable
<1> QED
  BY <1>2, <1>3

LEMMA GraceUntilIsInt ==
  ASSUME TypeOK, NEW p \in DOMAIN periods, NEW at, NEW until \in GraceUntil(p, at)
  PROVE  /\ until \in Nat /\ until > sub.deadline /\ until > periods[p].end
         /\ until > at
<1>1. periods[p].end \in Nat /\ sub.deadline \in Int /\ GraceMax \in Nat
  BY Tables, SubscriptionAssumption DEF TypeOK, Periods
<1>2. /\ GraceBase(p) \in Int /\ GraceBase(p) >= periods[p].end
      /\ GraceBase(p) >= sub.deadline
  BY <1>1 DEF GraceBase, Larger
<1>3. until > at /\ until \in (GraceBase(p) + 1)..(GraceBase(p) + GraceMax)
  BY DEF GraceUntil
<1> QED
  BY <1>1, <1>2, <1>3

LEMMA BaseRequestGrace ==
  ASSUME BaseInv, RequestGrace
  PROVE  BaseInv'
<1>1. TypeOK /\ ReferencesExist /\ grace \in Seq(GraceRequests)
  BY DEF BaseInv, TypeOK
<1>2. sub.current \in DOMAIN periods /\ sub.lifecycle # "none"
  <2>1. sub.current # 0 /\ sub.current \in Nat /\ sub.current <= Len(periods)
    BY <1>1 DEF RequestGrace, TypeOK, ReferencesExist
  <2> QED
    BY <1>1, <2>1, Tables, RowsOfPeople
<1>3. PICK until \in GraceUntil(sub.current, now) :
        grace' = Append(grace, [period |-> sub.current, until |-> until,
                                status |-> "requested"])
  BY DEF RequestGrace
<1> DEFINE e == [period |-> sub.current, until |-> until, status |-> "requested"]
<1>4. until \in Nat /\ sub.current \in Nat
  BY <1>1, <1>2, GraceUntilIsInt DEF TypeOK
<1>5. e \in GraceRequests /\ e.period = sub.current
  BY <1>4 DEF GraceRequests
<1>6. grace' = Append(grace, e)
  BY <1>3
<1> HIDE DEF e
<1>7. /\ grace' \in Seq(GraceRequests)
      /\ DOMAIN grace' = DOMAIN grace \cup {Len(grace) + 1}
      /\ \A g \in DOMAIN grace : grace'[g] = grace[g]
      /\ grace'[Len(grace) + 1] = e
  BY <1>1, <1>5, <1>6, AddRow
<1>8. \A g \in DOMAIN grace' : grace'[g].period \in DOMAIN periods
  BY <1>1, <1>2, <1>5, <1>7 DEF ReferencesExist
<1> QED
  BY <1>1, <1>2, <1>7, <1>8, BaseAccess DEF RequestGrace, jobVars, TypeOK

LEMMA GraceDecided ==
  ASSUME BaseInv, NEW g \in DOMAIN grace, NEW status \in {"approved", "denied"},
         grace' = [grace EXCEPT ![g].status = status]
  PROVE  /\ grace' \in Seq(GraceRequests)
         /\ \A o \in DOMAIN grace' : grace'[o].period \in DOMAIN periods
<1> DEFINE e == [grace[g] EXCEPT !.status = status]
<1>1. ReferencesExist /\ grace \in Seq(GraceRequests)
  BY DEF BaseInv, TypeOK
<1>2. grace[g] \in GraceRequests
  BY Tables DEF BaseInv
<1>3. e \in GraceRequests /\ e.period = grace[g].period
  BY <1>2 DEF GraceRequests
<1>4. grace' = [grace EXCEPT ![g] = e]
  OBVIOUS
<1> HIDE DEF e
<1>5. /\ grace' \in Seq(GraceRequests) /\ DOMAIN grace' = DOMAIN grace
      /\ grace'[g] = e /\ \A o \in DOMAIN grace \ {g} : grace'[o] = grace[o]
  BY <1>1, <1>3, <1>4, RewriteRow
<1> QED
  BY <1>1, <1>3, <1>5 DEF ReferencesExist

(* The access that an approved or a granted grace leaves. *)
LEMMA GraceAccess ==
  ASSUME BaseInv, NEW g \in DOMAIN grace, ApproveGrace(g)
  PROVE  /\ sub' \in [lifecycle : {"none", "onboarding", "active"}, current : Nat,
                      access : {"none", "operational", "billing_recovery",
                                "billing_suspended"},
                      cause : {"none", "initial_subscription_unpaid",
                               "subscription_expired"},
                      deadline : Int]
         /\ sub'.lifecycle = sub.lifecycle /\ sub'.current = sub.current
         /\ sub'.deadline > sub.deadline /\ sub'.deadline \in Nat
         /\ sub'.access # "billing_suspended"
         /\ sub.access = "operational" => sub'.access = "operational"
         /\ sub.access = "billing_suspended" => sub'.access = "operational"
<1>1. TypeOK /\ grace[g].period \in DOMAIN periods
  BY DEF BaseInv, TypeOK, ReferencesExist
<1>0. PICK at \in Recent : \E until \in GraceUntil(grace[g].period, at) :
        sub' = [sub EXCEPT
                  !.access = IF @ = "billing_suspended" THEN "operational" ELSE @,
                  !.cause = IF sub.access = "billing_suspended" THEN "none" ELSE @,
                  !.deadline = until]
  BY DEF ApproveGrace
<1>2. PICK until \in GraceUntil(grace[g].period, at) :
        sub' = [sub EXCEPT
                  !.access = IF @ = "billing_suspended" THEN "operational" ELSE @,
                  !.cause = IF sub.access = "billing_suspended" THEN "none" ELSE @,
                  !.deadline = until]
  BY <1>0
<1>3. until \in Nat /\ until > sub.deadline
  BY <1>1, GraceUntilIsInt
<1>4. PICK a \in {"none", "operational", "billing_recovery"} :
        /\ a = IF sub.access = "billing_suspended" THEN "operational"
               ELSE sub.access
        /\ sub.access = "operational" => a = "operational"
        /\ sub.access = "billing_suspended" => a = "operational"
  BY <1>1 DEF TypeOK
<1>5. PICK c \in {"none", "initial_subscription_unpaid", "subscription_expired"} :
        c = IF sub.access = "billing_suspended" THEN "none" ELSE sub.cause
  BY <1>1 DEF TypeOK
<1>8. PICK t \in Int : t = until
  BY <1>3
<1>6. sub' = [sub EXCEPT !.access = a, !.cause = c, !.deadline = t]
  BY <1>2, <1>4, <1>5, <1>8
<1>7. /\ sub' \in [lifecycle : {"none", "onboarding", "active"}, current : Nat,
                   access : {"none", "operational", "billing_recovery",
                             "billing_suspended"},
                   cause : {"none", "initial_subscription_unpaid",
                            "subscription_expired"},
                   deadline : Int]
      /\ sub'.lifecycle = sub.lifecycle /\ sub'.current = sub.current
      /\ sub'.deadline = t /\ sub'.access = a
  BY <1>1, <1>6 DEF TypeOK
<1> QED
  BY <1>3, <1>4, <1>7, <1>8

LEMMA PlatformGrace ==
  ASSUME BaseInv, NEW days \in 1..GraceMax, GrantPlatformGrace(days)
  PROVE  /\ sub' \in [lifecycle : {"none", "onboarding", "active"}, current : Nat,
                      access : {"none", "operational", "billing_recovery",
                                "billing_suspended"},
                      cause : {"none", "initial_subscription_unpaid",
                               "subscription_expired"},
                      deadline : Int]
         /\ sub'.lifecycle = sub.lifecycle /\ sub'.current = sub.current
         /\ sub'.deadline > sub.deadline /\ sub'.deadline > now
         /\ sub'.access = "operational" /\ sub.lifecycle # "none"
<1>1. TypeOK /\ ReferencesExist /\ days \in Nat \ {0} /\ now \in Nat
      /\ sub.deadline \in Int
  BY SubscriptionAssumption DEF BaseInv, TypeOK
<1>2. sub.current # 0 /\ sub.current \in Nat /\ sub.current <= Len(periods)
  BY <1>1 DEF GrantPlatformGrace, TypeOK, ReferencesExist
<1>3. sub.current \in DOMAIN periods /\ sub.lifecycle # "none"
  BY <1>1, <1>2, Tables, RowsOfPeople
<1>4. periods[sub.current].end \in Nat
  BY <1>1, <1>3, Tables DEF Periods
<1> DEFINE d == Larger(now, GraceBase(sub.current)) + days
<1>5. d \in Int /\ d > sub.deadline /\ d > now
  BY <1>1, <1>4 DEF Larger, GraceBase
<1>6. sub' = [sub EXCEPT !.access = "operational", !.cause = "none",
                         !.deadline = d]
  BY DEF GrantPlatformGrace
<1> HIDE DEF d
<1> QED
  BY <1>1, <1>3, <1>5, <1>6 DEF TypeOK

LEMMA BaseGrace ==
  ASSUME BaseInv, GraceStep
  PROVE  BaseInv'
<1>1. CASE RequestGrace
  BY <1>1, BaseRequestGrace
<1>2. ASSUME NEW g \in DOMAIN grace, ApproveGrace(g)
      PROVE  BaseInv'
  <2>1. sub.lifecycle # "none"
    BY RowsOfPeople
  <2>2. /\ grace' \in Seq(GraceRequests)
        /\ \A o \in DOMAIN grace' : grace'[o].period \in DOMAIN periods
    BY <1>2, GraceDecided DEF ApproveGrace
  <2>3. enforcement \in [at : Nat, deadline : Int]
    BY DEF BaseInv, TypeOK
  <2>4. UNCHANGED <<now, periods, quotes, requests, grants, renewing, activation,
                    enforcement>>
    BY <1>2 DEF ApproveGrace, jobVars
  <2> QED
    BY <1>2, <2>1, <2>2, <2>3, <2>4, GraceAccess, BaseAccess
<1>3. ASSUME NEW g \in DOMAIN grace, DenyGrace(g)
      PROVE  BaseInv'
  <2>1. sub.lifecycle # "none"
    BY RowsOfPeople
  <2>2. /\ grace' \in Seq(GraceRequests)
        /\ \A o \in DOMAIN grace' : grace'[o].period \in DOMAIN periods
    BY <1>3, GraceDecided DEF DenyGrace
  <2> QED
    BY <1>3, <2>1, <2>2, BaseAccess DEF DenyGrace, jobVars, BaseInv, TypeOK
<1>4. ASSUME NEW days \in 1..GraceMax, GrantPlatformGrace(days)
      PROVE  BaseInv'
  <2>1. /\ enforcement \in [at : Nat, deadline : Int]
        /\ grace \in Seq(GraceRequests)
        /\ \A o \in DOMAIN grace : grace[o].period \in DOMAIN periods
    BY DEF BaseInv, TypeOK, ReferencesExist
  <2>2. UNCHANGED <<now, periods, quotes, requests, grants, renewing, activation,
                    enforcement, grace>>
    BY <1>4 DEF GrantPlatformGrace, jobVars
  <2> QED
    BY <1>4, <2>1, <2>2, PlatformGrace, BaseAccess
<1> QED
  BY <1>1, <1>2, <1>3, <1>4 DEF GraceStep

(* Every step keeps the types and the references. *)
LEMMA BaseNext ==
  ASSUME BaseInv, [SubscriptionNext]_vars
  PROVE  BaseInv'
<1>1. CASE ProvisionInitialQuote
  BY <1>1, BaseProvisionInitialQuote
<1>2. CASE \E length \in TrialLengths : ProvisionFreeTrial(length)
  BY <1>2, BaseFreeTrial
<1>3. CASE RenewalStep
  BY <1>3, BaseRenewal
<1>4. CASE PaymentStep
  BY <1>4, BaseSubmit, BaseResubmit DEF PaymentStep
<1>5. CASE ReviewStep
  BY <1>5, BaseApprove, BaseRefuse DEF ReviewStep
<1>6. CASE ActivationStep
  BY <1>6, BaseJobs, BaseActivate DEF ActivationStep
<1>7. CASE EnforcementStep
  BY <1>7, BaseJobs, BaseEnforce DEF EnforcementStep
<1>8. CASE ActivationAborts \/ EnforcementAborts \/ Tick
  BY <1>8, BaseJobs
<1>9. CASE GraceStep
  BY <1>9, BaseGrace
<1>10. CASE UNCHANGED vars
  BY <1>10 DEF vars, BaseInv, TypeOK, NothingBefore, ReferencesExist
<1> QED
  BY <1>1, <1>2, <1>3, <1>4, <1>5, <1>6, <1>7, <1>8, <1>9, <1>10
     DEF SubscriptionNext

(* Every variable keeps its type and every reference a row. *)
THEOREM TypesAndReferences == SubscriptionSpec => []TypeOK
<1>1. BaseInv /\ [SubscriptionNext]_vars => BaseInv'
  BY BaseNext
<1> QED
  BY BaseInit, <1>1, PTL DEF SubscriptionSpec, BaseInv

LEMMA BaseAlways == SubscriptionSpec => []BaseInv
<1>1. BaseInv /\ [SubscriptionNext]_vars => BaseInv'
  BY BaseNext
<1> QED
  BY BaseInit, <1>1, PTL DEF SubscriptionSpec

------------------------------------------------------------------------------
(* The steps, by what they do to payments, periods and credits *)

\* Nothing is sold, though a quote may be added.
NoSale ==
  /\ UNCHANGED <<periods, requests, grants>>
  /\ DOMAIN quotes \subseteq DOMAIN quotes'
  /\ \A q \in DOMAIN quotes : quotes'[q] = quotes[q]
  /\ \A q \in DOMAIN quotes' \ DOMAIN quotes : quotes'[q].status # "paid"

\* A proof is received, and no quote was paid or becomes so.
ProofReceived ==
  /\ UNCHANGED <<periods, grants>>
  /\ DOMAIN quotes' = DOMAIN quotes
  /\ \A q \in DOMAIN quotes : /\ quotes'[q].status = quotes[q].status
                                 \/ /\ quotes[q].status # "paid"
                                    /\ quotes'[q].status # "paid"
                              /\ quotes'[q].period = quotes[q].period
  /\ DOMAIN requests \subseteq DOMAIN requests'
  /\ \E r \in DOMAIN requests' :
       /\ \A o \in DOMAIN requests' \ {r} :
            o \in DOMAIN requests /\ requests'[o] = requests[o]
       /\ r \in DOMAIN requests =>
            /\ requests[r].status \notin {"approved", "rejected"}
            /\ requests'[r].quote = requests[r].quote
       /\ requests'[r].status = "pending_verification"
       /\ requests'[r].proof = requests'[r].version

\* A payment is refused, or clarified.
PaymentRefused ==
  /\ UNCHANGED <<periods, grants, quotes>>
  /\ DOMAIN requests' = DOMAIN requests
  /\ \E r \in DOMAIN requests, seen \in Nat :
       /\ Decidable(r, seen)
       /\ \A o \in DOMAIN requests \ {r} : requests'[o] = requests[o]
       /\ requests'[r].status \in {"rejected", "needs_clarification"}
       /\ requests'[r].judged = seen /\ requests'[r].proof = requests[r].proof
       /\ requests'[r].quote = requests[r].quote

StepKinds ==
  \/ NoSale
  \/ \E length \in TrialLengths : ProvisionFreeTrial(length)
  \/ ProofReceived
  \/ PaymentRefused
  \/ \E r \in DOMAIN requests, seen \in Nat :
       \E start, q, p : Approval(r, seen, start, q, p)
  \/ ActivationMoves /\ \E p \in DOMAIN periods : Activated(p)

LEMMA SubmitKind ==
  ASSUME BaseInv, NEW q \in DOMAIN quotes, SubmitPayment(q)
  PROVE  ProofReceived
<1> DEFINE e == [quote |-> q, version |-> 1, proof |-> 1,
                 status |-> "pending_verification", judged |-> 0, period |-> 0]
           f == [quotes[q] EXCEPT !.status = "accepted"]
<1>1. /\ quotes' = [quotes EXCEPT ![q] = f] /\ requests' = Append(requests, e)
      /\ UNCHANGED <<periods, grants>> /\ quotes[q].status # "paid"
  BY DEF SubmitPayment, Payable
<1>2. quotes[q] \in Quotes /\ q \in Nat /\ quotes \in Seq(Quotes)
      /\ requests \in Seq(PaymentRequests)
  BY Tables DEF BaseInv, TypeOK
<1>3. f \in Quotes /\ f.period = quotes[q].period /\ f.status = "accepted"
  BY <1>2 DEF Quotes
<1>4. e \in PaymentRequests /\ e.status = "pending_verification"
      /\ e.proof = e.version
  BY <1>2 DEF PaymentRequests
<1> HIDE DEF e, f
<1>5. /\ DOMAIN quotes' = DOMAIN quotes /\ quotes'[q] = f
      /\ \A o \in DOMAIN quotes \ {q} : quotes'[o] = quotes[o]
  BY <1>1, <1>2, <1>3, RewriteRow
<1>6. /\ DOMAIN requests' = DOMAIN requests \cup {Len(requests) + 1}
      /\ \A r \in DOMAIN requests : requests'[r] = requests[r]
      /\ Len(requests) + 1 \notin DOMAIN requests
      /\ requests'[Len(requests) + 1] = e
  BY <1>1, <1>2, <1>4, AddRow
<1>7. \A o \in DOMAIN quotes : /\ quotes'[o].status = quotes[o].status
                                  \/ /\ quotes[o].status # "paid"
                                     /\ quotes'[o].status # "paid"
                               /\ quotes'[o].period = quotes[o].period
  BY <1>1, <1>3, <1>5
<1>8. \E r \in DOMAIN requests' :
        /\ \A o \in DOMAIN requests' \ {r} :
             o \in DOMAIN requests /\ requests'[o] = requests[o]
        /\ r \notin DOMAIN requests
        /\ requests'[r].status = "pending_verification"
        /\ requests'[r].proof = requests'[r].version
  <2>1. Len(requests) + 1 \in DOMAIN requests'
    BY <1>6
  <2> WITNESS Len(requests) + 1 \in DOMAIN requests'
  <2> QED
    BY <1>4, <1>6
<1> QED
  BY <1>1, <1>5, <1>6, <1>7, <1>8 DEF ProofReceived

LEMMA ResubmitKind ==
  ASSUME BaseInv, NEW r \in DOMAIN requests, Resubmit(r)
  PROVE  ProofReceived
<1> DEFINE e == WithProof(requests[r])
<1>1. requests[r] \in PaymentRequests /\ requests \in Seq(PaymentRequests)
  BY Tables DEF BaseInv, TypeOK
<1>2. /\ e \in PaymentRequests /\ e.quote = requests[r].quote
      /\ e.status = "pending_verification" /\ e.proof = e.version
  BY <1>1, ProofRow
<1>3. /\ requests' = [requests EXCEPT ![r] = e]
      /\ requests[r].status \notin {"approved", "rejected"}
      /\ UNCHANGED <<periods, grants, quotes>>
  BY DEF Resubmit, WithProof
<1> HIDE DEF e
<1>4. /\ DOMAIN requests' = DOMAIN requests /\ requests'[r] = e
      /\ \A o \in DOMAIN requests \ {r} : requests'[o] = requests[o]
  BY <1>1, <1>2, <1>3, RewriteRow
<1> QED
  BY <1>2, <1>3, <1>4 DEF ProofReceived

LEMMA RefuseKind ==
  ASSUME BaseInv, NEW r \in DOMAIN requests, NEW seen \in 1..MaxReviews,
         NEW status \in {"rejected", "needs_clarification"}, Refuse(r, seen, status)
  PROVE  PaymentRefused
<1> DEFINE e == WithDecision(requests[r], seen, status, 0)
<1>1. seen \in Nat /\ 0 \in Nat /\ requests[r] \in PaymentRequests
      /\ requests \in Seq(PaymentRequests)
  BY SubscriptionAssumption, Tables DEF BaseInv, TypeOK
<1>2. status \in {"approved", "rejected", "needs_clarification"}
  OBVIOUS
<1>3. e \in PaymentRequests /\ e.quote = requests[r].quote /\ e.status = status
      /\ e.judged = seen /\ e.proof = requests[r].proof
  BY <1>1, <1>2, DecisionRow
<1>4. requests' = [requests EXCEPT ![r] = e]
  BY DEF Refuse, Decided, WithDecision
<1> HIDE DEF e
<1>5. /\ DOMAIN requests' = DOMAIN requests /\ requests'[r] = e
      /\ \A o \in DOMAIN requests \ {r} : requests'[o] = requests[o]
  BY <1>1, <1>3, <1>4, RewriteRow
<1> QED
  BY <1>1, <1>3, <1>5 DEF PaymentRefused, Refuse

LEMMA AddQuoteKind ==
  ASSUME BaseInv, NEW type \in {"purchase", "renewal"}, NEW until \in Nat,
         AddQuote(type, until), UNCHANGED <<periods, requests, grants>>
  PROVE  NoSale
<1> DEFINE e == [type |-> type, status |-> "draft", until |-> until,
                 link |-> "awaiting_payment", period |-> 0]
<1>1. e \in Quotes /\ e.status # "paid"
  BY DEF Quotes
<1>2. quotes \in Seq(Quotes) /\ quotes' = Append(quotes, e)
  BY DEF BaseInv, TypeOK, AddQuote
<1> HIDE DEF e
<1>3. /\ DOMAIN quotes' = DOMAIN quotes \cup {Len(quotes) + 1}
      /\ \A q \in DOMAIN quotes : quotes'[q] = quotes[q]
      /\ quotes'[Len(quotes) + 1] = e
  BY <1>1, <1>2, AddRow
<1> QED
  BY <1>1, <1>3 DEF NoSale

LEMMA KindOfStep ==
  ASSUME BaseInv, [SubscriptionNext]_vars
  PROVE  StepKinds
<1> USE DEF StepKinds
<1>1. CASE ProvisionInitialQuote
  <2>1. now + QuoteLife \in Nat
    BY SubscriptionAssumption DEF BaseInv, TypeOK
  <2> QED
    BY <1>1, <2>1, AddQuoteKind DEF ProvisionInitialQuote
<1>2. CASE \E length \in TrialLengths : ProvisionFreeTrial(length)
  BY <1>2
<1>3. CASE RenewalStep
  <2>1. CASE CreateRenewalQuote
    <3>1. renewing + QuoteLife \in Nat
      BY <2>1, SubscriptionAssumption DEF CreateRenewalQuote, BaseInv, TypeOK
    <3> QED
      BY <2>1, <3>1, AddQuoteKind DEF CreateRenewalQuote
  <2> QED
    BY <1>3, <2>1 DEF RenewalStep, ReadRenewal, RenewalNotCreated, NoSale
<1>4. CASE PaymentStep
  BY <1>4, SubmitKind, ResubmitKind DEF PaymentStep
<1>5. CASE ReviewStep
  <2>1. 1..MaxReviews \subseteq Nat
    OBVIOUS
  <2>2. ASSUME NEW r \in DOMAIN requests, NEW seen \in 1..MaxReviews,
               Approve(r, seen)
        PROVE  StepKinds
    BY <2>1, <2>2, ApprovalIs
  <2> QED
    BY <1>5, <2>2, RefuseKind DEF ReviewStep
<1>6. CASE ActivationStep
  BY <1>6, ActivationIs DEF ActivationStep, StartActivation, NoSale,
     ActivationMoves
<1>7. CASE EnforcementStep \/ EnforcementAborts \/ ActivationAborts \/ Tick
  BY <1>7 DEF EnforcementStep, StartEnforcement, EnforceExpiredAccess,
     EnforcementAborts, ActivationAborts, Tick, NoSale
<1>8. CASE GraceStep
  BY <1>8 DEF GraceStep, RequestGrace, ApproveGrace, DenyGrace,
     GrantPlatformGrace, NoSale
<1>9. CASE UNCHANGED vars
  BY <1>9 DEF vars, NoSale
<1> QED
  BY <1>1, <1>2, <1>3, <1>4, <1>5, <1>6, <1>7, <1>8, <1>9 DEF SubscriptionNext

------------------------------------------------------------------------------
(* Periods *)

LEMMA ApprovalIsTyped ==
  ASSUME BaseInv, NEW r, NEW seen, NEW start, NEW q, NEW p,
         Approval(r, seen, start, q, p)
  PROVE  /\ DOMAIN periods = 1..Len(periods) /\ Len(periods) \in Nat
         /\ p = Len(periods) + 1 /\ p \notin DOMAIN periods
         /\ \A o \in DOMAIN periods :
              periods[o].start \in Nat /\ periods[o].end \in Nat
         /\ start \in Nat /\ Term \in Nat
  BY Tables, SubscriptionAssumption DEF BaseInv, Approval, Periods

LEMMA DisjointNext ==
  ASSUME BaseInv, PeriodsAreDisjoint, [SubscriptionNext]_vars
  PROVE  PeriodsAreDisjoint'
<1>1. StepKinds
  BY KindOfStep
<1>2. CASE UNCHANGED periods
  BY <1>2 DEF PeriodsAreDisjoint
<1>3. ASSUME NEW length \in TrialLengths, ProvisionFreeTrial(length)
      PROVE  PeriodsAreDisjoint'
  <2>1. DOMAIN periods' = {1}
    BY <1>3 DEF ProvisionFreeTrial
  <2> QED
    BY <2>1 DEF PeriodsAreDisjoint
<1>4. ASSUME NEW r, NEW seen, NEW start, NEW q, NEW p,
             Approval(r, seen, start, q, p)
      PROVE  PeriodsAreDisjoint'
  <2>1. \A o \in DOMAIN periods :
           periods[o].end <= start \/ start + Term <= periods[o].start
    <3>1. ~ Overlaps(start, start + Term)
      BY <1>4 DEF Approval
    <3>2. /\ start \in Nat /\ Term \in Nat
          /\ \A o \in DOMAIN periods :
               periods[o].start \in Nat /\ periods[o].end \in Nat
      BY <1>4, ApprovalIsTyped
    <3> QED
      BY <3>1, <3>2 DEF Overlaps
  <2>2. /\ periods'[p].start = start /\ periods'[p].end = start + Term
        /\ DOMAIN periods' = DOMAIN periods \cup {p}
        /\ \A o \in DOMAIN periods : periods'[o] = periods[o]
    BY <1>4 DEF Approval
  <2> QED
    BY <2>1, <2>2 DEF PeriodsAreDisjoint
<1>5. ASSUME NEW p \in DOMAIN periods, Activated(p)
      PROVE  PeriodsAreDisjoint'
  <2>1. /\ DOMAIN periods' = DOMAIN periods
        /\ \A o \in DOMAIN periods : /\ periods'[o].start = periods[o].start
                                     /\ periods'[o].end = periods[o].end
    BY <1>5 DEF Activated, SamePeriod
  <2> QED
    BY <2>1 DEF PeriodsAreDisjoint
<1> QED
  BY <1>1, <1>2, <1>3, <1>4, <1>5 DEF StepKinds, NoSale, ProofReceived,
     PaymentRefused

(* No two periods of the organization share a moment. *)
THEOREM DisjointPeriods == SubscriptionSpec => []PeriodsAreDisjoint
<1>1. SubscriptionInit => PeriodsAreDisjoint
  <2>1. DOMAIN <<>> = {}
    BY EmptySeq
  <2> QED
    BY <2>1 DEF SubscriptionInit, PeriodsAreDisjoint
<1>2. BaseInv /\ PeriodsAreDisjoint /\ [SubscriptionNext]_vars
        => PeriodsAreDisjoint'
  BY DisjointNext
<1> QED
  BY <1>1, <1>2, BaseAlways, PTL DEF SubscriptionSpec

------------------------------------------------------------------------------
(* Judgements *)

(* A waiting request has the proof that its version numbers. *)
JudgeInv ==
  JudgedAsSeen /\ \A r \in DOMAIN requests :
                    requests[r].status = "pending_verification" =>
                      requests[r].proof = requests[r].version

LEMMA JudgeNext ==
  ASSUME BaseInv, JudgeInv, [SubscriptionNext]_vars
  PROVE  JudgeInv'
<1>1. StepKinds
  BY KindOfStep
<1>2. CASE UNCHANGED requests
  BY <1>2 DEF JudgeInv, JudgedAsSeen
<1>3. CASE ProofReceived
  BY <1>3 DEF ProofReceived, JudgeInv, JudgedAsSeen
<1>4. CASE PaymentRefused
  BY <1>4 DEF PaymentRefused, Decidable, JudgeInv, JudgedAsSeen
<1>5. ASSUME NEW r \in DOMAIN requests, NEW seen, NEW start, NEW q, NEW p,
             Approval(r, seen, start, q, p)
      PROVE  JudgeInv'
  <2>1. /\ DOMAIN requests' = DOMAIN requests
        /\ \A o \in DOMAIN requests \ {r} : requests'[o] = requests[o]
        /\ requests'[r].status = "approved"
        /\ requests'[r].judged = requests[r].version
        /\ requests'[r].proof = requests[r].proof
        /\ requests[r].status = "pending_verification"
    BY <1>5 DEF Approval, Decidable
  <2> QED
    BY <2>1 DEF JudgeInv, JudgedAsSeen
<1> QED
  BY <1>1, <1>2, <1>3, <1>4, <1>5 DEF StepKinds, NoSale, ProvisionFreeTrial,
     ActivationMoves

(* A decision stands for the proof its reviewer saw. *)
THEOREM JudgementsAreCurrent == SubscriptionSpec => []JudgedAsSeen
<1>1. SubscriptionInit => JudgeInv
  <2>1. DOMAIN <<>> = {}
    BY EmptySeq
  <2> QED
    BY <2>1 DEF SubscriptionInit, JudgeInv, JudgedAsSeen
<1>2. BaseInv /\ JudgeInv /\ [SubscriptionNext]_vars => JudgeInv'
  BY JudgeNext
<1>3. JudgeInv => JudgedAsSeen
  BY DEF JudgeInv
<1> QED
  BY <1>1, <1>2, <1>3, BaseAlways, PTL DEF SubscriptionSpec

------------------------------------------------------------------------------
(* Credits *)

LEMMA CreditsNext ==
  ASSUME BaseInv, CreditsIssuedOnce, [SubscriptionNext]_vars
  PROVE  CreditsIssuedOnce'
<1>1. StepKinds
  BY KindOfStep
<1>2. CASE UNCHANGED <<periods, grants>>
  BY <1>2 DEF CreditsIssuedOnce, Granted
<1>3. ASSUME NEW length \in TrialLengths, ProvisionFreeTrial(length)
      PROVE  CreditsIssuedOnce'
  <2>1. /\ DOMAIN periods' = {1} /\ DOMAIN grants' = {1} /\ grants'[1].period = 1
        /\ grants'[1].until = periods'[1].end
    BY <1>3 DEF ProvisionFreeTrial
  <2> QED
    BY <2>1 DEF CreditsIssuedOnce, Granted
<1>4. \A i \in DOMAIN grants : grants[i].period \in DOMAIN periods
  BY DEF BaseInv, TypeOK, ReferencesExist
<1>5. ASSUME NEW r, NEW seen, NEW start, NEW q, NEW p,
             Approval(r, seen, start, q, p)
      PROVE  CreditsIssuedOnce'
  <2>1. /\ p \notin DOMAIN periods /\ DOMAIN periods' = DOMAIN periods \cup {p}
        /\ \A o \in DOMAIN periods : periods'[o] = periods[o]
        /\ periods'[p].status = "scheduled" /\ periods'[p].end = start + Term
    BY <1>5 DEF Approval
  <2>2. CASE grants' = grants
    BY <1>4, <2>1, <2>2 DEF CreditsIssuedOnce, Granted
  <2>3. CASE NewGrant(p, start + Term)
    BY <1>4, <2>1, <2>3 DEF CreditsIssuedOnce, Granted, NewGrant
  <2> QED
    BY <1>5, <2>2, <2>3 DEF Approval
<1>6. ASSUME NEW p \in DOMAIN periods, Activated(p)
      PROVE  CreditsIssuedOnce'
  <2>1. /\ DOMAIN periods' = DOMAIN periods
        /\ \A o \in DOMAIN periods : periods'[o].end = periods[o].end
        /\ \A o \in DOMAIN periods \ {p} : periods'[o] = periods[o]
    BY <1>6 DEF Activated, SamePeriod
  <2>2. CASE Granted(p) /\ grants' = grants
    BY <1>4, <2>1, <2>2 DEF CreditsIssuedOnce, Granted
  <2>3. CASE ~Granted(p) /\ NewGrant(p, periods[p].end)
    BY <1>4, <2>1, <2>3 DEF CreditsIssuedOnce, Granted, NewGrant
  <2> QED
    BY <1>6, <2>2, <2>3 DEF Activated
<1> QED
  BY <1>1, <1>2, <1>3, <1>5, <1>6 DEF StepKinds, NoSale, ProofReceived,
     PaymentRefused

(* The credits of a period are issued once and end with it. *)
THEOREM CreditsOnce == SubscriptionSpec => []CreditsIssuedOnce
<1>1. SubscriptionInit => CreditsIssuedOnce
  <2>1. DOMAIN <<>> = {}
    BY EmptySeq
  <2> QED
    BY <2>1 DEF SubscriptionInit, CreditsIssuedOnce
<1>2. BaseInv /\ CreditsIssuedOnce /\ [SubscriptionNext]_vars
        => CreditsIssuedOnce'
  BY CreditsNext
<1> QED
  BY <1>1, <1>2, BaseAlways, PTL DEF SubscriptionSpec

------------------------------------------------------------------------------
(* Payments and the periods they fund *)

(* An approved payment, its quote and its period name each other; a trial has *)
(* no payment; a paid quote has an approved payment.                          *)
PaymentInv ==
  /\ \A r \in DOMAIN requests :
       requests[r].status = "approved" =>
         /\ requests[r].period \in DOMAIN periods
         /\ periods[requests[r].period].payment = r
         /\ quotes[requests[r].quote].status = "paid"
         /\ quotes[requests[r].quote].period = requests[r].period
  /\ \A p \in DOMAIN periods :
       IF periods[p].trial THEN periods[p].payment = 0 ELSE Funded(p)
  /\ \A q \in DOMAIN quotes :
       quotes[q].status = "paid" =>
         \E r \in DOMAIN requests :
           requests[r].quote = q /\ requests[r].status = "approved"

LEMMA PaymentInvImplies ==
  ASSUME BaseInv, PaymentInv
  PROVE  PaymentFundsOnePeriod
<1>1. \A r \in DOMAIN requests : r # 0
  BY Tables DEF BaseInv
<1>2. \A r \in DOMAIN requests :
        requests[r].status = "approved" <=>
          \E p \in DOMAIN periods :
            periods[p].payment = r /\ requests[r].period = p
  BY <1>1 DEF PaymentInv, Funded
<1>3. \A p \in DOMAIN periods : ~periods[p].trial => Funded(p)
  BY DEF PaymentInv
<1>4. \A q \in DOMAIN quotes :
        \A r, o \in DOMAIN requests :
          /\ requests[r].quote = q /\ requests[r].status = "approved"
          /\ requests[o].quote = q /\ requests[o].status = "approved"
          => quotes[q].period = requests[r].period /\ o = r
  BY DEF PaymentInv
<1>5. \A q \in DOMAIN quotes :
        quotes[q].status = "paid" <=>
          \E r \in DOMAIN requests :
            /\ requests[r].quote = q /\ requests[r].status = "approved"
            /\ quotes[q].period = requests[r].period
            /\ \A o \in DOMAIN requests :
                 requests[o].quote = q /\ requests[o].status = "approved" => o = r
  <2> SUFFICES ASSUME NEW q \in DOMAIN quotes
               PROVE  quotes[q].status = "paid" <=>
                        \E r \in DOMAIN requests :
                          /\ requests[r].quote = q
                          /\ requests[r].status = "approved"
                          /\ quotes[q].period = requests[r].period
                          /\ \A o \in DOMAIN requests :
                               /\ requests[o].quote = q
                               /\ requests[o].status = "approved"
                               => o = r
    OBVIOUS
  <2>1. ASSUME quotes[q].status = "paid"
        PROVE  \E r \in DOMAIN requests :
                 /\ requests[r].quote = q /\ requests[r].status = "approved"
                 /\ quotes[q].period = requests[r].period
                 /\ \A o \in DOMAIN requests :
                      requests[o].quote = q /\ requests[o].status = "approved"
                        => o = r
    <3>1. PICK r \in DOMAIN requests :
            requests[r].quote = q /\ requests[r].status = "approved"
      BY <2>1 DEF PaymentInv
    <3> QED
      BY <1>4, <3>1
  <2>2. ASSUME NEW r \in DOMAIN requests, requests[r].quote = q,
               requests[r].status = "approved"
        PROVE  quotes[q].status = "paid"
    BY <2>2 DEF PaymentInv
  <2> QED
    BY <2>1, <2>2
<1> QED
  BY <1>2, <1>3, <1>5 DEF PaymentFundsOnePeriod

LEMMA PaymentNext ==
  ASSUME BaseInv, PaymentInv, [SubscriptionNext]_vars
  PROVE  PaymentInv'
<1>1. StepKinds
  BY KindOfStep
<1>2. \A r \in DOMAIN requests : requests[r].quote \in DOMAIN quotes
  BY DEF BaseInv, TypeOK, ReferencesExist
<1>3. CASE NoSale
  BY <1>2, <1>3 DEF NoSale, PaymentInv, Funded
<1>4. ASSUME NEW length \in TrialLengths, ProvisionFreeTrial(length)
      PROVE  PaymentInv'
  <2>1. quotes = <<>> /\ requests = <<>> /\ DOMAIN <<>> = {}
    BY <1>4, EmptySeq DEF ProvisionFreeTrial, BaseInv, NothingBefore
  <2>2. /\ DOMAIN periods' = {1} /\ periods'[1].trial /\ periods'[1].payment = 0
        /\ quotes' = quotes /\ requests' = requests
    BY <1>4 DEF ProvisionFreeTrial
  <2> QED
    BY <2>1, <2>2 DEF PaymentInv
<1>5. CASE ProofReceived
  <2>1. PICK r \in DOMAIN requests' :
          /\ \A o \in DOMAIN requests' \ {r} :
               o \in DOMAIN requests /\ requests'[o] = requests[o]
          /\ r \in DOMAIN requests =>
               requests[r].status \notin {"approved", "rejected"}
          /\ requests'[r].status = "pending_verification"
    BY <1>5 DEF ProofReceived
  <2>2. /\ UNCHANGED periods
        /\ DOMAIN quotes' = DOMAIN quotes
        /\ \A q \in DOMAIN quotes :
             /\ quotes'[q].period = quotes[q].period
             /\ quotes'[q].status = "paid" <=> quotes[q].status = "paid"
        /\ DOMAIN requests \subseteq DOMAIN requests'
    BY <1>5 DEF ProofReceived
  <2> QED
    BY <1>2, <2>1, <2>2 DEF PaymentInv, Funded
<1>6. CASE PaymentRefused
  <2>1. PICK r \in DOMAIN requests :
          /\ requests[r].status = "pending_verification"
          /\ \A o \in DOMAIN requests \ {r} : requests'[o] = requests[o]
          /\ requests'[r].status \in {"rejected", "needs_clarification"}
    BY <1>6 DEF PaymentRefused, Decidable
  <2>2. UNCHANGED <<periods, quotes>> /\ DOMAIN requests' = DOMAIN requests
    BY <1>6 DEF PaymentRefused
  <2> QED
    BY <1>2, <2>1, <2>2 DEF PaymentInv, Funded
<1>7. ASSUME NEW r \in DOMAIN requests, NEW seen, NEW start, NEW q, NEW p,
             Approval(r, seen, start, q, p)
      PROVE  PaymentInv'
  <2>1. /\ requests[r].status = "pending_verification" /\ q = requests[r].quote
        /\ quotes[q].status = "accepted" /\ p \notin DOMAIN periods
        /\ DOMAIN requests' = DOMAIN requests
        /\ \A o \in DOMAIN requests \ {r} : requests'[o] = requests[o]
        /\ requests'[r].quote = q /\ requests'[r].period = p
        /\ requests'[r].status = "approved"
        /\ DOMAIN quotes' = DOMAIN quotes
        /\ \A o \in DOMAIN quotes \ {q} : quotes'[o] = quotes[o]
        /\ quotes'[q].status = "paid" /\ quotes'[q].period = p
        /\ DOMAIN periods' = DOMAIN periods \cup {p}
        /\ \A o \in DOMAIN periods : periods'[o] = periods[o]
        /\ ~periods'[p].trial /\ periods'[p].payment = r
    BY <1>7 DEF Approval, Decidable
  <2>2. \A o \in DOMAIN requests' :
          requests'[o].status = "approved" =>
            /\ requests'[o].period \in DOMAIN periods'
            /\ periods'[requests'[o].period].payment = o
            /\ quotes'[requests'[o].quote].status = "paid"
            /\ quotes'[requests'[o].quote].period = requests'[o].period
    <3> SUFFICES ASSUME NEW o \in DOMAIN requests, o # r,
                        requests[o].status = "approved"
                 PROVE  /\ requests[o].period \in DOMAIN periods'
                        /\ periods'[requests[o].period].payment = o
                        /\ quotes'[requests[o].quote].status = "paid"
                        /\ quotes'[requests[o].quote].period = requests[o].period
      BY <2>1
    <3>1. /\ requests[o].period \in DOMAIN periods
          /\ periods[requests[o].period].payment = o
          /\ quotes[requests[o].quote].status = "paid"
          /\ quotes[requests[o].quote].period = requests[o].period
      BY DEF PaymentInv
    <3>2. requests[o].quote \in DOMAIN quotes \ {q}
      BY <1>2, <2>1, <3>1
    <3> QED
      BY <2>1, <3>1, <3>2
  <2>3. \A o \in DOMAIN periods' :
          IF periods'[o].trial THEN periods'[o].payment = 0 ELSE Funded(o)'
    BY <2>1 DEF PaymentInv, Funded
  <2>4. \A o \in DOMAIN quotes' :
          quotes'[o].status = "paid" =>
            \E a \in DOMAIN requests' :
              requests'[a].quote = o /\ requests'[a].status = "approved"
    BY <2>1 DEF PaymentInv
  <2> QED
    BY <2>2, <2>3, <2>4 DEF PaymentInv
<1>8. ASSUME NEW p \in DOMAIN periods, Activated(p), ActivationMoves
      PROVE  PaymentInv'
  <2>1. /\ requests' = requests /\ DOMAIN periods' = DOMAIN periods
        /\ \A o \in DOMAIN periods : SamePeriod(periods'[o], periods[o])
        /\ DOMAIN quotes' = DOMAIN quotes
        /\ \A q \in DOMAIN quotes : SameQuote(quotes'[q], quotes[q])
    BY <1>8 DEF Activated, ActivationMoves, SamePeriod
  <2> QED
    BY <1>2, <2>1 DEF PaymentInv, Funded, SamePeriod, SameQuote
<1> QED
  BY <1>1, <1>3, <1>4, <1>5, <1>6, <1>7, <1>8 DEF StepKinds

(* Every approved payment bought one period, every period was bought once. *)
THEOREM PaymentsFundPeriods == SubscriptionSpec => []PaymentFundsOnePeriod
<1>1. SubscriptionInit => PaymentInv
  <2>1. DOMAIN <<>> = {}
    BY EmptySeq
  <2> QED
    BY <2>1 DEF SubscriptionInit, PaymentInv
<1>2. BaseInv /\ PaymentInv /\ [SubscriptionNext]_vars => PaymentInv'
  BY PaymentNext
<1>3. BaseInv /\ PaymentInv => PaymentFundsOnePeriod
  BY PaymentInvImplies
<1> QED
  BY <1>1, <1>2, <1>3, BaseAlways, PTL DEF SubscriptionSpec

------------------------------------------------------------------------------
(* Access *)

(* The runs of the jobs read their clock in the past. *)
ClocksInv ==
  activation.at <= now /\ enforcement.at <= now

AccessInv == ClocksInv /\ NotSuspendedEarly

(* A period that was started ends no later than access, and started no later *)
(* than the clock and the scan of the run that may start another.            *)
StartedInv ==
  /\ \A p \in DOMAIN periods :
       periods[p].status = "active" =>
         /\ sub.lifecycle = "active"
         /\ periods[p].end <= sub.deadline
         /\ periods[p].start <= now
         /\ activation # Idle => periods[p].start <= activation.at
  /\ sub.lifecycle = "active" => sub.access \in {"operational", "billing_suspended"}

LEMMA RunningIsOpen ==
  ASSUME BaseInv, AccessInv, StartedInv
  PROVE  RunningPeriodIsOpen
<1> SUFFICES ASSUME NEW p \in DOMAIN periods, now < periods[p].end,
                    periods[p].status = "active"
             PROVE  GateOpen
  BY DEF RunningPeriodIsOpen, CurrentAt
<1>1. /\ sub.lifecycle = "active" /\ periods[p].end <= sub.deadline
      /\ sub.access \in {"operational", "billing_suspended"}
  BY DEF StartedInv
<1>2. now \in Nat /\ periods[p].end \in Nat /\ sub.deadline \in Int
  BY Tables DEF BaseInv, TypeOK, Periods
<1>3. sub.access # "billing_suspended"
  BY <1>1, <1>2 DEF AccessInv, NotSuspendedEarly
<1> QED
  BY <1>1, <1>2, <1>3 DEF GateOpen

(* A step that lets access go on longer. *)
AccessExtended ==
  /\ UNCHANGED <<now, periods, activation, enforcement>>
  /\ sub'.lifecycle = sub.lifecycle
  /\ sub'.deadline > sub.deadline /\ sub'.deadline \in Int
  /\ sub'.access # "billing_suspended"
  /\ sub.access \in {"operational", "billing_suspended"}
       => sub'.access = "operational"

(* A step that changes neither access nor a period; the clock may go on, and *)
(* a job may start or end a run.                                             *)
AccessKept ==
  /\ UNCHANGED <<sub, periods>>
  /\ now' \in Nat /\ now' >= now
  /\ \/ activation' = activation
     \/ activation' = Idle
     \/ activation'.at = now /\ now' = now
  /\ \/ enforcement' = enforcement
     \/ enforcement' = NoCandidate
     \/ enforcement'.at = now /\ now' = now

AccessKinds ==
  \/ AccessKept
  \/ ProvisionInitialQuote
  \/ \E length \in TrialLengths : ProvisionFreeTrial(length)
  \/ \E r \in DOMAIN requests, seen \in Nat :
       \E start, q, p : Approval(r, seen, start, q, p)
  \/ ActivationMoves /\ activation # Idle /\ UNCHANGED <<sub, periods>>
  \/ /\ ActivationMoves /\ activation # Idle
     /\ \E p \in DOMAIN periods : Activated(p)
  \/ /\ EnforceExpiredAccess /\ RestrictionDue(enforcement.at)
     /\ sub' = [sub EXCEPT !.access = "billing_suspended",
                           !.cause = "subscription_expired"]
  \/ AccessExtended

LEMMA KindOfAccess ==
  ASSUME BaseInv, [SubscriptionNext]_vars
  PROVE  AccessKinds
<1> USE DEF AccessKinds
<1>1. now \in Nat /\ now + 1 >= now /\ now + 1 \in Nat /\ now >= now
  BY DEF BaseInv, TypeOK
<1>2. CASE ProvisionInitialQuote
           \/ \E length \in TrialLengths : ProvisionFreeTrial(length)
  BY <1>2
<1>3. CASE RenewalStep
  BY <1>1, <1>3 DEF RenewalStep, ReadRenewal, CreateRenewalQuote,
     RenewalNotCreated, AccessKept, jobVars
<1>4. CASE PaymentStep
  BY <1>1, <1>4 DEF PaymentStep, SubmitPayment, Resubmit, AccessKept, jobVars
<1>5. CASE ReviewStep
  <2>1. 1..MaxReviews \subseteq Nat
    OBVIOUS
  <2>2. ASSUME NEW r \in DOMAIN requests, NEW seen \in 1..MaxReviews,
               Approve(r, seen)
        PROVE  AccessKinds
    BY <2>1, <2>2, ApprovalIs
  <2>3. ASSUME NEW r \in DOMAIN requests, NEW seen \in 1..MaxReviews,
               NEW status \in {"rejected", "needs_clarification"},
               Refuse(r, seen, status)
        PROVE  AccessKinds
    BY <1>1, <2>3 DEF Refuse, AccessKept, jobVars
  <2> QED
    BY <1>5, <2>2, <2>3 DEF ReviewStep
<1>6. CASE StartActivation \/ ActivationAborts \/ StartEnforcement
           \/ EnforcementAborts \/ Tick
  <2>1. CASE StartActivation
    BY <1>1, <2>1 DEF StartActivation, AccessKept
  <2>2. CASE ActivationAborts
    BY <1>1, <2>2 DEF ActivationAborts, AccessKept
  <2>3. CASE StartEnforcement
    BY <1>1, <2>3 DEF StartEnforcement, AccessKept
  <2>4. CASE EnforcementAborts
    BY <1>1, <2>4 DEF EnforcementAborts, AccessKept
  <2>5. CASE Tick
    <3>1. /\ now' = now + 1
          /\ UNCHANGED <<sub, periods, activation, enforcement>>
      BY <2>5 DEF Tick, jobVars
    <3>2. AccessKept
      BY <1>1, <3>1 DEF AccessKept
    <3> QED
      BY <3>2
  <2> QED
    BY <1>6, <2>1, <2>2, <2>3, <2>4, <2>5
<1>7. CASE ActivateNext
  <2>1. activation # Idle
    BY <1>7 DEF ActivateNext, Idle
  <2> QED
    BY <1>7, <2>1, ActivationIs
<1>8. CASE EnforceExpiredAccess
  BY <1>1, <1>8 DEF EnforceExpiredAccess, AccessKept
<1>9. CASE GraceStep
  <2>1. ASSUME NEW g \in DOMAIN grace, ApproveGrace(g)
        PROVE  AccessExtended
    <3>1. UNCHANGED <<now, periods, activation, enforcement>>
      BY <2>1 DEF ApproveGrace, jobVars
    <3> QED
      BY <2>1, <3>1, GraceAccess DEF AccessExtended
  <2>2. ASSUME NEW days \in 1..GraceMax, GrantPlatformGrace(days)
        PROVE  AccessExtended
    <3>1. UNCHANGED <<now, periods, activation, enforcement>>
      BY <2>2 DEF GrantPlatformGrace, jobVars
    <3> QED
      BY <2>2, <3>1, PlatformGrace DEF AccessExtended
  <2> QED
    BY <1>1, <1>9, <2>1, <2>2 DEF GraceStep, RequestGrace, DenyGrace, AccessKept,
       jobVars
<1>10. CASE UNCHANGED vars
  BY <1>1, <1>10 DEF vars, AccessKept
<1> QED
  BY <1>2, <1>3, <1>4, <1>5, <1>6, <1>7, <1>8, <1>9, <1>10
     DEF SubscriptionNext, ActivationStep, EnforcementStep

LEMMA AccessNext ==
  ASSUME BaseInv, AccessInv, [SubscriptionNext]_vars
  PROVE  AccessInv'
<1>1. AccessKinds
  BY KindOfAccess
<1>2. /\ now \in Nat /\ activation.at \in Nat /\ enforcement.at \in Nat
      /\ sub.deadline \in Int /\ Idle.at = 0 /\ NoCandidate.at = 0
      /\ activation.at <= now /\ enforcement.at <= now
  BY DEF BaseInv, TypeOK, AccessInv, ClocksInv, Idle, NoCandidate
<1>3. CASE AccessKept
  <2>1. ClocksInv'
    BY <1>2, <1>3 DEF AccessKept, ClocksInv
  <2>2. NotSuspendedEarly'
    BY <1>2, <1>3 DEF AccessKept, AccessInv, NotSuspendedEarly
  <2> QED
    BY <2>1, <2>2 DEF AccessInv
<1>4. CASE ProvisionInitialQuote
  BY <1>2, <1>4 DEF ProvisionInitialQuote, jobVars, AccessInv, ClocksInv,
     NotSuspendedEarly
<1>5. ASSUME NEW length \in TrialLengths, ProvisionFreeTrial(length)
      PROVE  AccessInv'
  BY <1>2, <1>5 DEF ProvisionFreeTrial, jobVars, AccessInv, ClocksInv,
     NotSuspendedEarly
<1>6. ASSUME NEW r, NEW seen, NEW start, NEW q, NEW p,
             Approval(r, seen, start, q, p)
      PROVE  AccessInv'
  BY <1>2, <1>6 DEF Approval, AccessInv, ClocksInv, NotSuspendedEarly
<1>7. CASE ActivationMoves /\ activation # Idle /\ UNCHANGED <<sub, periods>>
  BY <1>2, <1>7 DEF ActivationMoves, AccessInv, ClocksInv, NotSuspendedEarly
<1>8. ASSUME NEW p \in DOMAIN periods, ActivationMoves, Activated(p)
      PROVE  AccessInv'
  <2>1. sub'.access = "operational"
    BY <1>8 DEF Activated, Restored
  <2> QED
    BY <1>2, <1>8, <2>1 DEF ActivationMoves, AccessInv, ClocksInv,
       NotSuspendedEarly
<1>9. CASE /\ EnforceExpiredAccess /\ RestrictionDue(enforcement.at)
           /\ sub' = [sub EXCEPT !.access = "billing_suspended",
                                 !.cause = "subscription_expired"]
  <2>1. sub'.deadline = sub.deadline /\ sub.deadline # NoDeadline
        /\ sub.deadline <= enforcement.at
    BY <1>9 DEF RestrictionDue, BaseInv, TypeOK
  <2>2. now' = now /\ activation' = activation /\ enforcement' = NoCandidate
    BY <1>9 DEF EnforceExpiredAccess
  <2> QED
    BY <1>2, <2>1, <2>2 DEF AccessInv, ClocksInv, NotSuspendedEarly
<1>10. CASE AccessExtended
  BY <1>2, <1>10 DEF AccessExtended, AccessInv, ClocksInv, NotSuspendedEarly
<1> QED
  BY <1>1, <1>3, <1>4, <1>5, <1>6, <1>7, <1>8, <1>9, <1>10 DEF AccessKinds

LEMMA StartedNext ==
  ASSUME BaseInv, AccessInv, StartedInv, PeriodsAreDisjoint,
         [SubscriptionNext]_vars
  PROVE  StartedInv'
<1>1. AccessKinds
  BY KindOfAccess
<1>2. /\ now \in Nat /\ activation.at \in Nat /\ activation.at <= now
      /\ sub.deadline \in Int /\ GraceAfter \in Nat
      /\ \A p \in DOMAIN periods : periods[p].start \in Nat /\ periods[p].end \in Nat
  BY Tables, SubscriptionAssumption DEF BaseInv, TypeOK, AccessInv, ClocksInv,
     Periods
<1>3. CASE AccessKept
  <2>1. activation' = activation \/ activation' = Idle \/ activation'.at = now
    BY <1>3 DEF AccessKept
  <2> QED
    BY <1>2, <1>3, <2>1 DEF AccessKept, StartedInv
<1>4. CASE ProvisionInitialQuote
  <2>1. sub.lifecycle # "active" /\ sub'.lifecycle = "onboarding"
        /\ periods' = periods
    BY <1>4 DEF ProvisionInitialQuote
  <2> QED
    BY <2>1 DEF StartedInv
<1>5. ASSUME NEW length \in TrialLengths, ProvisionFreeTrial(length)
      PROVE  StartedInv'
  <2>1. now + length \in Nat /\ activation = Idle
    BY <1>2, <1>5, SubscriptionAssumption DEF ProvisionFreeTrial, BaseInv,
       NothingBefore
  <2>2. /\ DOMAIN periods' = {1} /\ periods'[1].end = now + length
        /\ periods'[1].start = now /\ sub'.lifecycle = "active"
        /\ sub'.access = "operational" /\ sub'.deadline = now + length
        /\ now' = now /\ activation' = activation
    BY <1>5 DEF ProvisionFreeTrial, jobVars
  <2> QED
    BY <1>2, <2>1, <2>2 DEF StartedInv
<1>6. ASSUME NEW r, NEW seen, NEW start, NEW q, NEW p,
             Approval(r, seen, start, q, p)
      PROVE  StartedInv'
  <2>1. /\ UNCHANGED <<now, sub, activation>>
        /\ DOMAIN periods' = DOMAIN periods \cup {p}
        /\ periods'[p].status = "scheduled"
        /\ \A o \in DOMAIN periods : periods'[o] = periods[o]
    BY <1>6 DEF Approval
  <2> QED
    BY <2>1 DEF StartedInv
<1>7. CASE ActivationMoves /\ activation # Idle /\ UNCHANGED <<sub, periods>>
  <2>1. /\ activation' = Idle \/ activation'.at = activation.at
        /\ now' = now /\ sub' = sub /\ periods' = periods
    BY <1>7 DEF ActivationMoves
  <2> QED
    BY <1>2, <1>7, <2>1 DEF StartedInv
<1>8. ASSUME NEW p \in DOMAIN periods, ActivationMoves, activation # Idle,
             Activated(p)
      PROVE  StartedInv'
  <2>1. /\ sub'.lifecycle = "active" /\ sub'.access = "operational"
        /\ sub'.deadline = periods[p].end + GraceAfter
    BY <1>8 DEF Activated, Restored
  <2>2. periods[p].start <= activation.at /\ activation.at < periods[p].end
    BY <1>8 DEF Activated, Activatable, CurrentAt
  <2>3. now' = now /\ (activation' = Idle \/ activation'.at = activation.at)
    BY <1>8 DEF ActivationMoves
  <2>4. \A o \in DOMAIN periods \ {p} :
          periods[o].status = "active" =>
            /\ periods[o].start <= activation.at
            /\ periods[o].end <= periods[p].start
    <3> SUFFICES ASSUME NEW o \in DOMAIN periods \ {p},
                        periods[o].status = "active"
                 PROVE  /\ periods[o].start <= activation.at
                        /\ periods[o].end <= periods[p].start
      OBVIOUS
    <3>1. periods[o].start <= activation.at
      BY <1>8 DEF StartedInv
    <3>2. \/ periods[o].end <= periods[p].start
          \/ periods[p].end <= periods[o].start
      BY DEF PeriodsAreDisjoint
    <3> QED
      BY <1>2, <2>2, <3>1, <3>2
  <2>5. \A o \in DOMAIN periods :
          (o = p \/ periods[o].status = "active") =>
            /\ periods[o].start <= activation.at
            /\ periods[o].end <= sub'.deadline
    BY <1>2, <2>1, <2>2, <2>4
  <2>6. /\ DOMAIN periods' = DOMAIN periods
        /\ \A o \in DOMAIN periods :
             /\ periods'[o].start = periods[o].start
             /\ periods'[o].end = periods[o].end
             /\ o # p => periods'[o].status = periods[o].status
    BY <1>8 DEF Activated, SamePeriod
  <2> QED
    BY <1>2, <2>1, <2>3, <2>5, <2>6 DEF StartedInv
<1>9. CASE /\ EnforceExpiredAccess /\ RestrictionDue(enforcement.at)
           /\ sub' = [sub EXCEPT !.access = "billing_suspended",
                                 !.cause = "subscription_expired"]
  <2>1. /\ sub'.deadline = sub.deadline /\ sub'.lifecycle = sub.lifecycle
        /\ sub'.access = "billing_suspended"
    BY <1>9 DEF BaseInv, TypeOK
  <2>2. now' = now /\ activation' = activation /\ periods' = periods
    BY <1>9 DEF EnforceExpiredAccess
  <2> QED
    BY <2>1, <2>2 DEF StartedInv
<1>10. CASE AccessExtended
  BY <1>2, <1>10 DEF AccessExtended, StartedInv
<1> QED
  BY <1>1, <1>3, <1>4, <1>5, <1>6, <1>7, <1>8, <1>9, <1>10 DEF AccessKinds

LEMMA AccessInit == SubscriptionInit => AccessInv /\ StartedInv
<1>1. DOMAIN <<>> = {}
  BY EmptySeq
<1> QED
  BY <1>1 DEF SubscriptionInit, AccessInv, ClocksInv, NotSuspendedEarly,
     StartedInv, Idle, NoCandidate

(* Access is never suspended before its deadline. *)
THEOREM NeverSuspendedEarly == SubscriptionSpec => []NotSuspendedEarly
<1>1. BaseInv /\ AccessInv /\ [SubscriptionNext]_vars => AccessInv'
  BY AccessNext
<1>2. AccessInv => NotSuspendedEarly
  BY DEF AccessInv
<1> QED
  BY AccessInit, <1>1, <1>2, BaseAlways, PTL DEF SubscriptionSpec

(* While an activated period runs, the organization is let in. *)
THEOREM RunningPeriodsAreOpen == SubscriptionSpec => []RunningPeriodIsOpen
<1>1. BaseInv /\ AccessInv /\ [SubscriptionNext]_vars => AccessInv'
  BY AccessNext
<1>2. BaseInv /\ AccessInv /\ StartedInv /\ PeriodsAreDisjoint
        /\ [SubscriptionNext]_vars => StartedInv'
  BY StartedNext
<1>3. BaseInv /\ AccessInv /\ StartedInv => RunningPeriodIsOpen
  BY RunningIsOpen
<1> QED
  BY AccessInit, <1>1, <1>2, <1>3, BaseAlways, DisjointPeriods, PTL
     DEF SubscriptionSpec

==============================================================================
