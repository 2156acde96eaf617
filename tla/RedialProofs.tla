----------------------------- MODULE RedialProofs -----------------------------
(***************************************************************************)
(* Proofs about Redial for any finite set of schedulers, any policies and    *)
(* any bounds: how often one log is redialled, and how often the number is   *)
(* called.                                                                 *)
(***************************************************************************)
EXTENDS Redial, SumTheorems, FiniteSetTheorems, SequenceTheorems, TLAPS

------------------------------------------------------------------------------
(* Bags *)

(* How many copies of elements of S the bag holds.                          *)
Count(B, S) == SumFunctionOnSet(B, DOMAIN B \intersect S)

FiniteBag(B) == IsFiniteSet(DOMAIN B) /\ IsABag(B)

LEMMA CountType ==
  ASSUME NEW B, FiniteBag(B), NEW S
  PROVE  /\ Count(B, S) \in Nat
         /\ \A x \in DOMAIN B \intersect S : Count(B, S) >= 1
<1> DEFINE D == DOMAIN B \intersect S
<1>1. IsFiniteSet(D)
  BY FS_Subset DEF FiniteBag
<1>2. \A x \in DOMAIN B : B[x] \in Nat /\ B[x] > 0
  BY DEF FiniteBag, IsABag
<1>3. Count(B, S) \in Nat
  BY <1>1, <1>2, SumNat DEF Count
<1>4. ASSUME NEW x \in D PROVE Count(B, S) >= 1
  <2>1. Count(B, S) = B[x] + SumFunctionOnSet(B, D \ {x})
    BY <1>1, <1>2, SumTake DEF Count
  <2>2. IsFiniteSet(D \ {x})
    BY <1>1, FS_Subset
  <2>3. SumFunctionOnSet(B, D \ {x}) \in Nat
    BY <1>2, <2>2, SumNat
  <2> QED
    BY <1>2, <2>1, <2>3
<1> QED
  BY <1>3, <1>4

LEMMA OneMore ==
  ASSUME NEW B, FiniteBag(B), NEW x, NEW C, C = Plus(B, x)
  PROVE  /\ C = [y \in DOMAIN C |-> C[y]]
         /\ DOMAIN C = DOMAIN B \union {x}
         /\ \A y \in DOMAIN B \ {x} : C[y] = B[y]
         /\ x \in DOMAIN B => C[x] = B[x] + 1
         /\ x \notin DOMAIN B => C[x] = 1
<1>1. DOMAIN SetToBag({x}) = {x} /\ SetToBag({x})[x] = 1
  BY DEF SetToBag
<1>2. \A y \in DOMAIN B : B[y] \in Nat
  BY DEF FiniteBag, IsABag
<1> DEFINE U == SetToBag({x})
<1>3. C = [e \in DOMAIN B \union DOMAIN U |->
             (IF e \in DOMAIN B THEN B[e] ELSE 0) + (IF e \in DOMAIN U THEN U[e] ELSE 0)]
  BY DEF Plus, (+)
<1> HIDE DEF U
<1>4. DOMAIN U = {x} /\ U[x] = 1
  BY <1>1 DEF U
<1>5. \A e \in DOMAIN C :
        C[e] = (IF e \in DOMAIN B THEN B[e] ELSE 0) + (IF e \in DOMAIN U THEN U[e] ELSE 0)
  BY <1>3
<1>6. C = [y \in DOMAIN C |-> C[y]] /\ DOMAIN C = DOMAIN B \union {x}
  BY <1>3, <1>4
<1> QED
  BY <1>2, <1>4, <1>5, <1>6

LEMMA OneLess ==
  ASSUME NEW B, FiniteBag(B), NEW x \in DOMAIN B
  PROVE  Minus(B, x) = [y \in {z \in DOMAIN B : z # x \/ B[z] > 1} |->
                           IF y = x THEN B[y] - 1 ELSE B[y]]
<1>1. DOMAIN SetToBag({x}) = {x} /\ SetToBag({x})[x] = 1
  BY DEF SetToBag
<1>2. \A y \in DOMAIN B : B[y] \in Nat /\ B[y] > 0
  BY DEF FiniteBag, IsABag
<1> DEFINE F == [e \in DOMAIN B |-> IF e \in DOMAIN SetToBag({x}) THEN B[e] - SetToBag({x})[e] ELSE B[e]]
           D == {d \in DOMAIN F : F[d] > 0}
<1>3. Minus(B, x) = [e \in D |-> F[e]]
  BY DEF Minus, (-)
<1>4. D = {z \in DOMAIN B : z # x \/ B[z] > 1}
  BY <1>1, <1>2
<1>5. \A e \in D : F[e] = IF e = x THEN B[e] - 1 ELSE B[e]
  BY <1>1
<1> HIDE DEF F, D
<1> QED
  BY <1>3, <1>4, <1>5

(* One copy of x more. *)
LEMMA CountAdded ==
  ASSUME NEW B, FiniteBag(B), NEW x, NEW S
  PROVE  /\ FiniteBag(Plus(B, x)) /\ DOMAIN Plus(B, x) = DOMAIN B \union {x}
         /\ Count(Plus(B, x), S) = Count(B, S) + IF x \in S THEN 1 ELSE 0
<1> DEFINE C == Plus(B, x)
           D == DOMAIN B \intersect S
<1>0. /\ C = [y \in DOMAIN C |-> C[y]]
      /\ DOMAIN C = DOMAIN B \union {x}
      /\ \A y \in DOMAIN B \ {x} : C[y] = B[y]
      /\ x \in DOMAIN B => C[x] = B[x] + 1
      /\ x \notin DOMAIN B => C[x] = 1
  BY OneMore
<1> HIDE DEF C
<1>1. IsFiniteSet(DOMAIN B) /\ IsFiniteSet(D)
  BY FS_Subset DEF FiniteBag
<1>2. \A y \in DOMAIN B : B[y] \in Nat /\ B[y] > 0
  BY DEF FiniteBag, IsABag
<1>3. /\ DOMAIN C = DOMAIN B \union {x}
      /\ \A y \in DOMAIN B \ {x} : C[y] = B[y]
      /\ C[x] = IF x \in DOMAIN B THEN B[x] + 1 ELSE 1
  BY <1>0
<1>4. IsFiniteSet(DOMAIN C)
  BY <1>1, <1>3, FS_AddElement
<1>5. C \in [DOMAIN C -> {n \in Nat : n > 0}]
  <2>1. C = [y \in DOMAIN C |-> C[y]]
    BY <1>0
  <2>2. \A y \in DOMAIN C : C[y] \in {n \in Nat : n > 0}
    BY <1>2, <1>3
  <2> QED
    BY <2>1, <2>2
<1>6. FiniteBag(C)
  BY <1>4, <1>5 DEF FiniteBag, IsABag
<1>7. Count(C, S) = Count(B, S) + IF x \in S THEN 1 ELSE 0
  <2>1. CASE x \notin S
    <3>1. DOMAIN C \intersect S = D /\ \A y \in D : C[y] = B[y]
      BY <1>3, <2>1
    <3>2. SumFunctionOnSet(C, D) = SumFunctionOnSet(B, D)
      BY <1>1, <3>1, SumEqual
    <3>3. Count(B, S) \in Nat
      BY CountType
    <3>4. Count(C, S) = Count(B, S)
      BY <3>1, <3>2 DEF Count
    <3> QED
      BY <2>1, <3>3, <3>4
  <2>2. CASE x \in S /\ x \in DOMAIN B
    <3>1. DOMAIN C \intersect S = D /\ x \in D /\ \A y \in D \ {x} : C[y] = B[y]
      BY <1>3, <2>2
    <3>2. \A y \in D : B[y] \in Int
      BY <1>2
    <3>3. C[x] = B[x] + 1 /\ C[x] \in Int
      BY <1>2, <1>3, <2>2
    <3>4. SumFunctionOnSet(C, D) = SumFunctionOnSet(B, D) - B[x] + C[x]
      BY <1>1, <3>1, <3>2, <3>3, SumChanged
    <3>5. Count(B, S) \in Nat
      BY CountType
    <3> QED
      BY <1>2, <2>2, <3>1, <3>3, <3>4, <3>5 DEF Count
  <2>3. CASE x \in S /\ x \notin DOMAIN B
    <3>1. DOMAIN C \intersect S = D \union {x} /\ x \notin D /\ \A y \in D : C[y] = B[y]
      BY <1>3, <2>3
    <3>2. \A y \in D : B[y] \in Int
      BY <1>2
    <3>3. C[x] = 1
      BY <1>3, <2>3
    <3>4. SumFunctionOnSet(C, D \union {x}) = SumFunctionOnSet(B, D) + C[x]
      BY <1>1, <3>1, <3>2, <3>3, SumAdded
    <3>5. Count(B, S) \in Nat
      BY CountType
    <3> QED
      BY <2>3, <3>1, <3>3, <3>4, <3>5 DEF Count
  <2> QED
    BY <2>1, <2>2, <2>3
<1> QED
  BY <1>3, <1>6, <1>7 DEF C

LEMMA PlusDomain ==
  ASSUME NEW B, FiniteBag(B), NEW x
  PROVE  FiniteBag(Plus(B, x)) /\ DOMAIN Plus(B, x) = DOMAIN B \union {x}
<1>1. /\ FiniteBag(Plus(B, x)) /\ DOMAIN Plus(B, x) = DOMAIN B \union {x}
      /\ Count(Plus(B, x), {x}) = Count(B, {x}) + IF x \in {x} THEN 1 ELSE 0
  BY CountAdded
<1> QED
  BY <1>1

(* One copy of x less. *)
LEMMA CountRemoved ==
  ASSUME NEW B, FiniteBag(B), NEW x \in DOMAIN B, NEW S
  PROVE  /\ FiniteBag(Minus(B, x))
         /\ DOMAIN Minus(B, x) \subseteq DOMAIN B
         /\ DOMAIN B \ {x} \subseteq DOMAIN Minus(B, x)
         /\ Count(Minus(B, x), S) = Count(B, S) - IF x \in S THEN 1 ELSE 0
<1> DEFINE C == Minus(B, x)
<1>0. C = [y \in {z \in DOMAIN B : z # x \/ B[z] > 1} |-> IF y = x THEN B[y] - 1 ELSE B[y]]
  BY OneLess
<1> HIDE DEF C
<1>1. IsFiniteSet(DOMAIN B)
  BY DEF FiniteBag
<1>2. \A y \in DOMAIN B : B[y] \in Nat /\ B[y] > 0
  BY DEF FiniteBag, IsABag
<1>3. /\ DOMAIN C \subseteq DOMAIN B /\ DOMAIN B \ {x} \subseteq DOMAIN C
      /\ \A y \in DOMAIN B \ {x} : C[y] = B[y]
      /\ x \in DOMAIN C => C[x] = B[x] - 1 /\ B[x] # 1
      /\ x \notin DOMAIN C => B[x] = 1
  BY <1>0, <1>2
<1>4. C \in [DOMAIN C -> {n \in Nat : n > 0}]
  <2>1. C = [y \in DOMAIN C |-> C[y]]
    BY <1>0
  <2>2. \A y \in DOMAIN C : C[y] \in {n \in Nat : n > 0}
    BY <1>2, <1>3
  <2> QED
    BY <2>1, <2>2
<1>5. FiniteBag(C)
  BY <1>1, <1>3, <1>4, FS_Subset DEF FiniteBag, IsABag
<1>6. B = Plus(C, x)
  <2> DEFINE G == Plus(C, x)
  <2>1. B = [y \in DOMAIN B |-> B[y]]
    BY DEF FiniteBag, IsABag
  <2>2. /\ G = [y \in DOMAIN G |-> G[y]]
        /\ DOMAIN G = DOMAIN C \union {x}
        /\ \A y \in DOMAIN C \ {x} : G[y] = C[y]
        /\ x \in DOMAIN C => G[x] = C[x] + 1
        /\ x \notin DOMAIN C => G[x] = 1
    BY <1>5, OneMore
  <2> HIDE DEF G
  <2>3. DOMAIN G = DOMAIN B
    BY <1>3, <2>2
  <2>4. \A y \in DOMAIN B : B[y] = G[y]
    BY <1>2, <1>3, <2>2
  <2>5. G = [y \in DOMAIN G |-> G[y]]
    BY <2>2
  <2>6. B = G
    <3> DEFINE F == [y \in DOMAIN B |-> G[y]]
    <3>1. [y \in DOMAIN B |-> B[y]] = F
      BY <2>4
    <3>2. [y \in DOMAIN G |-> G[y]] = F
      BY <2>3
    <3> HIDE DEF F
    <3> QED
      BY <2>1, <2>5, <3>1, <3>2
  <2> QED
    BY <2>6 DEF G
<1>7. Count(B, S) = Count(C, S) + IF x \in S THEN 1 ELSE 0
  BY <1>5, <1>6, CountAdded
<1>8. Count(C, S) \in Nat
  BY <1>5, CountType
<1>9. Count(C, S) = Count(B, S) - IF x \in S THEN 1 ELSE 0
  BY <1>7, <1>8
<1> QED
  BY <1>3, <1>5, <1>9 DEF C

(* Only the elements of D are left. *)
LEMMA CountKept ==
  ASSUME NEW B, FiniteBag(B), NEW D \in SUBSET DOMAIN B, NEW S
  PROVE  /\ FiniteBag([x \in D |-> B[x]])
         /\ Count([x \in D |-> B[x]], S) <= Count(B, S)
<1> DEFINE C == [x \in D |-> B[x]]
           DB == DOMAIN B \intersect S
           DC == D \intersect S
           h == [x \in DB |-> IF x \in DC THEN B[x] ELSE 0]
<1>1. IsFiniteSet(DB) /\ IsFiniteSet(DC) /\ IsFiniteSet(D) /\ DC \subseteq DB
  BY FS_Subset DEF FiniteBag
<1>2. \A x \in DOMAIN B : B[x] \in Nat /\ B[x] > 0
  BY DEF FiniteBag, IsABag
<1>3. SumFunctionOnSet(h, DB) <= SumFunctionOnSet(B, DB)
  BY <1>1, <1>2, SumLess
<1>4. SumFunctionOnSet(h, DB) = SumFunctionOnSet(h, DC)
  BY <1>1, <1>2, SumSupport
<1>5. SumFunctionOnSet(h, DC) = SumFunctionOnSet(C, DC)
  BY <1>1, SumEqual
<1>6. FiniteBag(C)
  BY <1>1, <1>2 DEF FiniteBag, IsABag
<1> QED
  BY <1>3, <1>4, <1>5, <1>6 DEF Count

------------------------------------------------------------------------------
(* Types, and what they rest on: a retry that is still open has an attempt    *)
(* left, and neither the copies of a sweep nor the jobs fall behind the call  *)
(* their row was written for.                                              *)

LEMMA ChainType ==
  /\ LongestChain \in Nat \ {0}
  /\ MaxAttempts <= LongestChain
  /\ DefaultRetries + 1 <= LongestChain
  /\ PolicyRetries + 1 <= LongestChain
<1> DEFINE S == {MaxAttempts, DefaultRetries + 1, PolicyRetries + 1}
<1>1. S \subseteq Nat \ {0}
  BY RedialAssumption
<1>2. \E x \in S : \A y \in S : x >= y
  BY RedialAssumption
<1>3. LongestChain \in S /\ \A y \in S : LongestChain >= y
  BY <1>2 DEF LongestChain, Max
<1> QED
  BY <1>1, <1>3

RowOK(row) ==
  /\ row.called <= row.attempt
  /\ row.retry \in {"pending", "retrying"} => row.attempt < LongestChain

CopyOK(copy) ==
  /\ copy.row \in DOMAIN logs
  /\ logs[copy.row].called <= copy.attempt /\ copy.attempt < LongestChain

JobOK(j) == j.row \in DOMAIN logs /\ logs[j.row].called < j.attempt

LogsOK == logs \in Seq(Log) /\ \A r \in DOMAIN logs : RowOK(logs[r])
JobsOK == FiniteBag(jobs) /\ DOMAIN jobs \subseteq Job /\ \A j \in DOMAIN jobs : JobOK(j)
WorkOK ==
  /\ stage \in [Schedulers -> Stages]
  /\ work \in [Schedulers -> Seq([row: Nat, attempt: Nat])]
  /\ \A s \in Schedulers : stage[s] \in {"idle", "scan"} <=> work[s] = <<>>
  /\ \A s \in Schedulers : \A i \in DOMAIN work[s] : CopyOK(work[s][i])
NumbersOK == live \in [Attempts -> Nat] /\ dials \in 0..MaxDials /\ faults \in 0..MaxFaults

Sound == LogsOK /\ JobsOK /\ WorkOK /\ NumbersOK

LEMMA SoundTypes ==
  ASSUME Sound
  PROVE  RedialTypeOK
  BY DEF Sound, LogsOK, JobsOK, WorkOK, NumbersOK, RedialTypeOK, JobOK, FiniteBag

LEMMA LogsType ==
  ASSUME LogsOK
  PROVE  /\ Len(logs) \in Nat /\ DOMAIN logs = 1..Len(logs)
         /\ \A r \in DOMAIN logs : logs[r] \in Log
  BY DEF LogsOK

(* What depends on the rows of logs only by their number and called.        *)
KeepsRows ==
  /\ DOMAIN logs \subseteq DOMAIN logs'
  /\ \A r \in DOMAIN logs : logs'[r].called = logs[r].called

LEMMA SameLogs ==
  ASSUME LogsOK, logs' = logs
  PROVE  LogsOK' /\ KeepsRows
  BY DEF LogsOK, KeepsRows

LEMMA SameJobs ==
  ASSUME JobsOK, KeepsRows, jobs' = jobs
  PROVE  JobsOK'
  BY DEF JobsOK, KeepsRows, JobOK

LEMMA SameWork ==
  ASSUME WorkOK, KeepsRows, stage' = stage, work' = work
  PROVE  WorkOK'
<1>1. ASSUME NEW s \in Schedulers, NEW i \in DOMAIN work[s] PROVE CopyOK(work[s][i])'
  <2>1. CopyOK(work[s][i])
    BY DEF WorkOK
  <2> QED
    BY <2>1 DEF CopyOK, KeepsRows
<1> QED
  BY <1>1 DEF WorkOK

(* One row is patched. *)
LEMMA PatchRow ==
  ASSUME LogsOK, NEW r \in DOMAIN logs, NEW row \in Log, RowOK(row),
         row.called = logs[r].called, logs' = [logs EXCEPT ![r] = row]
  PROVE  /\ LogsOK' /\ KeepsRows /\ DOMAIN logs' = DOMAIN logs /\ Len(logs') = Len(logs)
         /\ logs'[r] = row /\ \A q \in DOMAIN logs \ {r} : logs'[q] = logs[q]
<1>1. r \in 1..Len(logs)
  BY LogsType
<1>2. logs' \in Seq(Log) /\ Len(logs') = Len(logs)
  BY <1>1, ExceptSeq DEF LogsOK
<1>3. DOMAIN logs' = DOMAIN logs
  BY DEF LogsOK
<1>4. logs'[r] = row /\ \A q \in DOMAIN logs \ {r} : logs'[q] = logs[q]
  BY DEF LogsOK
<1>5. LogsOK'
  BY <1>2, <1>3, <1>4 DEF LogsOK
<1> QED
  BY <1>2, <1>3, <1>4, <1>5 DEF KeepsRows

LEMMA SettledType ==
  ASSUME NEW row \in Log, RowOK(row), NEW retry \in {"superseded", "retried", "exhausted"}
  PROVE  /\ Settled(row, retry) \in Log /\ RowOK(Settled(row, retry))
         /\ Settled(row, retry).called = row.called
         /\ Settled(row, retry).placed = row.placed
         /\ Settled(row, retry).retry = retry
<1>1. Settled(row, retry) \in Log
  BY DEF Settled, Log
<1> QED
  BY <1>1 DEF Settled, Log, RowOK

------------------------------------------------------------------------------
(* The copies of a sweep *)

Resting == {"idle", "scan"}

LEMMA EmptyLen ==
  ASSUME NEW S, NEW q \in Seq(S)
  PROVE  q = <<>> <=> Len(q) = 0
  BY EmptySeq

LEMMA CurrentType ==
  ASSUME WorkOK, NEW s \in Schedulers, stage[s] \notin Resting
  PROVE  /\ Len(work[s]) \in Nat \ {0} /\ work[s] \in Seq([row: Nat, attempt: Nat])
         /\ Current(s) \in [row: Nat, attempt: Nat]
         /\ CopyOK(Current(s)) /\ Current(s).row \in DOMAIN logs
<1>1. work[s] \in Seq([row: Nat, attempt: Nat]) /\ work[s] # <<>>
  BY DEF WorkOK, Resting
<1>2. Len(work[s]) \in Nat \ {0}
  BY <1>1, EmptySeq
<1>3. 1 \in DOMAIN work[s]
  BY <1>1, <1>2, LenProperties
<1>4. Current(s) \in [row: Nat, attempt: Nat]
  <2>1. 1 \in 1..Len(work[s])
    BY <1>2
  <2> QED
    BY <1>1, <2>1, ElementOfSeq DEF Current
<1>5. CopyOK(Current(s))
  BY <1>3 DEF WorkOK, Current
<1> QED
  BY <1>1, <1>2, <1>4, <1>5 DEF CopyOK

LEMMA GoToOK ==
  ASSUME WorkOK, KeepsRows, NEW s \in Schedulers, NEW next \in Stages, GoTo(s, next),
         stage[s] \in Resting <=> next \in Resting
  PROVE  WorkOK'
<1>1. stage' = [stage EXCEPT ![s] = next] /\ work' = work
  BY DEF GoTo
<1>2. stage' \in [Schedulers -> Stages]
  BY <1>1 DEF WorkOK
<1>3. \A q \in Schedulers : stage'[q] \in Resting <=> work'[q] = <<>>
  BY <1>1 DEF WorkOK, Resting
<1>4. ASSUME NEW q \in Schedulers, NEW i \in DOMAIN work[q] PROVE CopyOK(work[q][i])'
  <2>1. CopyOK(work[q][i])
    BY DEF WorkOK
  <2> QED
    BY <1>1, <2>1 DEF CopyOK, KeepsRows
<1> QED
  BY <1>1, <1>2, <1>3, <1>4 DEF WorkOK, Resting

LEMMA NextRowOK ==
  ASSUME WorkOK, KeepsRows, NEW s \in Schedulers, stage[s] \notin Resting, NextRow(s)
  PROVE  WorkOK' /\ stage'[s] # "enqueue" /\ \A q \in Schedulers \ {s} : stage'[q] = stage[q]
<1> DEFINE w == work[s]
<1>1. w \in Seq([row: Nat, attempt: Nat]) /\ w # <<>> /\ Len(w) \in Nat \ {0}
  BY CurrentType, EmptySeq
<1>2. /\ Tail(w) \in Seq([row: Nat, attempt: Nat]) /\ Len(Tail(w)) = Len(w) - 1
      /\ \A i \in 1..Len(Tail(w)) : Tail(w)[i] = w[i + 1]
  BY <1>1, HeadTailProperties
<1>3. Tail(w) = <<>> <=> Len(w) = 1
  <2>1. Tail(w) = <<>> <=> Len(Tail(w)) = 0
    BY <1>2, EmptyLen
  <2> QED
    BY <1>1, <1>2, <2>1
<1>4. /\ work' = [work EXCEPT ![s] = Tail(w)]
      /\ stage' = [stage EXCEPT ![s] = IF Len(w) = 1 THEN "idle" ELSE "check"]
  BY DEF NextRow
<1> HIDE DEF w
<1>5. stage' \in [Schedulers -> Stages]
  BY <1>4 DEF WorkOK, Stages
<1>6. work' \in [Schedulers -> Seq([row: Nat, attempt: Nat])]
  BY <1>2, <1>4 DEF WorkOK
<1>7. ASSUME NEW q \in Schedulers PROVE stage'[q] \in Resting <=> work'[q] = <<>>
  BY <1>3, <1>4 DEF WorkOK, Resting
<1>8. ASSUME NEW q \in Schedulers, NEW i \in DOMAIN work'[q] PROVE CopyOK(work[q][i])'
  <2>1. \E k \in DOMAIN work[q] : work'[q][i] = work[q][k]
    <3>1. CASE q # s
      BY <1>4, <3>1 DEF WorkOK
    <3>2. CASE q = s
      <4>1. work'[s] = Tail(w) /\ i \in 1..Len(Tail(w))
        BY <1>2, <1>4, <3>2 DEF WorkOK
      <4>2. i + 1 \in 1..Len(w) /\ Tail(w)[i] = w[i + 1] /\ DOMAIN w = 1..Len(w)
        BY <1>1, <1>2, <4>1
      <4> QED
        BY <3>2, <4>1, <4>2 DEF w
    <3> QED
      BY <3>1, <3>2
  <2>2. \A k \in DOMAIN work[q] : CopyOK(work[q][k])
    BY DEF WorkOK
  <2> QED
    BY <2>1, <2>2 DEF CopyOK, KeepsRows
<1> QED
  BY <1>4, <1>5, <1>6, <1>7, <1>8 DEF WorkOK, Resting

LEMMA ScanOK ==
  ASSUME LogsOK, WorkOK, NEW s \in Schedulers, GetCallsDueForRetry(s)
  PROVE  WorkOK'
<1> DEFINE D == {r \in DOMAIN logs : Due(r)}
<1>1. PICK order \in SetToSeqs(D) :
        /\ work' = [work EXCEPT ![s] = [i \in DOMAIN order |->
                                         [row |-> order[i], attempt |-> logs[order[i]].attempt]]]
        /\ stage' = [stage EXCEPT ![s] = IF order = <<>> THEN "idle" ELSE "check"]
  BY DEF GetCallsDueForRetry
<1> DEFINE new == [i \in DOMAIN order |->
                     [row |-> order[i], attempt |-> logs[order[i]].attempt]]
<1>2. IsFiniteSet(D) /\ Cardinality(D) \in Nat
  <2>1. IsFiniteSet(DOMAIN logs)
    BY LogsType, FS_Interval
  <2> QED
    BY <2>1, FS_Subset, FS_CardinalityType
<1>3. order \in Seq(D) /\ DOMAIN order = 1..Len(order)
  <2>1. order \in [1..Cardinality(D) -> D]
    BY <1>1 DEF SetToSeqs
  <2> HIDE DEF D
  <2> QED
    BY <1>2, <2>1
<1>4. ASSUME NEW i \in DOMAIN order
      PROVE  /\ new[i] \in [row: Nat, attempt: Nat] /\ CopyOK(new[i])
  <2>1. order[i] \in D
    BY <1>3
  <2>2. order[i] \in DOMAIN logs /\ logs[order[i]].retry = "pending" /\ order[i] \in Nat
    BY <2>1, LogsType DEF Due
  <2>3. RowOK(logs[order[i]]) /\ logs[order[i]] \in Log
    BY <2>2, LogsType DEF LogsOK
  <2> QED
    BY <2>2, <2>3, ChainType DEF RowOK, CopyOK, Log, Attempts
<1>5. new \in Seq([row: Nat, attempt: Nat]) /\ DOMAIN new = DOMAIN order
  <2>1. Len(order) \in Nat
    BY <1>3
  <2>2. new \in [1..Len(order) -> [row: Nat, attempt: Nat]]
    BY <1>3, <1>4
  <2>3. DOMAIN new = DOMAIN order
    OBVIOUS
  <2> HIDE DEF new
  <2>4. new \in Seq([row: Nat, attempt: Nat])
    BY <2>1, <2>2, SeqDef
  <2> QED
    BY <2>3, <2>4
<1>6. new = <<>> <=> order = <<>>
  <2>1. DOMAIN new = DOMAIN order
    BY <1>5
  <2>2. \A q \in Seq([row: Nat, attempt: Nat]) : q = <<>> <=> DOMAIN q = {}
    BY EmptySeq, LenProperties
  <2>3. \A q \in Seq(D) : q = <<>> <=> DOMAIN q = {}
    BY EmptySeq, LenProperties
  <2> HIDE DEF new, D
  <2> QED
    BY <1>3, <1>5, <2>2, <2>3
<1> HIDE DEF new, D
<1>7. work' = [work EXCEPT ![s] = new]
  BY <1>1 DEF new
<1>8. stage' \in [Schedulers -> Stages] /\ work' \in [Schedulers -> Seq([row: Nat, attempt: Nat])]
  BY <1>1, <1>5, <1>7 DEF WorkOK, Stages
<1>9. \A q \in Schedulers : stage'[q] \in Resting <=> work'[q] = <<>>
  BY <1>1, <1>6, <1>7 DEF WorkOK, Resting
<1>10. ASSUME NEW q \in Schedulers, NEW i \in DOMAIN work'[q] PROVE CopyOK(work'[q][i])
  BY <1>4, <1>5, <1>7 DEF WorkOK
<1>11. logs' = logs
  BY DEF GetCallsDueForRetry
<1> QED
  BY <1>8, <1>9, <1>10, <1>11 DEF WorkOK, Resting, CopyOK

------------------------------------------------------------------------------
(* Every step keeps Sound *)

LEMMA FaultType ==
  ASSUME NumbersOK, Fault
  PROVE  faults' \in 0..MaxFaults /\ faults' = faults + 1
  BY RedialAssumption DEF NumbersOK, Fault

LEMMA SoundDial ==
  ASSUME Sound, Dial
  PROVE  Sound'
<1>1. LogsOK' /\ KeepsRows /\ JobsOK' /\ WorkOK'
  BY SameLogs, SameJobs, SameWork DEF Sound, Dial
<1>2. NumbersOK'
  BY RedialAssumption, ChainType DEF Sound, NumbersOK, Dial, Attempts
<1> QED
  BY <1>1, <1>2 DEF Sound

LEMMA LogOfType ==
  ASSUME NEW attempt \in Attempts, NEW outcome \in Outcomes
  PROVE  /\ LogOf(attempt, outcome) \in Log /\ RowOK(LogOf(attempt, outcome))
         /\ LogOf(attempt, outcome).called = attempt /\ LogOf(attempt, outcome).placed = 0
<1> DEFINE log == LogOf(attempt, outcome)
<1>1. outcome \in {"Callback Scheduled", "No Answer", "Answering Machine", "Completed"}
  BY RedialAssumption DEF ScheduleRank
<1>2. DOMAIN ScheduleRank = {"Callback Scheduled", "No Answer", "Answering Machine"}
  BY DEF ScheduleRank
<1>3. RetryFields(attempt, PolicyRetries) = "pending" => attempt < LongestChain
  BY RedialAssumption, ChainType DEF RetryFields, Attempts
<1>4. attempt < MaxAttempts => attempt < LongestChain
  BY RedialAssumption, ChainType DEF Attempts
<1>5. attempt \in Nat
  BY ChainType DEF Attempts
<1>6. RetryFields(attempt, PolicyRetries) \in {"exhausted", "pending"}
  BY DEF RetryFields
<1> DEFINE refused == outcome = "Callback Scheduled" /\ attempt >= MaxAttempts
           retry == CASE outcome = "Completed" -> "none"
                      [] refused -> "exhausted"
                      [] outcome = "Callback Scheduled" /\ ~refused -> "pending"
                      [] OTHER -> RetryFields(attempt, PolicyRetries)
<1>7. /\ retry \in {"none", "exhausted", "pending"}
      /\ retry = "pending" => attempt < LongestChain
  <2>1. CASE outcome = "Completed"
    <3>1. retry = "none"
      BY <2>1
    <3> QED
      BY <3>1
  <2>2. CASE outcome = "Callback Scheduled"
    <3>1. CASE attempt >= MaxAttempts
      <4>1. retry = "exhausted"
        <5>1. outcome # "Completed" /\ refused
          BY <2>2, <3>1
        <5> HIDE DEF refused
        <5> QED
          BY <5>1
      <4> QED
        BY <4>1
    <3>2. CASE ~(attempt >= MaxAttempts)
      <4>1. retry = "pending"
        BY <2>2, <3>2
      <4>2. attempt < LongestChain
        BY <1>4, <1>5, <3>2, RedialAssumption
      <4> QED
        BY <4>1, <4>2
    <3> QED
      BY <3>1, <3>2
  <2>3. CASE outcome \notin {"Completed", "Callback Scheduled"}
    <3>1. retry = RetryFields(attempt, PolicyRetries)
      BY <2>3
    <3> HIDE DEF retry
    <3> QED
      BY <1>3, <1>6, <3>1
  <2> QED
    BY <2>1, <2>2, <2>3
<1> HIDE DEF retry
<1>8. /\ log.retry = retry /\ log.attempt = attempt /\ log.called = attempt /\ log.placed = 0
      /\ log = [status |-> IF refused THEN "Completed" ELSE outcome,
                attempt |-> attempt, called |-> attempt, retry |-> retry,
                due |-> FALSE, lapsed |-> FALSE, placed |-> 0]
  BY DEF LogOf, retry
<1>9. log \in Log
  <2>1. (IF refused THEN "Completed" ELSE outcome) \in DOMAIN ScheduleRank \union {"Completed"}
    BY <1>1, <1>2
  <2> HIDE DEF refused, log
  <2> QED
    BY <1>7, <1>8, <2>1 DEF Log
<1> HIDE DEF log
<1>10. RowOK(log)
  <2>1. log.retry = retry /\ log.attempt = attempt /\ log.called = attempt
    BY <1>8
  <2> HIDE DEF refused
  <2> QED
    BY <1>5, <1>7, <2>1 DEF RowOK
<1> QED
  BY <1>8, <1>9, <1>10 DEF log

LEMMA FinishLogs ==
  ASSUME LogsOK, NEW attempt \in Attempts, NEW outcome \in Outcomes,
         FinishCall(attempt, outcome)
  PROVE  /\ LogsOK' /\ KeepsRows /\ Len(logs') = Len(logs) + 1
         /\ logs'[Len(logs) + 1] = LogOf(attempt, outcome)
         /\ \A r \in DOMAIN logs :
              logs'[r].placed = logs[r].placed /\ logs'[r].called = logs[r].called
<1> DEFINE log == LogOf(attempt, outcome)
           old == [r \in DOMAIN logs |->
                     IF Retires(log, logs[r]) THEN Settled(logs[r], "exhausted") ELSE logs[r]]
           n == Len(logs)
<1>1. n \in Nat /\ DOMAIN logs = 1..n
  BY LogsType
<1>2. log \in Log /\ RowOK(log)
  BY LogOfType
<1>3. \A r \in DOMAIN logs : /\ old[r] \in Log /\ RowOK(old[r])
                             /\ old[r].placed = logs[r].placed /\ old[r].called = logs[r].called
  BY LogsType, SettledType DEF LogsOK
<1>4. old \in [1..n -> Log]
  BY <1>1, <1>3
<1>5. logs' = Append(old, log)
  BY DEF FinishCall
<1> HIDE DEF old, log
<1>6. old \in Seq(Log) /\ Len(old) = n
  BY <1>1, <1>4
<1>7. /\ logs' \in Seq(Log) /\ Len(logs') = n + 1
      /\ logs'[n + 1] = log /\ \A r \in 1..n : logs'[r] = old[r]
  BY <1>1, <1>2, <1>5, <1>6
<1>8. DOMAIN logs' = 1..(n + 1)
  BY <1>7, LenProperties
<1>9. \A r \in DOMAIN logs' : RowOK(logs'[r])
  BY <1>1, <1>2, <1>3, <1>7, <1>8
<1>10. LogsOK'
  BY <1>7, <1>9 DEF LogsOK
<1>11. KeepsRows
  BY <1>1, <1>3, <1>7, <1>8 DEF KeepsRows
<1> QED
  BY <1>1, <1>3, <1>7, <1>10, <1>11 DEF log

LEMMA SoundFinish ==
  ASSUME Sound, NEW attempt \in Attempts, NEW outcome \in Outcomes,
         FinishCall(attempt, outcome)
  PROVE  Sound'
<1>1. LogsOK' /\ KeepsRows
  BY FinishLogs DEF Sound
<1>2. JobsOK' /\ WorkOK'
  BY <1>1, SameJobs, SameWork DEF Sound, FinishCall
<1>3. NumbersOK'
  BY DEF Sound, NumbersOK, FinishCall
<1> QED
  BY <1>1, <1>2, <1>3 DEF Sound

LEMMA RecoverLogs ==
  ASSUME LogsOK, NEW s \in Schedulers, RecoverStaleRetryClaims(s)
  PROVE  /\ LogsOK' /\ KeepsRows /\ Len(logs') = Len(logs) /\ DOMAIN logs' = DOMAIN logs
         /\ \A r \in DOMAIN logs :
              /\ logs'[r].placed = logs[r].placed /\ logs'[r].called = logs[r].called
              /\ logs'[r] = IF logs[r].retry = "retrying" /\ logs[r].lapsed
                            THEN [logs[r] EXCEPT !.retry = "pending", !.lapsed = FALSE]
                            ELSE logs[r]
<1>1. /\ logs' = [r \in DOMAIN logs |->
                IF logs[r].retry = "retrying" /\ logs[r].lapsed
                THEN [logs[r] EXCEPT !.retry = "pending", !.lapsed = FALSE] ELSE logs[r]]
  BY DEF RecoverStaleRetryClaims
<1>2. Len(logs) \in Nat /\ DOMAIN logs = 1..Len(logs)
  BY LogsType
<1>3. \A r \in DOMAIN logs :
        LET row == [logs[r] EXCEPT !.retry = "pending", !.lapsed = FALSE] IN
        /\ row \in Log /\ row.placed = logs[r].placed /\ row.called = logs[r].called
        /\ logs[r].retry = "retrying" => RowOK(row)
  BY LogsType DEF Log, LogsOK, RowOK
<1>4. \A r \in DOMAIN logs : /\ logs'[r] \in Log /\ RowOK(logs'[r])
                             /\ logs'[r].placed = logs[r].placed
                             /\ logs'[r].called = logs[r].called
  BY <1>1, <1>3, LogsType DEF LogsOK
<1>5. logs' \in [1..Len(logs) -> Log]
  BY <1>1, <1>2, <1>4
<1>6. logs' \in Seq(Log) /\ Len(logs') = Len(logs) /\ DOMAIN logs' = DOMAIN logs
  BY <1>2, <1>5
<1>7. LogsOK' /\ KeepsRows
  BY <1>4, <1>6 DEF LogsOK, KeepsRows
<1> QED
  BY <1>1, <1>4, <1>6, <1>7

LEMMA SoundSweep ==
  ASSUME Sound, NEW s \in Schedulers, SweepStep(s)
  PROVE  Sound'
<1> USE DEF Sound
<1>1. CASE RecoverStaleRetryClaims(s)
  <2>1. LogsOK' /\ KeepsRows
    BY <1>1, RecoverLogs
  <2>2. WorkOK'
    BY <1>1, <2>1, GoToOK DEF RecoverStaleRetryClaims, Stages, Resting
  <2> QED
    BY <1>1, <2>1, <2>2, SameJobs DEF RecoverStaleRetryClaims, NumbersOK
<1>2. CASE GetCallsDueForRetry(s)
  <2>1. LogsOK' /\ KeepsRows
    BY <1>2, SameLogs DEF GetCallsDueForRetry
  <2> QED
    BY <1>2, <2>1, ScanOK, SameJobs DEF GetCallsDueForRetry, NumbersOK
<1>3. CASE SweepFails(s)
  <2>1. LogsOK' /\ KeepsRows
    BY <1>3, SameLogs DEF SweepFails
  <2>2. WorkOK'
    BY <1>3, <2>1, GoToOK DEF SweepFails, Stages, Resting
  <2> QED
    BY <1>3, <2>1, <2>2, SameJobs, FaultType DEF SweepFails, NumbersOK
<1>4. CASE CheckNewer(s)
  <2>1. LogsOK' /\ KeepsRows
    BY <1>4, SameLogs DEF CheckNewer
  <2>2. WorkOK'
    BY <1>4, <2>1, GoToOK DEF CheckNewer, Stages, Resting
  <2> QED
    BY <1>4, <2>1, <2>2, SameJobs DEF CheckNewer, NumbersOK
<1>5. CASE ClaimCallForRetry(s)
  <2> DEFINE r == Current(s).row
             row == [logs[r] EXCEPT !.retry = "retrying", !.lapsed = FALSE]
  <2>0. r \in DOMAIN logs
    BY <1>5, CurrentType DEF ClaimCallForRetry, Resting
  <2>1. CASE CanClaim(r)
    <3>1. logs' = [logs EXCEPT ![r] = row] /\ GoTo(s, "enqueue")
      BY <1>5, <2>0, <2>1, LogsType DEF ClaimCallForRetry, Log
    <3>2. row \in Log /\ RowOK(row) /\ row.called = logs[r].called
      BY <2>0, <2>1, LogsType DEF Log, LogsOK, RowOK, CanClaim, Due
    <3> HIDE DEF r, row
    <3>3. LogsOK' /\ KeepsRows
      BY <2>0, <3>1, <3>2, PatchRow
    <3>4. WorkOK'
      BY <1>5, <3>1, <3>3, GoToOK DEF ClaimCallForRetry, Stages, Resting
    <3> QED
      BY <1>5, <3>3, <3>4, SameJobs DEF ClaimCallForRetry, NumbersOK
  <2>2. CASE ~CanClaim(r)
    <3>1. logs' = logs /\ GoTo(s, "lost")
      BY <1>5, <2>2 DEF ClaimCallForRetry
    <3>2. LogsOK' /\ KeepsRows
      BY <3>1, SameLogs
    <3>3. WorkOK'
      BY <1>5, <3>1, <3>2, GoToOK DEF ClaimCallForRetry, Stages, Resting
    <3> QED
      BY <1>5, <3>2, <3>3, SameJobs DEF ClaimCallForRetry, NumbersOK
  <2> QED
    BY <2>1, <2>2
<1>6. CASE Supersede(s) \/ Exhaust(s)
  <2> DEFINE r == Current(s).row
  <2>1. r \in DOMAIN logs
    BY <1>6, CurrentType DEF Supersede, Exhaust, Resting
  <2>2. PICK retry \in {"superseded", "exhausted"} :
          logs' = [logs EXCEPT ![r] = Settled(logs[r], retry)]
    BY <1>6, <2>1 DEF Supersede, Exhaust
  <2>3. logs[r] \in Log /\ RowOK(logs[r])
    BY <2>1, LogsType DEF LogsOK
  <2> HIDE DEF r
  <2>4. LogsOK' /\ KeepsRows
    BY <2>1, <2>2, <2>3, SettledType, PatchRow
  <2>5. WorkOK'
    BY <1>6, <2>4, NextRowOK DEF Supersede, Exhaust, Resting
  <2> QED
    BY <1>6, <2>4, <2>5, SameJobs DEF Supersede, Exhaust, NumbersOK
<1>7. CASE Enqueue(s)
  <2> DEFINE new == [row |-> Current(s).row, attempt |-> Current(s).attempt + 1,
                     by |-> s, step |-> "queued"]
  <2>1. LogsOK' /\ KeepsRows
    BY <1>7, SameLogs DEF Enqueue
  <2>2. WorkOK'
    BY <1>7, <2>1, NextRowOK DEF Enqueue, Resting
  <2>3. /\ Current(s) \in [row: Nat, attempt: Nat] /\ CopyOK(Current(s))
        /\ Current(s).row \in DOMAIN logs
    BY <1>7, CurrentType DEF Enqueue, Resting
  <2>4. new \in Job /\ JobOK(new)
    <3>1. logs[Current(s).row] \in Log
      BY <2>3, LogsType
    <3>2. logs[Current(s).row].called \in Attempts
      BY <3>1 DEF Log
    <3>3. Current(s).attempt + 1 \in Attempts
          /\ logs[Current(s).row].called < Current(s).attempt + 1
      BY <2>3, <3>2, ChainType DEF CopyOK, Attempts
    <3> QED
      BY <2>3, <3>3 DEF Job, JobOK
  <2>5. jobs' = Plus(jobs, new)
    BY <1>7 DEF Enqueue
  <2> HIDE DEF new
  <2>6. FiniteBag(jobs') /\ DOMAIN jobs' = DOMAIN jobs \union {new}
    BY <2>5, CountAdded DEF JobsOK
  <2>7. JobsOK'
    BY <1>7, <2>4, <2>6 DEF JobsOK, JobOK, Enqueue
  <2> QED
    BY <1>7, <2>1, <2>2, <2>7 DEF Enqueue, NumbersOK
<1>8. CASE RowFails(s)
  <2>1. LogsOK' /\ KeepsRows
    BY <1>8, SameLogs DEF RowFails
  <2>2. WorkOK'
    BY <1>8, <2>1, GoToOK DEF RowFails, Stages, Resting
  <2> QED
    BY <1>8, <2>1, <2>2, SameJobs, FaultType DEF RowFails, NumbersOK
<1>9. CASE PatchSwallowed(s)
  <2>1. LogsOK' /\ KeepsRows
    BY <1>9, SameLogs DEF PatchSwallowed
  <2>2. WorkOK'
    BY <1>9, <2>1, NextRowOK DEF PatchSwallowed, Resting
  <2> QED
    BY <1>9, <2>1, <2>2, SameJobs, FaultType DEF PatchSwallowed, NumbersOK
<1> QED
  BY <1>1, <1>2, <1>3, <1>4, <1>5, <1>6, <1>7, <1>8, <1>9 DEF SweepStep

LEMMA JobType ==
  ASSUME Sound, NEW j \in DOMAIN jobs
  PROVE  /\ j \in Job /\ j.row \in DOMAIN logs /\ j.attempt \in Attempts /\ j.attempt \in Nat
         /\ logs[j.row] \in Log /\ RowOK(logs[j.row]) /\ logs[j.row].called < j.attempt
<1>1. j \in Job /\ JobOK(j)
  BY DEF Sound, JobsOK
<1>2. j.row \in DOMAIN logs
  BY <1>1 DEF JobOK
<1> QED
  BY <1>1, <1>2, LogsType, ChainType DEF JobOK, Job, Sound, LogsOK, Attempts

LEMMA BecomesOK ==
  ASSUME Sound, KeepsRows, NEW j \in DOMAIN jobs, NEW step \in {"queued", "placed", "failed"},
         Becomes(j, step)
  PROVE  JobsOK'
<1> DEFINE k == [j EXCEPT !.step = step]
           less == Minus(jobs, j)
<1>1. k \in Job /\ k.row = j.row /\ k.attempt = j.attempt
  BY JobType DEF Job
<1>2. FiniteBag(less) /\ DOMAIN less \subseteq DOMAIN jobs
  BY CountRemoved DEF Sound, JobsOK
<1>3. jobs' = Plus(less, k)
  BY DEF Becomes
<1> HIDE DEF k, less
<1>4. FiniteBag(jobs') /\ DOMAIN jobs' = DOMAIN less \union {k}
  BY <1>2, <1>3, PlusDomain
<1>5. \A i \in DOMAIN jobs' : i \in Job /\ JobOK(i)
  BY <1>1, <1>2, <1>4 DEF Sound, JobsOK, JobOK
<1> QED
  BY <1>4, <1>5 DEF JobsOK, JobOK, KeepsRows

LEMMA DropsOK ==
  ASSUME Sound, KeepsRows, NEW j \in DOMAIN jobs, jobs' = Minus(jobs, j)
  PROVE  JobsOK'
<1>1. FiniteBag(jobs') /\ DOMAIN jobs' \subseteq DOMAIN jobs
  BY CountRemoved DEF Sound, JobsOK
<1>2. \A i \in DOMAIN jobs' : i \in Job /\ JobOK(i)
  BY <1>1 DEF Sound, JobsOK
<1> QED
  BY <1>1, <1>2 DEF JobsOK, JobOK, KeepsRows

LEMMA PlaceLogs ==
  ASSUME Sound, NEW j \in DOMAIN jobs, PlaceCall(j)
  PROVE  /\ LogsOK' /\ KeepsRows /\ DOMAIN logs' = DOMAIN logs /\ Len(logs') = Len(logs)
         /\ logs'[j.row] = [logs[j.row] EXCEPT !.placed = @ + 1]
         /\ \A q \in DOMAIN logs \ {j.row} : logs'[q] = logs[q]
         /\ live' = [live EXCEPT ![j.attempt] = @ + 1] /\ live' \in [Attempts -> Nat]
<1> DEFINE r == j.row
           row == [logs[r] EXCEPT !.placed = @ + 1]
<1>1. r \in DOMAIN logs /\ logs[r] \in Log /\ RowOK(logs[r])
  BY JobType
<1>2. row \in Log /\ RowOK(row) /\ row.called = logs[r].called
  BY <1>1 DEF Log, RowOK
<1>3. logs' = [logs EXCEPT ![r] = row]
  BY <1>1 DEF PlaceCall
<1>4. live' = [live EXCEPT ![j.attempt] = @ + 1] /\ live' \in [Attempts -> Nat]
  BY JobType DEF PlaceCall, Sound, NumbersOK
<1> HIDE DEF row, r
<1>5. LogsOK
  BY DEF Sound
<1>6. /\ LogsOK' /\ KeepsRows /\ DOMAIN logs' = DOMAIN logs /\ Len(logs') = Len(logs)
      /\ logs'[r] = row /\ \A q \in DOMAIN logs \ {r} : logs'[q] = logs[q]
  BY <1>1, <1>2, <1>3, <1>5, PatchRow
<1> QED
  BY <1>4, <1>6 DEF r, row

LEMMA RetriedLogs ==
  ASSUME Sound, NEW j \in DOMAIN jobs, MarkRetried(j)
  PROVE  /\ LogsOK' /\ KeepsRows /\ DOMAIN logs' = DOMAIN logs /\ Len(logs') = Len(logs)
         /\ logs'[j.row] = Settled(logs[j.row], "retried")
         /\ \A q \in DOMAIN logs \ {j.row} : logs'[q] = logs[q]
<1> DEFINE r == j.row
           row == Settled(logs[r], "retried")
<1>1. r \in DOMAIN logs /\ logs[r] \in Log /\ RowOK(logs[r])
  BY JobType
<1>2. row \in Log /\ RowOK(row) /\ row.called = logs[r].called
  BY <1>1, SettledType
<1>3. logs' = [logs EXCEPT ![r] = row]
  BY <1>1 DEF MarkRetried
<1> HIDE DEF row, r
<1>4. LogsOK
  BY DEF Sound
<1>5. /\ LogsOK' /\ KeepsRows /\ DOMAIN logs' = DOMAIN logs /\ Len(logs') = Len(logs)
      /\ logs'[r] = row /\ \A q \in DOMAIN logs \ {r} : logs'[q] = logs[q]
  BY <1>1, <1>2, <1>3, <1>4, PatchRow
<1> QED
  BY <1>5 DEF r, row

LEMMA FailedLogs ==
  ASSUME Sound, NEW j \in DOMAIN jobs, RecordFailure(j)
  PROVE  /\ LogsOK' /\ KeepsRows /\ DOMAIN logs' = DOMAIN logs /\ Len(logs') = Len(logs)
         /\ logs'[j.row].placed = logs[j.row].placed
         /\ \A q \in DOMAIN logs \ {j.row} : logs'[q] = logs[q]
<1> DEFINE r == j.row
           retry == RetryFields(j.attempt, DefaultRetries)
           row == [Settled(logs[r], retry) EXCEPT !.attempt = j.attempt]
<1>1. r \in DOMAIN logs /\ logs[r] \in Log /\ j.attempt \in Attempts /\ j.attempt \in Nat
      /\ logs[r].called < j.attempt
  BY JobType
<1>2. retry \in {"exhausted", "pending"} /\ (retry = "pending" => j.attempt < LongestChain)
  BY <1>1, ChainType, RedialAssumption DEF RetryFields
<1>3. logs' = [logs EXCEPT ![r] = row]
  BY <1>1 DEF RecordFailure
<1> HIDE DEF r, retry
<1>4. row \in Log /\ row.called = logs[r].called /\ row.placed = logs[r].placed
      /\ row.attempt = j.attempt /\ row.retry = retry
  BY <1>1, <1>2 DEF Log, Settled
<1> HIDE DEF row
<1>5. RowOK(row)
  <2>1. row.called < row.attempt /\ row.called \in Nat /\ row.attempt \in Nat
    BY <1>1, <1>4, ChainType DEF Log, Attempts
  <2> QED
    BY <1>2, <1>4, <2>1 DEF RowOK
<1>6. LogsOK
  BY DEF Sound
<1>7. /\ LogsOK' /\ KeepsRows /\ DOMAIN logs' = DOMAIN logs /\ Len(logs') = Len(logs)
      /\ logs'[r] = row /\ \A q \in DOMAIN logs \ {r} : logs'[q] = logs[q]
  BY <1>1, <1>3, <1>4, <1>5, <1>6, PatchRow
<1> QED
  BY <1>4, <1>7 DEF r

LEMMA SoundJob ==
  ASSUME Sound, NEW j \in DOMAIN jobs, JobStep(j)
  PROVE  Sound'
<1>1. CASE TriggerOutboundCall(j)
  <2>1. LogsOK' /\ KeepsRows /\ live' \in [Attempts -> Nat]
    BY <1>1, PlaceLogs DEF TriggerOutboundCall
  <2>2. JobsOK'
    BY <1>1, <2>1, BecomesOK DEF TriggerOutboundCall
  <2> QED
    BY <1>1, <2>1, <2>2, SameWork DEF TriggerOutboundCall, Sound, NumbersOK
<1>2. CASE PlacementRefused(j)
  <2>1. LogsOK' /\ KeepsRows
    BY <1>2, SameLogs DEF PlacementRefused, Sound
  <2>2. JobsOK'
    BY <1>2, <2>1, BecomesOK DEF PlacementRefused
  <2> QED
    BY <1>2, <2>1, <2>2, SameWork DEF PlacementRefused, Sound, NumbersOK
<1>3. CASE PlacementUnheard(j)
  <2>1. LogsOK' /\ KeepsRows /\ live' \in [Attempts -> Nat]
    BY <1>3, PlaceLogs DEF PlacementUnheard
  <2>2. JobsOK'
    BY <1>3, <2>1, BecomesOK DEF PlacementUnheard
  <2> QED
    BY <1>3, <2>1, <2>2, SameWork, FaultType DEF PlacementUnheard, Sound, NumbersOK
<1>4. CASE MarkRetried(j)
  <2>1. LogsOK' /\ KeepsRows
    BY <1>4, RetriedLogs
  <2>2. JobsOK'
    BY <1>4, <2>1, DropsOK DEF MarkRetried
  <2> QED
    BY <1>4, <2>1, <2>2, SameWork DEF MarkRetried, Sound, NumbersOK
<1>5. CASE MarkFails(j)
  <2>1. LogsOK' /\ KeepsRows
    BY <1>5, SameLogs DEF MarkFails, Sound
  <2>2. JobsOK'
    BY <1>5, <2>1, BecomesOK DEF MarkFails
  <2> QED
    BY <1>5, <2>1, <2>2, SameWork, FaultType DEF MarkFails, Sound, NumbersOK
<1>6. CASE RecordFailure(j)
  <2>1. LogsOK' /\ KeepsRows
    BY <1>6, FailedLogs
  <2>2. JobsOK'
    BY <1>6, <2>1, DropsOK DEF RecordFailure
  <2> QED
    BY <1>6, <2>1, <2>2, SameWork DEF RecordFailure, Sound, NumbersOK
<1>7. CASE RecordSwallowed(j)
  <2>1. LogsOK' /\ KeepsRows
    BY <1>7, SameLogs DEF RecordSwallowed, Sound
  <2>2. JobsOK'
    BY <1>7, <2>1, DropsOK DEF RecordSwallowed
  <2> QED
    BY <1>7, <2>1, <2>2, SameWork, FaultType DEF RecordSwallowed, Sound, NumbersOK
<1> QED
  BY <1>1, <1>2, <1>3, <1>4, <1>5, <1>6, <1>7 DEF JobStep

LEMMA SoundCrash ==
  ASSUME Sound, NEW s \in Schedulers, Crash(s)
  PROVE  Sound'
<1>1. LogsOK' /\ KeepsRows
  BY SameLogs DEF Crash, Sound
<1> DEFINE D == {k \in DOMAIN jobs : k.by # s}
<1>2. D \in SUBSET DOMAIN jobs /\ jobs' = [j \in D |-> jobs[j]]
  BY DEF Crash
<1> HIDE DEF D
<1>3. FiniteBag(jobs') /\ DOMAIN jobs' = D
  BY <1>2, CountKept DEF Sound, JobsOK
<1>4. JobsOK'
  BY <1>1, <1>2, <1>3 DEF Sound, JobsOK, JobOK, KeepsRows
<1>5. stage' = [stage EXCEPT ![s] = "idle"] /\ work' = [work EXCEPT ![s] = <<>>]
  BY DEF Crash
<1>6. stage' \in [Schedulers -> Stages]
  BY <1>5 DEF Sound, WorkOK, Stages
<1>7. work' \in [Schedulers -> Seq([row: Nat, attempt: Nat])]
  BY <1>5, EmptySeq DEF Sound, WorkOK
<1>8. \A q \in Schedulers : stage'[q] \in Resting <=> work'[q] = <<>>
  BY <1>5 DEF Sound, WorkOK, Resting
<1>9. ASSUME NEW q \in Schedulers, NEW i \in DOMAIN work'[q] PROVE CopyOK(work'[q][i])
  <2>1. q # s
    BY <1>5 DEF Sound, WorkOK
  <2> QED
    BY <1>5, <2>1 DEF Sound, WorkOK
<1>10. WorkOK'
  BY <1>1, <1>6, <1>7, <1>8, <1>9 DEF WorkOK, Resting, CopyOK, KeepsRows
<1>11. NumbersOK'
  BY FaultType DEF Crash, Sound, NumbersOK
<1> QED
  BY <1>1, <1>4, <1>10, <1>11 DEF Sound

(* Time changes due or lapsed of one row. *)
LEMMA TimeLogs ==
  ASSUME Sound, NEW r \in DOMAIN logs, Time(r)
  PROVE  /\ LogsOK' /\ KeepsRows /\ DOMAIN logs' = DOMAIN logs /\ Len(logs') = Len(logs)
         /\ logs'[r].placed = logs[r].placed /\ logs'[r].retry = logs[r].retry
         /\ RetryTimeComes(r) => logs'[r].lapsed = logs[r].lapsed
         /\ \A q \in DOMAIN logs \ {r} : logs'[q] = logs[q]
<1>1. logs[r] \in Log /\ RowOK(logs[r]) /\ LogsOK
  BY LogsType DEF Sound, LogsOK
<1>2. PICK row \in Log :
        /\ RowOK(row) /\ logs' = [logs EXCEPT ![r] = row] /\ row.called = logs[r].called
        /\ row.placed = logs[r].placed /\ row.retry = logs[r].retry
        /\ RetryTimeComes(r) => row.lapsed = logs[r].lapsed
  <2>1. CASE RetryTimeComes(r)
    <3> DEFINE row == [logs[r] EXCEPT !.due = TRUE]
    <3>1. row \in Log /\ RowOK(row) /\ row.called = logs[r].called /\ row.placed = logs[r].placed
          /\ row.retry = logs[r].retry /\ row.lapsed = logs[r].lapsed
      BY <1>1 DEF Log, RowOK
    <3>2. logs' = [logs EXCEPT ![r] = row]
      BY <2>1 DEF RetryTimeComes
    <3> QED
      BY <3>1, <3>2
  <2>2. CASE ClaimLapses(r)
    <3> DEFINE row == [logs[r] EXCEPT !.lapsed = TRUE]
    <3>1. row \in Log /\ RowOK(row) /\ row.called = logs[r].called /\ row.placed = logs[r].placed
          /\ row.retry = logs[r].retry
      BY <1>1 DEF Log, RowOK
    <3>2. logs' = [logs EXCEPT ![r] = row]
      BY <2>2 DEF ClaimLapses
    <3>3. ~RetryTimeComes(r)
      BY <2>2 DEF ClaimLapses, RetryTimeComes
    <3> QED
      BY <3>1, <3>2, <3>3
  <2> QED
    BY <2>1, <2>2 DEF Time
<1> QED
  BY <1>1, <1>2, PatchRow

LEMMA SoundTime ==
  ASSUME Sound, NEW r \in DOMAIN logs, Time(r)
  PROVE  Sound'
<1>1. LogsOK' /\ KeepsRows
  BY TimeLogs
<1>2. JobsOK' /\ WorkOK'
  BY <1>1, SameJobs, SameWork DEF Sound, Time, RetryTimeComes, ClaimLapses
<1>3. live' = live /\ dials' = dials /\ (faults' = faults \/ Fault)
  BY DEF Time, RetryTimeComes, ClaimLapses
<1>4. NumbersOK'
  BY <1>3, FaultType DEF Sound, NumbersOK
<1> QED
  BY <1>1, <1>2, <1>4 DEF Sound

LEMMA SoundInit ==
  ASSUME RedialInit
  PROVE  Sound
<1>1. LogsOK
  <2>1. logs \in Seq(Log) /\ DOMAIN logs = {}
    BY EmptySeq DEF RedialInit
  <2> QED
    BY <2>1 DEF LogsOK
<1>2. JobsOK
  <2>1. jobs = [e \in {} |-> 1] /\ DOMAIN jobs = {}
    BY DEF RedialInit, EmptyBag, SetToBag
  <2>2. FiniteBag(jobs)
    BY <2>1, FS_EmptySet DEF FiniteBag, IsABag
  <2> QED
    BY <2>1, <2>2 DEF JobsOK
<1>3. WorkOK
  BY EmptySeq DEF RedialInit, WorkOK, Stages
<1>4. NumbersOK
  BY RedialAssumption DEF RedialInit, NumbersOK
<1> QED
  BY <1>1, <1>2, <1>3, <1>4 DEF Sound

LEMMA SoundNext ==
  ASSUME Sound, [RedialNext]_vars
  PROVE  Sound'
<1>1. CASE RedialNext
  BY <1>1, SoundDial, SoundFinish, SoundSweep, SoundJob, SoundCrash, SoundTime DEF RedialNext
<1>2. CASE UNCHANGED vars
  <2>1. LogsOK' /\ KeepsRows
    BY <1>2, SameLogs DEF vars, Sound
  <2> QED
    BY <1>2, <2>1, SameJobs, SameWork DEF vars, Sound, NumbersOK
<1> QED
  BY <1>1, <1>2

(* Every variable keeps its type, a retry that is still open has an attempt   *)
(* left, and no job or copied row falls behind the call its row was written   *)
(* for.                                                                    *)
THEOREM RedialTypes == RedialSpec => [](RedialTypeOK /\ Sound)
<1>1. RedialInit => Sound
  BY SoundInit
<1>2. Sound /\ [RedialNext]_vars => Sound'
  BY SoundNext
<1>3. Sound => RedialTypeOK
  BY SoundTypes
<1> QED
  BY <1>1, <1>2, <1>3, PTL DEF RedialSpec

------------------------------------------------------------------------------
(* Permits *)

(* The jobs of a row that will place a call, and those that will record a     *)
(* failure and may make the row pending again.                              *)
Queued(r) == [row: {r}, attempt: Attempts, by: Schedulers, step: {"queued"}]
Failed(r) == [row: {r}, attempt: Attempts, by: Schedulers, step: {"failed"}]

(* The sweeps that have claimed the row and not enqueued it yet. *)
Claimers(r) == {s \in Schedulers : stage[s] = "enqueue" /\ Current(s).row = r}

(* The row can be claimed, or will be once its lease is over. *)
Claimable(r) ==
  \/ logs[r].retry = "pending"
  \/ logs[r].retry = "retrying" /\ (logs[r].lapsed \/ ~Held(r))

Hopes(r) == Count(jobs, Failed(r)) + IF Claimable(r) THEN 1 ELSE 0

(* How many more calls the row can lead to without another fault: every job   *)
(* and every claim counts, and what may still become a claim, unless there  *)
(* is a newer call.                                                        *)
Permits(r) ==
  Count(jobs, Queued(r)) + Cardinality(Claimers(r)) + IF Newer(r) THEN 0 ELSE Hopes(r)

LEMMA ClaimersType ==
  ASSUME NEW r
  PROVE  IsFiniteSet(Claimers(r)) /\ Cardinality(Claimers(r)) \in Nat
<1>1. Claimers(r) \in SUBSET Schedulers
  BY DEF Claimers
<1> QED
  BY <1>1, RedialAssumption, FS_Subset, FS_CardinalityType

PermitsAreNumbers ==
  \A r : /\ Count(jobs, Queued(r)) \in Nat /\ Count(jobs, Failed(r)) \in Nat
         /\ Cardinality(Claimers(r)) \in Nat /\ Hopes(r) \in Nat /\ Permits(r) \in Nat

LEMMA PermitsType == Sound => PermitsAreNumbers
<1> SUFFICES ASSUME Sound
             PROVE  PermitsAreNumbers
  OBVIOUS
<1>1. \A r : Count(jobs, Queued(r)) \in Nat /\ Count(jobs, Failed(r)) \in Nat
  BY CountType DEF Sound, JobsOK
<1>2. \A r : Cardinality(Claimers(r)) \in Nat
  BY ClaimersType
<1>3. \A r : Hopes(r) \in Nat
  BY <1>1 DEF Hopes
<1> QED
  BY <1>1, <1>2, <1>3 DEF Permits, PermitsAreNumbers

LEMMA PermitsTypeNext == Sound' => PermitsAreNumbers'
  BY PermitsType, PTL

(* The sweep of s moves, and neither claims nor leaves a claim. *)
LEMMA SameClaimers ==
  ASSUME NEW s \in Schedulers, stage[s] # "enqueue", stage'[s] # "enqueue",
         \A q \in Schedulers \ {s} : stage'[q] = stage[q] /\ work'[q] = work[q]
  PROVE  \A r : Claimers(r)' = Claimers(r)
BY DEF Claimers, Current

LEMMA SameHeld ==
  ASSUME NEW r, jobs' = jobs, Claimers(r)' = Claimers(r)
  PROVE  Held(r)' <=> Held(r)
<1>1. Held(r) <=> (\E j \in DOMAIN jobs : j.row = r) \/ Claimers(r) # {}
  BY DEF Held, Claimers
<1>2. Held(r)' <=> (\E j \in DOMAIN jobs' : j.row = r) \/ Claimers(r)' # {}
  BY DEF Held, Claimers
<1> QED
  BY <1>1, <1>2

(* Nothing is enqueued, claimed or failed, and no row becomes claimable. *)
LEMMA FewerPermits ==
  ASSUME Sound, Sound', NEW r \in DOMAIN logs, r \in DOMAIN logs',
         Len(logs') >= Len(logs),
         Count(jobs, Queued(r))' + Cardinality(Claimers(r))'
           <= Count(jobs, Queued(r)) + Cardinality(Claimers(r)),
         ~Newer(r)' => Hopes(r)' <= Hopes(r)
  PROVE  Permits(r)' <= Permits(r)
<1>1. Newer(r) => Newer(r)'
  BY DEF Newer, LogsOK, Sound
<1>2. /\ Count(jobs, Queued(r)) \in Nat /\ Cardinality(Claimers(r)) \in Nat /\ Hopes(r) \in Nat
      /\ Count(jobs, Queued(r))' \in Nat /\ Cardinality(Claimers(r))' \in Nat /\ Hopes(r)' \in Nat
  BY PermitsType, PermitsTypeNext DEF PermitsAreNumbers
<1> QED
  BY <1>1, <1>2 DEF Permits

LEMMA FewerHopes ==
  ASSUME Sound, Sound', NEW r, Count(jobs, Failed(r))' <= Count(jobs, Failed(r)),
         Claimable(r)' => Claimable(r)
  PROVE  Hopes(r)' <= Hopes(r)
BY PermitsType, PermitsTypeNext DEF PermitsAreNumbers, Hopes

------------------------------------------------------------------------------
(* What a step does to the permits *)

SameRows ==
  /\ DOMAIN logs' = DOMAIN logs /\ Len(logs') = Len(logs)
  /\ \A r \in DOMAIN logs : logs'[r].called = logs[r].called

(* No call is placed, and no row gets a permit. *)
Quiet ==
  /\ SameRows /\ live' = live /\ dials' = dials /\ faults' \in {faults, faults + 1}
  /\ \A r \in DOMAIN logs : logs'[r].placed = logs[r].placed /\ Permits(r)' <= Permits(r)

(* A fault, and one row gets a permit for it. *)
Extra(q) ==
  /\ SameRows /\ live' = live /\ dials' = dials /\ faults' = faults + 1
  /\ \A r \in DOMAIN logs :
       /\ logs'[r].placed = logs[r].placed
       /\ Permits(r)' <= Permits(r) + IF r = q THEN 1 ELSE 0

(* A call is placed: for a permit, or with a fault. *)
Calls(q, a) ==
  /\ SameRows /\ dials' = dials /\ live' = [live EXCEPT ![a] = @ + 1] /\ logs[q].called < a
  /\ \A r \in DOMAIN logs \ {q} : logs'[r].placed = logs[r].placed /\ Permits(r)' <= Permits(r)
  /\ logs'[q].placed = logs[q].placed + 1
  /\ \/ faults' = faults /\ Permits(q)' <= Permits(q) - 1
     \/ faults' = faults + 1 /\ Permits(q)' <= Permits(q)

(* A sweep moves without a claim: the row it patches, if any, is settled or   *)
(* was lapsed.                                                             *)
LEMMA SweepQuiet ==
  ASSUME Sound, Sound', NEW s \in Schedulers, stage[s] # "enqueue", stage'[s] # "enqueue",
         \A q \in Schedulers \ {s} : stage'[q] = stage[q] /\ work'[q] = work[q],
         SameRows, jobs' = jobs, live' = live, dials' = dials,
         faults' \in {faults, faults + 1},
         \A r \in DOMAIN logs :
           /\ logs'[r].placed = logs[r].placed
           /\ \/ logs'[r].retry = logs[r].retry /\ logs'[r].lapsed = logs[r].lapsed
              \/ logs'[r].retry \notin {"pending", "retrying"}
              \/ logs[r].retry = "retrying" /\ logs[r].lapsed
  PROVE  Quiet
<1>1. ASSUME NEW r \in DOMAIN logs PROVE Permits(r)' <= Permits(r)
  <2>1. Claimers(r)' = Claimers(r)
    BY SameClaimers
  <2>2. Held(r)' <=> Held(r)
    BY <2>1, SameHeld
  <2>3. Claimable(r)' => Claimable(r)
    BY <2>2 DEF Claimable
  <2>4. Count(jobs, Failed(r))' = Count(jobs, Failed(r))
        /\ Count(jobs, Queued(r))' = Count(jobs, Queued(r))
    BY DEF Failed, Queued
  <2>5. Hopes(r)' <= Hopes(r)
    BY <2>3, <2>4, FewerHopes, PermitsType DEF PermitsAreNumbers
  <2>6. Len(logs') >= Len(logs) /\ r \in DOMAIN logs'
    BY LogsType DEF SameRows, Sound
  <2>7. Count(jobs, Queued(r))' + Cardinality(Claimers(r))'
           <= Count(jobs, Queued(r)) + Cardinality(Claimers(r))
    BY <2>1, <2>4, PermitsType DEF PermitsAreNumbers
  <2> QED
    BY <2>5, <2>6, <2>7, FewerPermits
<1> QED
  BY <1>1 DEF Quiet

LEMMA SameRowsFrame ==
  ASSUME Sound, logs' = logs
  PROVE  SameRows
  BY DEF SameRows

(* A sweep takes the claim of r, or leaves it. *)
LEMMA ClaimersAround ==
  ASSUME NEW s \in Schedulers, NEW r, r = Current(s).row,
         \A q \in Schedulers \ {s} : stage'[q] = stage[q] /\ work'[q] = work[q]
  PROVE  /\ stage[s] # "enqueue" /\ stage'[s] = "enqueue" /\ work'[s] = work[s]
            => /\ Cardinality(Claimers(r))' = Cardinality(Claimers(r)) + 1
               /\ s \in Claimers(r)' /\ \A q : q # r => Claimers(q)' = Claimers(q)
         /\ stage[s] = "enqueue" /\ stage'[s] # "enqueue"
            => /\ Cardinality(Claimers(r))' = Cardinality(Claimers(r)) - 1
               /\ \A q : q # r => Claimers(q)' = Claimers(q)
<1>1. ASSUME stage[s] # "enqueue", stage'[s] = "enqueue", work'[s] = work[s]
      PROVE  /\ Cardinality(Claimers(r)') = Cardinality(Claimers(r)) + 1
             /\ s \in Claimers(r)'
             /\ \A q : q # r => Claimers(q)' = Claimers(q)
  <2>1. Claimers(r)' = Claimers(r) \union {s} /\ s \notin Claimers(r)
    BY <1>1 DEF Claimers, Current
  <2>2. \A q : q # r => Claimers(q)' = Claimers(q)
    BY <1>1 DEF Claimers, Current
  <2> QED
    BY <2>1, <2>2, ClaimersType, FS_AddElement
<1>2. ASSUME stage[s] = "enqueue", stage'[s] # "enqueue"
      PROVE  /\ Cardinality(Claimers(r)') = Cardinality(Claimers(r)) - 1
             /\ \A q : q # r => Claimers(q)' = Claimers(q)
  <2>1. Claimers(r)' = Claimers(r) \ {s} /\ s \in Claimers(r)
    BY <1>2 DEF Claimers, Current
  <2>2. \A q : q # r => Claimers(q)' = Claimers(q)
    BY <1>2 DEF Claimers, Current
  <2> QED
    BY <2>1, <2>2, ClaimersType, FS_RemoveElement
<1> QED
  BY <1>1, <1>2

LEMMA FrameGoTo ==
  ASSUME Sound, NEW s \in Schedulers, NEW next, GoTo(s, next)
  PROVE  /\ stage'[s] = next /\ work'[s] = work[s]
         /\ \A q \in Schedulers \ {s} : stage'[q] = stage[q] /\ work'[q] = work[q]
  BY DEF Sound, WorkOK, GoTo

LEMMA FrameNextRow ==
  ASSUME Sound, NEW s \in Schedulers, NextRow(s)
  PROVE  /\ stage'[s] # "enqueue"
         /\ \A q \in Schedulers \ {s} : stage'[q] = stage[q] /\ work'[q] = work[q]
  BY DEF Sound, WorkOK, NextRow

(* A claim uses up what made the row claimable. *)
LEMMA ClaimQuiet ==
  ASSUME Sound, Sound', NEW s \in Schedulers, ClaimCallForRetry(s), CanClaim(Current(s).row)
  PROVE  Quiet
<1>1. PICK r : r = Current(s).row
  OBVIOUS
<1>2. r \in DOMAIN logs
  BY <1>1, CurrentType DEF ClaimCallForRetry, Resting, Sound
<1>3. /\ logs' = [logs EXCEPT ![r].retry = "retrying", ![r].lapsed = FALSE]
      /\ GoTo(s, "enqueue") /\ ~Newer(r) /\ logs[r].retry = "pending" /\ stage[s] = "claim"
      /\ live' = live /\ jobs' = jobs /\ dials' = dials /\ faults' = faults
  BY <1>1 DEF ClaimCallForRetry, CanClaim, Due
<1>4. /\ Cardinality(Claimers(r))' = Cardinality(Claimers(r)) + 1
      /\ s \in Claimers(r)' /\ \A q : q # r => Claimers(q)' = Claimers(q)
  BY <1>1, <1>3, FrameGoTo, ClaimersAround
<1>5. /\ logs[r] \in Log /\ logs' = [logs EXCEPT ![r] = logs'[r]]
      /\ logs'[r] = [logs[r] EXCEPT !.retry = "retrying", !.lapsed = FALSE]
      /\ \A q \in DOMAIN logs \ {r} : logs'[q] = logs[q]
  BY <1>2, <1>3, LogsType DEF Sound, LogsOK, Log
<1>6. /\ logs'[r].placed = logs[r].placed /\ logs'[r].called = logs[r].called
      /\ logs'[r].retry = "retrying" /\ ~logs'[r].lapsed
  BY <1>5 DEF Log
<1>7. DOMAIN logs' = DOMAIN logs /\ Len(logs') = Len(logs)
  BY <1>5 DEF Sound, LogsOK
<1>8. SameRows
  BY <1>5, <1>6, <1>7 DEF SameRows
<1>9. \A q : /\ Count(jobs, Failed(q))' = Count(jobs, Failed(q))
             /\ Count(jobs, Queued(q))' = Count(jobs, Queued(q))
  BY <1>3 DEF Failed, Queued
<1>10. Permits(r)' <= Permits(r)
  <2>1. ~Claimable(r)' /\ Claimable(r)
    <3>1. Held(r)'
      BY <1>4 DEF Held, Claimers
    <3> QED
      BY <1>3, <1>6, <3>1 DEF Claimable
  <2>2. Hopes(r)' = Hopes(r) - 1
    BY <1>9, <2>1, PermitsType DEF Hopes, PermitsAreNumbers
  <2>3. ~Newer(r)'
    BY <1>3, <1>7 DEF Newer
  <2>4. Permits(r)' = Count(jobs, Queued(r))' + Cardinality(Claimers(r))' + Hopes(r)'
        /\ Permits(r) = Count(jobs, Queued(r)) + Cardinality(Claimers(r)) + Hopes(r)
    BY <1>3, <2>3 DEF Permits
  <2> QED
    BY <1>4, <1>9, <2>2, <2>4, PermitsType DEF PermitsAreNumbers
<1>11. ASSUME NEW q \in DOMAIN logs \ {r} PROVE Permits(q)' <= Permits(q)
  <2>1. Held(q)' <=> Held(q)
    BY <1>3, <1>4, SameHeld
  <2>2. Claimable(q)' => Claimable(q)
    BY <1>5, <2>1 DEF Claimable
  <2>3. Hopes(q)' <= Hopes(q)
    BY <1>9, <2>2, FewerHopes, PermitsType DEF PermitsAreNumbers
  <2>4. Count(jobs, Queued(q))' + Cardinality(Claimers(q))'
           <= Count(jobs, Queued(q)) + Cardinality(Claimers(q))
    BY <1>4, <1>9, PermitsType DEF PermitsAreNumbers
  <2>5. Len(logs') >= Len(logs) /\ q \in DOMAIN logs'
    BY <1>7, LogsType DEF Sound
  <2> QED
    BY <2>3, <2>4, <2>5, FewerPermits
<1> QED
  BY <1>3, <1>5, <1>6, <1>8, <1>10, <1>11 DEF Quiet

LEMMA EnqueueQuiet ==
  ASSUME Sound, Sound', NEW s \in Schedulers, Enqueue(s)
  PROVE  Quiet
<1>1. PICK r : r = Current(s).row
  OBVIOUS
<1>2. PICK new \in Job : /\ new.row = r /\ new.step = "queued"
                         /\ jobs' = Plus(jobs, new)
  <2> DEFINE new == [row |-> Current(s).row, attempt |-> Current(s).attempt + 1,
                     by |-> s, step |-> "queued"]
  <2>1. jobs' = Plus(jobs, new)
    BY DEF Enqueue
  <2>2. new.row = Current(s).row /\ new.step = "queued"
    OBVIOUS
  <2> HIDE DEF new
  <2>3. DOMAIN Plus(jobs, new) = DOMAIN jobs \union {new}
    BY PlusDomain DEF Sound, JobsOK
  <2>4. new \in Job
    BY <2>1, <2>3 DEF Sound, JobsOK
  <2> QED
    BY <1>1, <2>1, <2>2, <2>4
<1>3. logs' = logs /\ live' = live /\ dials' = dials /\ faults' = faults
      /\ stage[s] = "enqueue" /\ NextRow(s)
  BY DEF Enqueue
<1>4. SameRows /\ Len(logs') = Len(logs)
  BY <1>3 DEF SameRows
<1>5. \A q : Newer(q)' <=> Newer(q)
  BY <1>3 DEF Newer
<1>6. /\ Cardinality(Claimers(r))' = Cardinality(Claimers(r)) - 1
      /\ \A q : q # r => Claimers(q)' = Claimers(q)
  BY <1>1, <1>3, FrameNextRow, ClaimersAround
<1>7. DOMAIN jobs' = DOMAIN jobs \union {new}
  BY <1>2, CountAdded DEF Sound, JobsOK
<1>8. \A q : /\ Count(jobs', Queued(q)) = Count(jobs, Queued(q)) + IF q = r THEN 1 ELSE 0
             /\ Count(jobs', Failed(q)) = Count(jobs, Failed(q))
  <2>1. \A q : (new \in Queued(q) <=> q = r) /\ new \notin Failed(q)
    BY <1>2 DEF Job, Queued, Failed
  <2>2. \A q : /\ Count(jobs', Queued(q))
                    = Count(jobs, Queued(q)) + IF new \in Queued(q) THEN 1 ELSE 0
               /\ Count(jobs', Failed(q))
                    = Count(jobs, Failed(q)) + IF new \in Failed(q) THEN 1 ELSE 0
    BY <1>2, CountAdded DEF Sound, JobsOK
  <2>3. \A q : Count(jobs, Queued(q)) \in Nat /\ Count(jobs, Failed(q)) \in Nat
    BY PermitsType DEF PermitsAreNumbers
  <2> QED
    BY <2>1, <2>2, <2>3
<1>9. \A q : Failed(q)' = Failed(q) /\ Queued(q)' = Queued(q)
  BY DEF Failed, Queued
<1>10. ASSUME NEW q \in DOMAIN logs PROVE Permits(q)' <= Permits(q)
  <2>1. Held(q) => Held(q)'
    <3>1. CASE q = r
      BY <1>2, <1>7, <3>1 DEF Held
    <3>2. CASE q # r
      <4>1. Held(q) <=> (\E j \in DOMAIN jobs : j.row = q) \/ Claimers(q) # {}
        BY DEF Held, Claimers
      <4>2. Held(q)' <=> (\E j \in DOMAIN jobs' : j.row = q) \/ Claimers(q)' # {}
        BY DEF Held, Claimers
      <4> QED
        BY <1>6, <1>7, <3>2, <4>1, <4>2
    <3> QED
      BY <3>1, <3>2
  <2>2. Claimable(q)' => Claimable(q)
    BY <1>3, <2>1 DEF Claimable
  <2>3. Count(jobs, Failed(q))' <= Count(jobs, Failed(q))
    BY <1>8, <1>9, PermitsType DEF PermitsAreNumbers
  <2>4. Hopes(q)' <= Hopes(q)
    BY <2>2, <2>3, FewerHopes
  <2>5. Count(jobs, Queued(q))' + Cardinality(Claimers(q))'
           <= Count(jobs, Queued(q)) + Cardinality(Claimers(q))
    <3>1. Count(jobs, Queued(q))' = Count(jobs, Queued(q)) + IF q = r THEN 1 ELSE 0
      BY <1>8, <1>9
    <3>2. Cardinality(Claimers(q))' = Cardinality(Claimers(q)) - IF q = r THEN 1 ELSE 0
      BY <1>6, PermitsType DEF PermitsAreNumbers
    <3> QED
      BY <3>1, <3>2, PermitsType DEF PermitsAreNumbers
  <2>6. Len(logs') >= Len(logs) /\ q \in DOMAIN logs'
    BY <1>3, LogsType DEF Sound
  <2> QED
    BY <2>4, <2>5, <2>6, FewerPermits
<1> QED
  BY <1>3, <1>4, <1>10 DEF Quiet

(* A claim that is given up may leave its row claimable when it lapses. *)
LEMMA DropClaimQuiet ==
  ASSUME Sound, Sound', NEW s \in Schedulers, RowFails(s), stage[s] = "enqueue"
  PROVE  Quiet
<1>1. PICK r : r = Current(s).row
  OBVIOUS
<1>2. logs' = logs /\ live' = live /\ dials' = dials /\ faults' = faults + 1 /\ jobs' = jobs
      /\ GoTo(s, "exhaust")
  BY DEF RowFails, Fault
<1>3. SameRows /\ Len(logs') = Len(logs)
  BY <1>2 DEF SameRows
<1>4. \A q : Newer(q)' <=> Newer(q)
  BY <1>2 DEF Newer
<1>5. /\ Cardinality(Claimers(r))' = Cardinality(Claimers(r)) - 1
      /\ \A q : q # r => Claimers(q)' = Claimers(q)
  BY <1>1, <1>2, FrameGoTo, ClaimersAround
<1>6. \A q : /\ Count(jobs, Failed(q))' = Count(jobs, Failed(q))
             /\ Count(jobs, Queued(q))' = Count(jobs, Queued(q))
  BY <1>2 DEF Failed, Queued
<1>7. Permits(r)' <= Permits(r)
  <2>1. Hopes(r)' <= Hopes(r) + 1
    BY <1>6, PermitsType DEF Hopes, PermitsAreNumbers
  <2> QED
    BY <1>4, <1>5, <1>6, <2>1, PermitsType, PermitsTypeNext DEF Permits, PermitsAreNumbers
<1>8. ASSUME NEW q \in DOMAIN logs \ {r} PROVE Permits(q)' <= Permits(q)
  <2>1. Held(q)' <=> Held(q)
    BY <1>2, <1>5, SameHeld
  <2>2. Claimable(q)' => Claimable(q)
    BY <1>2, <2>1 DEF Claimable
  <2>3. Hopes(q)' <= Hopes(q)
    BY <1>6, <2>2, FewerHopes, PermitsType DEF PermitsAreNumbers
  <2>4. Count(jobs, Queued(q))' + Cardinality(Claimers(q))'
           <= Count(jobs, Queued(q)) + Cardinality(Claimers(q))
    BY <1>5, <1>6, PermitsType DEF PermitsAreNumbers
  <2>5. Len(logs') >= Len(logs) /\ q \in DOMAIN logs'
    BY <1>2, LogsType DEF Sound
  <2> QED
    BY <2>3, <2>4, <2>5, FewerPermits
<1> QED
  BY <1>2, <1>3, <1>7, <1>8 DEF Quiet

LEMMA SweepKind ==
  ASSUME Sound, Sound', NEW s \in Schedulers, SweepStep(s)
  PROVE  Quiet
<1>1. CASE RecoverStaleRetryClaims(s)
  <2>1. GoTo(s, "scan") /\ stage[s] = "idle" /\ jobs' = jobs /\ live' = live
        /\ dials' = dials /\ faults' = faults
    BY <1>1 DEF RecoverStaleRetryClaims
  <2>2. /\ SameRows
        /\ \A r \in DOMAIN logs :
           /\ logs'[r].placed = logs[r].placed
           /\ \/ logs'[r].retry = logs[r].retry /\ logs'[r].lapsed = logs[r].lapsed
              \/ logs[r].retry = "retrying" /\ logs[r].lapsed
    BY <1>1, RecoverLogs DEF Sound, SameRows
  <2> QED
    BY <2>1, <2>2, FrameGoTo, SweepQuiet
<1>2. CASE \/ GetCallsDueForRetry(s) \/ SweepFails(s) \/ CheckNewer(s)
           \/ ClaimCallForRetry(s) /\ ~CanClaim(Current(s).row)
           \/ RowFails(s) /\ stage[s] # "enqueue"
           \/ PatchSwallowed(s)
  <2>1. logs' = logs /\ jobs' = jobs /\ live' = live /\ dials' = dials
        /\ faults' \in {faults, faults + 1} /\ stage[s] # "enqueue"
    BY <1>2 DEF GetCallsDueForRetry, SweepFails, CheckNewer, ClaimCallForRetry, RowFails,
                PatchSwallowed, Fault
  <2>2. stage'[s] # "enqueue" /\ \A q \in Schedulers \ {s} : stage'[q] = stage[q] /\ work'[q] = work[q]
    <3>1. CASE GetCallsDueForRetry(s)
      BY <3>1 DEF GetCallsDueForRetry, Sound, WorkOK
    <3>2. CASE SweepFails(s)
      BY <3>2, FrameGoTo DEF SweepFails
    <3>3. CASE CheckNewer(s)
      BY <3>3, FrameGoTo DEF CheckNewer
    <3>4. CASE ClaimCallForRetry(s) /\ ~CanClaim(Current(s).row)
      BY <3>4, FrameGoTo DEF ClaimCallForRetry
    <3>5. CASE RowFails(s)
      BY <3>5, FrameGoTo DEF RowFails
    <3>6. CASE PatchSwallowed(s)
      BY <3>6, FrameNextRow DEF PatchSwallowed
    <3> QED
      BY <1>2, <3>1, <3>2, <3>3, <3>4, <3>5, <3>6
  <2>3. SameRows
    BY <2>1, SameRowsFrame
  <2> QED
    BY <2>1, <2>2, <2>3, SweepQuiet
<1>3. CASE Supersede(s) \/ Exhaust(s)
  <2> DEFINE r == Current(s).row
  <2>1. r \in DOMAIN logs /\ stage[s] # "enqueue"
    BY <1>3, CurrentType DEF Supersede, Exhaust, Resting, Sound
  <2>2. PICK retry \in {"superseded", "exhausted"} :
          logs' = [logs EXCEPT ![r] = Settled(logs[r], retry)]
    BY <1>3, <2>1 DEF Supersede, Exhaust
  <2>3. NextRow(s) /\ jobs' = jobs /\ live' = live /\ dials' = dials /\ faults' = faults
    BY <1>3 DEF Supersede, Exhaust
  <2>4. logs[r] \in Log /\ RowOK(logs[r]) /\ LogsOK
    BY <2>1, LogsType DEF LogsOK, Sound
  <2> HIDE DEF r
  <2>5. /\ Settled(logs[r], retry) \in Log /\ RowOK(Settled(logs[r], retry))
        /\ Settled(logs[r], retry).called = logs[r].called
        /\ Settled(logs[r], retry).placed = logs[r].placed
        /\ Settled(logs[r], retry).retry = retry
    BY <2>4, SettledType
  <2>6. /\ KeepsRows /\ DOMAIN logs' = DOMAIN logs /\ Len(logs') = Len(logs)
        /\ logs'[r] = Settled(logs[r], retry) /\ \A q \in DOMAIN logs \ {r} : logs'[q] = logs[q]
    BY <2>1, <2>2, <2>4, <2>5, PatchRow
  <2>7. SameRows
    BY <2>6 DEF SameRows, KeepsRows
  <2>8. \A q \in DOMAIN logs :
           /\ logs'[q].placed = logs[q].placed
           /\ \/ logs'[q].retry = logs[q].retry /\ logs'[q].lapsed = logs[q].lapsed
              \/ logs'[q].retry \notin {"pending", "retrying"}
    BY <2>5, <2>6
  <2> QED
    BY <2>1, <2>3, <2>7, <2>8, FrameNextRow, SweepQuiet
<1> QED
  BY <1>1, <1>2, <1>3, ClaimQuiet, EnqueueQuiet, DropClaimQuiet DEF SweepStep

LEMMA JobInRow ==
  ASSUME NEW j \in Job, NEW r
  PROVE  /\ j \in Queued(r) <=> j.row = r /\ j.step = "queued"
         /\ j \in Failed(r) <=> j.row = r /\ j.step = "failed"
  BY DEF Job, Queued, Failed

(* A job goes on to its next step. *)
LEMMA BecomesCounts ==
  ASSUME Sound, NEW j \in DOMAIN jobs, NEW step \in {"placed", "failed"}, Becomes(j, step),
         stage' = stage, work' = work
  PROVE  \A r :
           /\ Count(jobs, Queued(r))'
                = Count(jobs, Queued(r)) - IF r = j.row /\ j.step = "queued" THEN 1 ELSE 0
           /\ Count(jobs, Failed(r))'
                = Count(jobs, Failed(r)) - (IF r = j.row /\ j.step = "failed" THEN 1 ELSE 0)
                                         + (IF r = j.row /\ step = "failed" THEN 1 ELSE 0)
           /\ Claimers(r)' = Claimers(r)
           /\ Held(r)' <=> Held(r)
<1> DEFINE k == [j EXCEPT !.step = step]
           less == Minus(jobs, j)
<1>1. j \in Job /\ k \in Job /\ k.row = j.row /\ k.step = step
  BY JobType DEF Job
<1>2. jobs' = Plus(less, k)
  BY DEF Becomes
<1> HIDE DEF k
<1>3. /\ FiniteBag(less) /\ DOMAIN less \subseteq DOMAIN jobs /\ DOMAIN jobs \ {j} \subseteq DOMAIN less
      /\ \A S : Count(less, S) = Count(jobs, S) - IF j \in S THEN 1 ELSE 0
  BY CountRemoved DEF Sound, JobsOK
<1> HIDE DEF less
<1>4. /\ DOMAIN jobs' = DOMAIN less \union {k}
      /\ \A S : Count(jobs', S) = Count(less, S) + IF k \in S THEN 1 ELSE 0
  <2>1. DOMAIN Plus(less, k) = DOMAIN less \union {k}
    BY <1>3, PlusDomain
  <2>2. ASSUME NEW S
        PROVE  Count(Plus(less, k), S) = Count(less, S) + IF k \in S THEN 1 ELSE 0
    <3>1. FiniteBag(less)
      BY <1>3
    <3> QED
      BY <3>1, CountAdded
  <2> QED
    BY <1>2, <2>1, <2>2
<1>5. \A r : Queued(r)' = Queued(r) /\ Failed(r)' = Failed(r)
  BY DEF Queued, Failed
<1> TAKE r
<1>6. Count(jobs, Queued(r)) \in Nat /\ Count(jobs, Failed(r)) \in Nat
  BY PermitsType DEF PermitsAreNumbers
<1>7. Count(jobs', Queued(r))
        = Count(jobs, Queued(r)) - IF r = j.row /\ j.step = "queued" THEN 1 ELSE 0
  <2>1. Count(less, Queued(r))
          = Count(jobs, Queued(r)) - IF r = j.row /\ j.step = "queued" THEN 1 ELSE 0
    BY <1>1, <1>3, JobInRow
  <2>2. k \notin Queued(r)
    BY <1>1, JobInRow
  <2>3. Count(jobs', Queued(r)) = Count(less, Queued(r)) + 0
    BY <1>4, <2>2
  <2> QED
    BY <1>6, <2>1, <2>3
<1>8. Count(jobs', Failed(r))
        = Count(jobs, Failed(r)) - (IF r = j.row /\ j.step = "failed" THEN 1 ELSE 0)
                                 + (IF r = j.row /\ step = "failed" THEN 1 ELSE 0)
  <2>1. Count(less, Failed(r))
          = Count(jobs, Failed(r)) - IF r = j.row /\ j.step = "failed" THEN 1 ELSE 0
    BY <1>1, <1>3, JobInRow
  <2>2. k \in Failed(r) <=> r = j.row /\ step = "failed"
    BY <1>1, JobInRow
  <2>3. Count(jobs', Failed(r)) = Count(less, Failed(r)) + IF k \in Failed(r) THEN 1 ELSE 0
    BY <1>4
  <2> QED
    BY <1>6, <2>1, <2>2, <2>3
<1>9. Claimers(r)' = Claimers(r)
  BY DEF Claimers, Current
<1>10. Held(r)' <=> Held(r)
  <2>1. (\E i \in DOMAIN jobs' : i.row = r) <=> (\E i \in DOMAIN jobs : i.row = r)
    BY <1>1, <1>3, <1>4
  <2> QED
    BY <2>1 DEF Held, Current
<1> QED
  BY <1>5, <1>7, <1>8, <1>9, <1>10

(* A job is done. *)
LEMMA DropsCounts ==
  ASSUME Sound, NEW j \in DOMAIN jobs, jobs' = Minus(jobs, j), j.step # "queued",
         stage' = stage, work' = work
  PROVE  \A r :
           /\ Count(jobs, Queued(r))' = Count(jobs, Queued(r))
           /\ Count(jobs, Failed(r))'
                = Count(jobs, Failed(r)) - IF r = j.row /\ j.step = "failed" THEN 1 ELSE 0
           /\ Claimers(r)' = Claimers(r)
           /\ r # j.row => (Held(r)' <=> Held(r))
<1>1. j \in Job
  BY JobType
<1>3. /\ DOMAIN jobs' \subseteq DOMAIN jobs /\ DOMAIN jobs \ {j} \subseteq DOMAIN jobs'
      /\ \A S : Count(jobs', S) = Count(jobs, S) - IF j \in S THEN 1 ELSE 0
  BY CountRemoved DEF Sound, JobsOK
<1>5. \A r : Queued(r)' = Queued(r) /\ Failed(r)' = Failed(r)
  BY DEF Queued, Failed
<1> TAKE r
<1>6. Count(jobs, Queued(r)) \in Nat /\ Count(jobs, Failed(r)) \in Nat
  BY PermitsType DEF PermitsAreNumbers
<1>7. Count(jobs', Queued(r)) = Count(jobs, Queued(r))
  <2>1. j \notin Queued(r)
    BY <1>1, JobInRow
  <2>2. Count(jobs', Queued(r)) = Count(jobs, Queued(r)) - 0
    BY <1>3, <2>1
  <2> QED
    BY <1>6, <2>2
<1>8. Count(jobs', Failed(r))
        = Count(jobs, Failed(r)) - IF r = j.row /\ j.step = "failed" THEN 1 ELSE 0
  BY <1>1, <1>3, JobInRow
<1>9. Claimers(r)' = Claimers(r)
  BY DEF Claimers, Current
<1>10. r # j.row => (Held(r)' <=> Held(r))
  <2>1. r # j.row => ((\E i \in DOMAIN jobs' : i.row = r) <=> (\E i \in DOMAIN jobs : i.row = r))
    BY <1>1, <1>3
  <2> QED
    BY <2>1 DEF Held, Current
<1> QED
  BY <1>5, <1>7, <1>8, <1>9, <1>10

(* The permits of a row that a job step leaves alone. *)
LEMMA OtherPermits ==
  ASSUME Sound, Sound', SameRows, NEW r \in DOMAIN logs,
         logs'[r].retry = logs[r].retry, logs'[r].lapsed = logs[r].lapsed,
         Count(jobs, Queued(r))' = Count(jobs, Queued(r)),
         Count(jobs, Failed(r))' = Count(jobs, Failed(r)),
         Claimers(r)' = Claimers(r), Held(r)' <=> Held(r)
  PROVE  Permits(r)' <= Permits(r)
<1>1. Hopes(r)' <= Hopes(r)
  BY FewerHopes, PermitsType DEF Claimable, PermitsAreNumbers
<1>2. Len(logs') >= Len(logs) /\ r \in DOMAIN logs'
  BY LogsType DEF SameRows, Sound
<1>3. Count(jobs, Queued(r))' + Cardinality(Claimers(r))'
           <= Count(jobs, Queued(r)) + Cardinality(Claimers(r))
  BY PermitsType DEF PermitsAreNumbers
<1> QED
  BY <1>1, <1>2, <1>3, FewerPermits

LEMMA PlaceKind ==
  ASSUME Sound, Sound', NEW j \in DOMAIN jobs,
         TriggerOutboundCall(j) \/ PlacementUnheard(j)
  PROVE  Calls(j.row, j.attempt)
<1> DEFINE r == j.row
<1>1. j.step = "queued" /\ PlaceCall(j) /\ stage' = stage /\ work' = work /\ dials' = dials
  BY DEF TriggerOutboundCall, PlacementUnheard
<1>2. r \in DOMAIN logs /\ logs[r] \in Log /\ logs[r].called < j.attempt
  BY JobType
<1>3. /\ LogsOK' /\ KeepsRows /\ DOMAIN logs' = DOMAIN logs /\ Len(logs') = Len(logs)
      /\ logs'[r] = [logs[r] EXCEPT !.placed = @ + 1]
      /\ \A q \in DOMAIN logs \ {r} : logs'[q] = logs[q]
      /\ live' = [live EXCEPT ![j.attempt] = @ + 1]
  BY <1>1, PlaceLogs
<1>4. SameRows
  BY <1>3 DEF SameRows, KeepsRows
<1>5. /\ logs'[r].placed = logs[r].placed + 1 /\ logs'[r].retry = logs[r].retry
      /\ logs'[r].lapsed = logs[r].lapsed
  BY <1>2, <1>3 DEF Log
<1>6. PICK step \in {"placed", "failed"} :
        /\ Becomes(j, step)
        /\ faults' = IF step = "failed" THEN faults + 1 ELSE faults
  BY DEF TriggerOutboundCall, PlacementUnheard, Fault
<1> HIDE DEF r
<1>7. \A q : /\ Count(jobs, Queued(q))' = Count(jobs, Queued(q)) - IF q = r THEN 1 ELSE 0
             /\ Count(jobs, Failed(q))' = Count(jobs, Failed(q))
                                          + IF q = r /\ step = "failed" THEN 1 ELSE 0
             /\ Claimers(q)' = Claimers(q) /\ (Held(q)' <=> Held(q))
  <2>1. \A q :
           /\ Count(jobs, Queued(q))'
                = Count(jobs, Queued(q)) - IF q = r /\ j.step = "queued" THEN 1 ELSE 0
           /\ Count(jobs, Failed(q))'
                = Count(jobs, Failed(q)) - (IF q = r /\ j.step = "failed" THEN 1 ELSE 0)
                                         + (IF q = r /\ step = "failed" THEN 1 ELSE 0)
           /\ Claimers(q)' = Claimers(q) /\ (Held(q)' <=> Held(q))
    BY <1>1, <1>6, BecomesCounts DEF r
  <2>2. \A q : Count(jobs, Failed(q)) \in Nat
    BY PermitsType DEF PermitsAreNumbers
  <2> QED
    BY <1>1, <2>1, <2>2
<1>8. ASSUME NEW q \in DOMAIN logs \ {r} PROVE Permits(q)' <= Permits(q)
  <2>1. Count(jobs, Queued(q))' = Count(jobs, Queued(q))
        /\ Count(jobs, Failed(q))' = Count(jobs, Failed(q))
    BY <1>7, PermitsType DEF PermitsAreNumbers
  <2> QED
    BY <1>3, <1>4, <1>7, <2>1, OtherPermits
<1>9. Permits(r)' <= Permits(r) - 1 + IF step = "failed" THEN 1 ELSE 0
  <2>1. Claimable(r)' <=> Claimable(r)
    BY <1>5, <1>7 DEF Claimable
  <2>2. Hopes(r)' = Hopes(r) + IF step = "failed" THEN 1 ELSE 0
    BY <1>7, <2>1, PermitsType DEF Hopes, PermitsAreNumbers
  <2>3. Newer(r)' <=> Newer(r)
    BY <1>3 DEF Newer
  <2>4. Count(jobs, Queued(r))' = Count(jobs, Queued(r)) - 1
        /\ Cardinality(Claimers(r))' = Cardinality(Claimers(r))
    BY <1>7
  <2> QED
    BY <2>2, <2>3, <2>4, PermitsType, PermitsTypeNext DEF Permits, PermitsAreNumbers
<1>10. Permits(r) \in Nat /\ Permits(r)' \in Nat
  BY PermitsType, PermitsTypeNext DEF PermitsAreNumbers
<1>11. \A q \in DOMAIN logs \ {r} : logs'[q].placed = logs[q].placed
  BY <1>3
<1>12. Calls(r, j.attempt)
  BY <1>1, <1>2, <1>3, <1>4, <1>5, <1>6, <1>8, <1>9, <1>10, <1>11 DEF Calls, r
<1> QED
  BY <1>12 DEF r

LEMMA RefusedKind ==
  ASSUME Sound, Sound', NEW j \in DOMAIN jobs, PlacementRefused(j)
  PROVE  Quiet
<1>1. PICK r : r = j.row
  OBVIOUS
<1>2. /\ j.step = "queued" /\ Becomes(j, "failed") /\ logs' = logs /\ live' = live
      /\ stage' = stage /\ work' = work /\ dials' = dials /\ faults' = faults
  BY DEF PlacementRefused
<1>3. SameRows
  BY <1>2 DEF SameRows
<1>4. \A q :
           /\ Count(jobs, Queued(q))'
                = Count(jobs, Queued(q)) - IF q = r /\ j.step = "queued" THEN 1 ELSE 0
           /\ Count(jobs, Failed(q))'
                = Count(jobs, Failed(q)) - (IF q = r /\ j.step = "failed" THEN 1 ELSE 0)
                                         + (IF q = r THEN 1 ELSE 0)
           /\ Claimers(q)' = Claimers(q) /\ (Held(q)' <=> Held(q))
  BY <1>1, <1>2, BecomesCounts
<1>5. ASSUME NEW q \in DOMAIN logs PROVE Permits(q)' <= Permits(q)
  <2>1. CASE q # r
    <3>1. Count(jobs, Queued(q))' = Count(jobs, Queued(q))
          /\ Count(jobs, Failed(q))' = Count(jobs, Failed(q))
      BY <1>4, <2>1, PermitsType DEF PermitsAreNumbers
    <3> QED
      BY <1>2, <1>3, <1>4, <3>1, OtherPermits
  <2>2. CASE q = r
    <3>1. Claimable(q)' <=> Claimable(q)
      BY <1>2, <1>4 DEF Claimable
    <3>2. Count(jobs, Queued(q))' = Count(jobs, Queued(q)) - 1
          /\ Count(jobs, Failed(q))' = Count(jobs, Failed(q)) + 1
      BY <1>2, <1>4, <2>2, PermitsType DEF PermitsAreNumbers
    <3>3. Hopes(q)' = Hopes(q) + 1
      BY <3>1, <3>2, PermitsType DEF Hopes, PermitsAreNumbers
    <3>4. Newer(q)' <=> Newer(q)
      BY <1>2 DEF Newer
    <3>5. Cardinality(Claimers(q))' = Cardinality(Claimers(q))
      BY <1>4
    <3> QED
      BY <3>2, <3>3, <3>4, <3>5, PermitsType, PermitsTypeNext DEF Permits, PermitsAreNumbers
  <2> QED
    BY <2>1, <2>2
<1> QED
  BY <1>2, <1>3, <1>5 DEF Quiet

(* A call whose mark fails will be recorded as a failure, and redialled. *)
LEMMA MarkFailsKind ==
  ASSUME Sound, Sound', NEW j \in DOMAIN jobs, MarkFails(j)
  PROVE  Extra(j.row)
<1>1. PICK r : r = j.row
  OBVIOUS
<1>2. /\ j.step = "placed" /\ Becomes(j, "failed") /\ logs' = logs /\ live' = live
      /\ stage' = stage /\ work' = work /\ dials' = dials /\ faults' = faults + 1
  BY DEF MarkFails, Fault
<1>3. SameRows
  BY <1>2 DEF SameRows
<1>4. \A q :
           /\ Count(jobs, Queued(q))'
                = Count(jobs, Queued(q)) - IF q = r /\ j.step = "queued" THEN 1 ELSE 0
           /\ Count(jobs, Failed(q))'
                = Count(jobs, Failed(q)) - (IF q = r /\ j.step = "failed" THEN 1 ELSE 0)
                                         + (IF q = r THEN 1 ELSE 0)
           /\ Claimers(q)' = Claimers(q) /\ (Held(q)' <=> Held(q))
  BY <1>1, <1>2, BecomesCounts
<1>5. ASSUME NEW q \in DOMAIN logs PROVE Permits(q)' <= Permits(q) + IF q = r THEN 1 ELSE 0
  <2>1. Claimable(q)' <=> Claimable(q)
    BY <1>2, <1>4 DEF Claimable
  <2>2. Count(jobs, Queued(q))' = Count(jobs, Queued(q))
        /\ Count(jobs, Failed(q))' = Count(jobs, Failed(q)) + IF q = r THEN 1 ELSE 0
    BY <1>2, <1>4, PermitsType DEF PermitsAreNumbers
  <2>3. Hopes(q)' = Hopes(q) + IF q = r THEN 1 ELSE 0
    BY <2>1, <2>2, PermitsType DEF Hopes, PermitsAreNumbers
  <2>4. Newer(q)' <=> Newer(q)
    BY <1>2 DEF Newer
  <2>5. Cardinality(Claimers(q))' = Cardinality(Claimers(q))
    BY <1>4
  <2> QED
    BY <2>2, <2>3, <2>4, <2>5, PermitsType, PermitsTypeNext DEF Permits, PermitsAreNumbers
<1>6. Extra(r)
  BY <1>2, <1>3, <1>5 DEF Extra
<1> QED
  BY <1>1, <1>6

(* A job that ends lets its row be claimed again at most for the failure it   *)
(* had.                                                                    *)
LEMMA DropKind ==
  ASSUME Sound, Sound', NEW j \in DOMAIN jobs,
         MarkRetried(j) \/ RecordFailure(j) \/ RecordSwallowed(j)
  PROVE  Quiet
<1>1. PICK r : r = j.row
  OBVIOUS
<1>2. /\ j.step # "queued" /\ jobs' = Minus(jobs, j) /\ live' = live /\ stage' = stage
      /\ work' = work /\ dials' = dials /\ faults' \in {faults, faults + 1}
  BY DEF MarkRetried, RecordFailure, RecordSwallowed, Fault
<1>3. r \in DOMAIN logs /\ logs[r] \in Log /\ RowOK(logs[r])
  BY <1>1, JobType
<1>4. /\ DOMAIN logs' = DOMAIN logs /\ Len(logs') = Len(logs)
      /\ \A q \in DOMAIN logs : logs'[q].called = logs[q].called
      /\ \A q \in DOMAIN logs \ {r} : logs'[q] = logs[q]
      /\ logs'[r].placed = logs[r].placed
      /\ j.step = "failed" \/ logs'[r].retry = "retried"
  <2>1. CASE MarkRetried(j)
    BY <1>1, <1>3, <2>1, RetriedLogs, SettledType DEF KeepsRows
  <2>2. CASE RecordFailure(j)
    <3>1. j.step = "failed"
      BY <2>2 DEF RecordFailure
    <3> QED
      BY <1>1, <2>2, <3>1, FailedLogs DEF KeepsRows
  <2>3. CASE RecordSwallowed(j)
    BY <2>3 DEF RecordSwallowed
  <2> QED
    BY <2>1, <2>2, <2>3
<1>5. SameRows /\ \A q \in DOMAIN logs : logs'[q].placed = logs[q].placed
  BY <1>4 DEF SameRows
<1>6. \A q :
           /\ Count(jobs, Queued(q))' = Count(jobs, Queued(q))
           /\ Count(jobs, Failed(q))'
                = Count(jobs, Failed(q)) - IF q = r /\ j.step = "failed" THEN 1 ELSE 0
           /\ Claimers(q)' = Claimers(q)
           /\ q # r => (Held(q)' <=> Held(q))
  BY <1>1, <1>2, DropsCounts
<1>7. ASSUME NEW q \in DOMAIN logs PROVE Permits(q)' <= Permits(q)
  <2>1. CASE q # r
    <3>1. Count(jobs, Failed(q))' = Count(jobs, Failed(q))
      BY <1>6, <2>1, PermitsType DEF PermitsAreNumbers
    <3> QED
      BY <1>4, <1>5, <1>6, <2>1, <3>1, OtherPermits
  <2>2. CASE q = r
    <3>1. Hopes(r)' <= Hopes(r)
      <4>1. CASE j.step = "failed"
        <5>1. Count(jobs, Failed(r))' = Count(jobs, Failed(r)) - 1
          BY <1>6, <4>1
        <5> QED
          BY <5>1, PermitsType DEF Hopes, PermitsAreNumbers
      <4>2. CASE j.step # "failed"
        <5>1. ~Claimable(r)'
          BY <1>4, <4>2 DEF Claimable
        <5>2. Count(jobs, Failed(r))' = Count(jobs, Failed(r))
          BY <1>6, <4>2, PermitsType DEF PermitsAreNumbers
        <5> QED
          BY <5>1, <5>2, PermitsType DEF Hopes, PermitsAreNumbers
      <4> QED
        BY <4>1, <4>2
    <3>2. Newer(r)' <=> Newer(r)
      BY <1>4 DEF Newer
    <3>3. Cardinality(Claimers(r))' = Cardinality(Claimers(r))
          /\ Count(jobs, Queued(r))' = Count(jobs, Queued(r))
      BY <1>6
    <3> QED
      BY <2>2, <3>1, <3>2, <3>3, PermitsType, PermitsTypeNext DEF Permits, PermitsAreNumbers
  <2> QED
    BY <2>1, <2>2
<1> QED
  BY <1>2, <1>5, <1>7 DEF Quiet

LEMMA JobKind ==
  ASSUME Sound, Sound', NEW j \in DOMAIN jobs, JobStep(j)
  PROVE  \/ Quiet
         \/ Extra(j.row)
         \/ Calls(j.row, j.attempt)
  BY PlaceKind, RefusedKind, MarkFailsKind, DropKind DEF JobStep

(* With its queue a process loses what held the claim of the last row; the    *)
(* others have a newer call.                                               *)
LEMMA CrashKind ==
  ASSUME Sound, Sound', NEW s \in Schedulers, Crash(s)
  PROVE  Extra(Len(logs))
<1> DEFINE D == {k \in DOMAIN jobs : k.by # s}
<1>1. D \in SUBSET DOMAIN jobs /\ jobs' = [j \in D |-> jobs[j]]
  BY DEF Crash
<1> HIDE DEF D
<1>2. /\ logs' = logs /\ live' = live /\ dials' = dials /\ faults' = faults + 1
      /\ stage' = [stage EXCEPT ![s] = "idle"] /\ work' = [work EXCEPT ![s] = <<>>]
  BY DEF Crash, Fault
<1>3. SameRows
  BY <1>2 DEF SameRows
<1>4. \A S : Count(jobs', S) <= Count(jobs, S)
  BY <1>1, CountKept DEF Sound, JobsOK
<1>5. \A q : Queued(q)' = Queued(q) /\ Failed(q)' = Failed(q)
  BY DEF Queued, Failed
<1>6. \A q : Cardinality(Claimers(q))' <= Cardinality(Claimers(q))
  <2>1. \A q : Claimers(q)' \subseteq Claimers(q)
    BY <1>2 DEF Claimers, Current, Sound, WorkOK
  <2> QED
    BY <2>1, ClaimersType, FS_Subset
<1>7. ASSUME NEW q \in DOMAIN logs
      PROVE  Permits(q)' <= Permits(q) + IF q = Len(logs) THEN 1 ELSE 0
  <2>1. (Newer(q)' <=> Newer(q)) /\ (q # Len(logs) => Newer(q))
    BY <1>2, LogsType DEF Newer, Sound
  <2>2. Hopes(q)' <= Hopes(q) + 1
    BY <1>4, <1>5, PermitsType, PermitsTypeNext DEF Hopes, PermitsAreNumbers
  <2>3. Count(jobs, Queued(q))' <= Count(jobs, Queued(q))
    BY <1>4, <1>5
  <2> QED
    BY <1>6, <2>1, <2>2, <2>3, PermitsType, PermitsTypeNext DEF Permits, PermitsAreNumbers
<1> QED
  BY <1>2, <1>3, <1>7 DEF Extra

(* A lease that ends before its job lets the row be claimed a second time. *)
LEMMA TimeKind ==
  ASSUME Sound, Sound', NEW r \in DOMAIN logs, Time(r)
  PROVE  Quiet \/ Extra(r)
<1>1. /\ KeepsRows /\ DOMAIN logs' = DOMAIN logs /\ Len(logs') = Len(logs)
      /\ logs'[r].placed = logs[r].placed /\ logs'[r].retry = logs[r].retry
      /\ RetryTimeComes(r) => logs'[r].lapsed = logs[r].lapsed
      /\ \A q \in DOMAIN logs \ {r} : logs'[q] = logs[q]
  BY TimeLogs
<1>2. SameRows /\ \A q \in DOMAIN logs : logs'[q].placed = logs[q].placed
  BY <1>1 DEF SameRows, KeepsRows
<1>3. jobs' = jobs /\ stage' = stage /\ work' = work /\ live' = live /\ dials' = dials
  BY DEF Time, RetryTimeComes, ClaimLapses
<1>4. \A q : /\ Count(jobs, Queued(q))' = Count(jobs, Queued(q))
             /\ Count(jobs, Failed(q))' = Count(jobs, Failed(q))
             /\ Claimers(q)' = Claimers(q)
  BY <1>3 DEF Queued, Failed, Claimers, Current
<1>5. \A q : Held(q)' <=> Held(q)
  BY <1>3 DEF Held, Current
<1>6. ASSUME NEW q \in DOMAIN logs, Claimable(q)' => Claimable(q) PROVE Permits(q)' <= Permits(q)
  <2>1. Hopes(q)' <= Hopes(q)
    BY <1>4, <1>6, FewerHopes, PermitsType DEF PermitsAreNumbers
  <2>2. Newer(q)' <=> Newer(q)
    BY <1>1 DEF Newer
  <2> QED
    BY <1>4, <2>1, <2>2, PermitsType, PermitsTypeNext DEF Permits, PermitsAreNumbers
<1>7. \A q \in DOMAIN logs \ {r} : Permits(q)' <= Permits(q)
  BY <1>1, <1>5, <1>6 DEF Claimable
<1>8. CASE RetryTimeComes(r) \/ ~Held(r)
  <2>1. Claimable(r)' => Claimable(r)
    BY <1>1, <1>5, <1>8 DEF Claimable, Time
  <2>2. faults' = faults
    BY <1>8 DEF Time, RetryTimeComes, ClaimLapses
  <2>3. Permits(r)' <= Permits(r)
    BY <1>6, <2>1
  <2> QED
    BY <1>2, <1>3, <1>7, <2>2, <2>3 DEF Quiet
<1>9. CASE ~RetryTimeComes(r) /\ Held(r)
  <2>1. faults' = faults + 1
    BY <1>9 DEF Time, ClaimLapses, Fault
  <2>2. Permits(r)' <= Permits(r) + 1
    <3>1. Hopes(r)' <= Hopes(r) + 1
      BY <1>4, PermitsType DEF Hopes, PermitsAreNumbers
    <3>2. Newer(r)' <=> Newer(r)
      BY <1>1 DEF Newer
    <3> QED
      BY <1>4, <3>1, <3>2, PermitsType, PermitsTypeNext DEF Permits, PermitsAreNumbers
  <2>3. \A q \in DOMAIN logs : Permits(q)' <= Permits(q) + IF q = r THEN 1 ELSE 0
    BY <1>7, <2>2, PermitsType DEF PermitsAreNumbers
  <2> QED
    BY <1>2, <1>3, <2>1, <2>3 DEF Extra
<1> QED
  BY <1>8, <1>9

(* A call has ended: the rows before its log have a newer call now. *)
LEMMA FinishKind ==
  ASSUME Sound, Sound', NEW attempt \in Attempts, NEW outcome \in Outcomes,
         FinishCall(attempt, outcome), NEW n, n = Len(logs)
  PROVE  /\ DOMAIN logs' = DOMAIN logs \union {n + 1} /\ n + 1 \notin DOMAIN logs
         /\ \A r \in DOMAIN logs : /\ logs'[r].placed = logs[r].placed
                                   /\ logs'[r].called = logs[r].called
                                   /\ Permits(r)' <= Permits(r)
         /\ logs'[n + 1].placed = 0 /\ logs'[n + 1].called = attempt
         /\ Permits(n + 1)' \in {0, 1}
<1>1. /\ Len(logs') = n + 1 /\ logs'[n + 1] = LogOf(attempt, outcome)
      /\ \A r \in DOMAIN logs :
              logs'[r].placed = logs[r].placed /\ logs'[r].called = logs[r].called
  BY FinishLogs DEF Sound
<1>2. n \in Nat /\ DOMAIN logs = 1..n /\ DOMAIN logs' = 1..(n + 1)
  BY <1>1 DEF Sound, LogsOK
<1>3. jobs' = jobs /\ stage' = stage /\ work' = work
  BY DEF FinishCall
<1>4. \A q : /\ Count(jobs, Queued(q))' = Count(jobs, Queued(q))
             /\ Count(jobs, Failed(q))' = Count(jobs, Failed(q))
             /\ Claimers(q)' = Claimers(q)
  BY <1>3 DEF Queued, Failed, Claimers, Current
<1>5. ASSUME NEW r \in DOMAIN logs PROVE Permits(r)' <= Permits(r)
  <2>1. Newer(r)' /\ Len(logs') >= Len(logs) /\ r \in DOMAIN logs'
    BY <1>1, <1>2 DEF Newer
  <2>2. Count(jobs, Queued(r))' + Cardinality(Claimers(r))'
           <= Count(jobs, Queued(r)) + Cardinality(Claimers(r))
    BY <1>4, PermitsType DEF PermitsAreNumbers
  <2> QED
    BY <2>1, <2>2, FewerPermits
<1>6. PICK m : m = n + 1 /\ m \notin DOMAIN logs
  BY <1>2
<1>7. Count(jobs, Queued(m)) = 0 /\ Count(jobs, Failed(m)) = 0
  <2>1. \A j \in DOMAIN jobs : j.row # m
    BY <1>6, JobType
  <2>2. DOMAIN jobs \intersect Queued(m) = {} /\ DOMAIN jobs \intersect Failed(m) = {}
    BY <2>1 DEF Queued, Failed
  <2> QED
    BY <2>2, SumEmpty DEF Count
<1>8. Cardinality(Claimers(m)) = 0
  <2>1. \A s \in Schedulers : stage[s] = "enqueue" => Current(s).row \in DOMAIN logs
    BY CurrentType DEF Sound, Resting
  <2>2. Claimers(m) = {}
    BY <1>6, <2>1 DEF Claimers
  <2> QED
    BY <2>2, FS_EmptySet
<1>9. Permits(m)' \in {0, 1}
  <2>1. Hopes(m)' \in {0, 1}
    BY <1>4, <1>7 DEF Hopes
  <2>2. Count(jobs, Queued(m))' = 0 /\ Cardinality(Claimers(m))' = 0
    BY <1>4, <1>7, <1>8
  <2> QED
    BY <2>1, <2>2 DEF Permits
<1>10. logs'[m].placed = 0 /\ logs'[m].called = attempt
  BY <1>1, <1>6, LogOfType
<1> QED
  BY <1>1, <1>2, <1>5, <1>6, <1>9, <1>10

------------------------------------------------------------------------------
(* One redial per log *)

(* One term of a sum grows by d, and no other one grows. *)
LEMMA SumBumped ==
  ASSUME NEW f, NEW h, NEW S, IsFiniteSet(S), \A x \in S : f[x] \in Int /\ h[x] \in Int,
         NEW e \in S, NEW d \in Int, \A x \in S \ {e} : h[x] <= f[x], h[e] <= f[e] + d
  PROVE  SumFunctionOnSet(h, S) <= SumFunctionOnSet(f, S) + d
<1> DEFINE k == [x \in S |-> IF x = e THEN f[e] + d ELSE f[x]]
<1>1. /\ \A x \in S : k[x] \in Int /\ h[x] <= k[x]
      /\ \A x \in S \ {e} : k[x] = f[x]
      /\ k[e] = f[e] + d
  OBVIOUS
<1> HIDE DEF k
<1>2. SumFunctionOnSet(k, S) = SumFunctionOnSet(f, S) - f[e] + k[e]
  BY <1>1, SumChanged
<1>3. SumFunctionOnSet(h, S) <= SumFunctionOnSet(k, S)
  BY <1>1, SumLess
<1>4. SumFunctionOnSet(f, S) \in Int /\ SumFunctionOnSet(h, S) \in Int
  BY SumType
<1> QED
  BY <1>1, <1>2, <1>3, <1>4

(* The calls a row has led to and still can lead to, past the first.         *)
Excess(r) == IF logs[r].placed + Permits(r) > 1 THEN logs[r].placed + Permits(r) - 1 ELSE 0

(* What a row has led to, and what it can lead to: every redial it still     *)
(* permits continues a chain behind the call it was written for.            *)
Weight(r) == logs[r].placed + Permits(r) * (LongestChain - logs[r].called)

ExcessOf == [r \in DOMAIN logs |-> Excess(r)]
WeightOf == [r \in DOMAIN logs |-> Weight(r)]

RowsAreNumbers ==
  /\ IsFiniteSet(DOMAIN logs)
  /\ \A r \in DOMAIN logs :
       /\ logs[r].placed \in Nat /\ Permits(r) \in Nat
       /\ logs[r].called \in Nat /\ LongestChain - logs[r].called \in Nat
       /\ Excess(r) \in Nat /\ Weight(r) \in Nat

LEMMA RowsType == Sound => RowsAreNumbers
<1> SUFFICES ASSUME Sound
             PROVE  RowsAreNumbers
  OBVIOUS
<1>1. IsFiniteSet(DOMAIN logs)
  BY LogsType, FS_Interval DEF Sound
<1>2. ASSUME NEW r \in DOMAIN logs
      PROVE  /\ logs[r].placed \in Nat /\ Permits(r) \in Nat
             /\ logs[r].called \in Nat /\ LongestChain - logs[r].called \in Nat
  <2>1. logs[r] \in Log
    BY LogsType DEF Sound
  <2> QED
    BY <2>1, ChainType, PermitsType DEF Log, Attempts, PermitsAreNumbers
<1>3. \A a, b, c \in Nat : a + b * c \in Nat
  OBVIOUS
<1>4. \A r \in DOMAIN logs : Excess(r) \in Nat /\ Weight(r) \in Nat
  BY <1>2, <1>3 DEF Excess, Weight
<1> QED
  BY <1>1, <1>2, <1>4 DEF RowsAreNumbers

LEMMA RowsTypeNext == Sound' => RowsAreNumbers'
  BY RowsType, PTL

OneEach == SumFunctionOnSet(ExcessOf, DOMAIN logs) <= faults

LEMMA QuietOneEach ==
  ASSUME Sound, Sound', OneEach, Quiet
  PROVE  OneEach'
<1>1. RowsAreNumbers /\ RowsAreNumbers' /\ DOMAIN logs' = DOMAIN logs
  BY RowsType, RowsTypeNext DEF Quiet, SameRows
<1>2. \A r \in DOMAIN logs : Excess(r)' <= Excess(r)
  BY <1>1 DEF Quiet, Excess, RowsAreNumbers
<1>3. /\ \A r \in DOMAIN logs : ExcessOf[r] = Excess(r) /\ ExcessOf'[r] = Excess(r)'
      /\ \A r \in DOMAIN logs : ExcessOf[r] \in Int /\ ExcessOf'[r] \in Int
  BY <1>1 DEF ExcessOf, RowsAreNumbers
<1>4. SumFunctionOnSet(ExcessOf', DOMAIN logs) <= SumFunctionOnSet(ExcessOf, DOMAIN logs)
  BY <1>1, <1>2, <1>3, SumLess DEF RowsAreNumbers
<1>5. /\ SumFunctionOnSet(ExcessOf', DOMAIN logs) \in Int
      /\ SumFunctionOnSet(ExcessOf, DOMAIN logs) \in Int
  BY <1>1, <1>3, SumType DEF RowsAreNumbers
<1> QED
  BY <1>1, <1>4, <1>5, RedialAssumption DEF OneEach, Quiet, Sound, NumbersOK

(* A step that adds at most one to the excess of one row, with a fault. *)
LEMMA FaultyOneEach ==
  ASSUME Sound, Sound', OneEach, DOMAIN logs' = DOMAIN logs, faults' = faults + 1, NEW q,
         \A r \in DOMAIN logs : Excess(r)' <= Excess(r) + IF r = q THEN 1 ELSE 0
  PROVE  OneEach'
<1>1. RowsAreNumbers /\ RowsAreNumbers'
  BY RowsType, RowsTypeNext
<1>2. /\ \A r \in DOMAIN logs : ExcessOf[r] = Excess(r) /\ ExcessOf'[r] = Excess(r)'
      /\ \A r \in DOMAIN logs : ExcessOf[r] \in Int /\ ExcessOf'[r] \in Int
  BY <1>1 DEF ExcessOf, RowsAreNumbers
<1>3. SumFunctionOnSet(ExcessOf', DOMAIN logs) <= SumFunctionOnSet(ExcessOf, DOMAIN logs) + 1
  <2>1. CASE q \in DOMAIN logs
    <3>1. \A r \in DOMAIN logs \ {q} : ExcessOf'[r] <= ExcessOf[r]
      BY <1>1, <1>2 DEF RowsAreNumbers
    <3>2. ExcessOf'[q] <= ExcessOf[q] + 1
      BY <1>2, <2>1
    <3> QED
      BY <1>1, <1>2, <2>1, <3>1, <3>2, SumBumped DEF RowsAreNumbers
  <2>2. CASE q \notin DOMAIN logs
    <3>1. \A r \in DOMAIN logs : ExcessOf'[r] <= ExcessOf[r]
      BY <1>1, <1>2, <2>2 DEF RowsAreNumbers
    <3>2. SumFunctionOnSet(ExcessOf', DOMAIN logs) <= SumFunctionOnSet(ExcessOf, DOMAIN logs)
      BY <1>1, <1>2, <3>1, SumLess DEF RowsAreNumbers
    <3>3. /\ SumFunctionOnSet(ExcessOf', DOMAIN logs) \in Int
          /\ SumFunctionOnSet(ExcessOf, DOMAIN logs) \in Int
      BY <1>1, <1>2, SumType DEF RowsAreNumbers
    <3> QED
      BY <3>2, <3>3
  <2> QED
    BY <2>1, <2>2
<1>4. /\ SumFunctionOnSet(ExcessOf', DOMAIN logs) \in Int
      /\ SumFunctionOnSet(ExcessOf, DOMAIN logs) \in Int
  BY <1>1, <1>2, SumType DEF RowsAreNumbers
<1> QED
  BY <1>3, <1>4 DEF OneEach, Sound, NumbersOK

LEMMA CallsOneEach ==
  ASSUME Sound, Sound', OneEach, NEW q \in DOMAIN logs, NEW a, Calls(q, a)
  PROVE  OneEach'
<1>1. RowsAreNumbers /\ RowsAreNumbers' /\ DOMAIN logs' = DOMAIN logs
  BY RowsType, RowsTypeNext DEF Calls, SameRows
<1>2. \A r \in DOMAIN logs \ {q} : Excess(r)' <= Excess(r)
  BY <1>1 DEF Calls, Excess, RowsAreNumbers
<1>3. CASE faults' = faults + 1 /\ Permits(q)' <= Permits(q)
  <2>1. Excess(q)' <= Excess(q) + 1
    BY <1>1, <1>3 DEF Calls, Excess, RowsAreNumbers
  <2>2. \A r \in DOMAIN logs : Excess(r)' <= Excess(r) + IF r = q THEN 1 ELSE 0
    BY <1>1, <1>2, <2>1 DEF RowsAreNumbers
  <2> QED
    BY <1>1, <1>3, <2>2, FaultyOneEach
<1>4. CASE faults' = faults /\ Permits(q)' <= Permits(q) - 1
  <2>1. Excess(q)' <= Excess(q)
    BY <1>1, <1>4 DEF Calls, Excess, RowsAreNumbers
  <2>2. /\ \A r \in DOMAIN logs : ExcessOf[r] = Excess(r) /\ ExcessOf'[r] = Excess(r)'
        /\ \A r \in DOMAIN logs : ExcessOf[r] \in Int /\ ExcessOf'[r] \in Int
    BY <1>1 DEF ExcessOf, RowsAreNumbers
  <2>3. \A r \in DOMAIN logs : ExcessOf'[r] <= ExcessOf[r]
    BY <1>2, <2>1, <2>2
  <2>4. SumFunctionOnSet(ExcessOf', DOMAIN logs) <= SumFunctionOnSet(ExcessOf, DOMAIN logs)
    BY <1>1, <2>2, <2>3, SumLess DEF RowsAreNumbers
  <2>5. /\ SumFunctionOnSet(ExcessOf', DOMAIN logs) \in Int
        /\ SumFunctionOnSet(ExcessOf, DOMAIN logs) \in Int
    BY <1>1, <2>2, SumType DEF RowsAreNumbers
  <2> QED
    BY <1>1, <1>4, <2>4, <2>5 DEF OneEach, Sound, NumbersOK
<1> QED
  BY <1>3, <1>4 DEF Calls

LEMMA FinishOneEach ==
  ASSUME Sound, Sound', OneEach, NEW attempt \in Attempts, NEW outcome \in Outcomes,
         FinishCall(attempt, outcome)
  PROVE  OneEach'
<1>1. RowsAreNumbers /\ RowsAreNumbers'
  BY RowsType, RowsTypeNext
<1>2. PICK n : n = Len(logs)
  OBVIOUS
<1>3. PICK m : m = n + 1
  OBVIOUS
<1>4. /\ DOMAIN logs' = DOMAIN logs \union {m} /\ m \notin DOMAIN logs
      /\ \A r \in DOMAIN logs : logs'[r].placed = logs[r].placed /\ Permits(r)' <= Permits(r)
      /\ logs'[m].placed = 0 /\ Permits(m)' \in {0, 1}
  BY <1>2, <1>3, FinishKind
<1> DEFINE D == DOMAIN logs
           old == [r \in D |-> Excess(r)']
<1>5. \A r \in D : Excess(r)' <= Excess(r)
  BY <1>1, <1>4 DEF Excess, RowsAreNumbers
<1>6. Excess(m)' = 0
  BY <1>4 DEF Excess
<1>7. /\ \A r \in D : ExcessOf[r] = Excess(r) /\ ExcessOf'[r] = Excess(r)' /\ old[r] = Excess(r)'
      /\ ExcessOf'[m] = 0
      /\ \A r \in D : ExcessOf[r] \in Int /\ old[r] \in Int
  BY <1>1, <1>4, <1>6 DEF ExcessOf, RowsAreNumbers
<1>8. SumFunctionOnSet(old, D) <= SumFunctionOnSet(ExcessOf, D)
  BY <1>1, <1>5, <1>7, SumLess DEF RowsAreNumbers
<1> HIDE DEF old
<1>9. SumFunctionOnSet(ExcessOf', D \union {m}) = SumFunctionOnSet(old, D) + ExcessOf'[m]
  BY <1>1, <1>4, <1>7, SumAdded DEF RowsAreNumbers
<1>10. SumFunctionOnSet(old, D) \in Int /\ SumFunctionOnSet(ExcessOf, D) \in Int
  BY <1>1, <1>7, SumType DEF RowsAreNumbers
<1>11. faults' = faults
  BY DEF FinishCall
<1> QED
  BY <1>4, <1>7, <1>8, <1>9, <1>10, <1>11 DEF OneEach, Sound, NumbersOK

LEMMA ExtraOneEach ==
  ASSUME Sound, Sound', OneEach, NEW q, Extra(q)
  PROVE  OneEach'
<1>1. RowsAreNumbers /\ RowsAreNumbers' /\ DOMAIN logs' = DOMAIN logs
  BY RowsType, RowsTypeNext DEF Extra, SameRows
<1>2. \A r \in DOMAIN logs : Excess(r)' <= Excess(r) + IF r = q THEN 1 ELSE 0
  BY <1>1 DEF Extra, Excess, RowsAreNumbers
<1> QED
  BY <1>1, <1>2, FaultyOneEach DEF Extra

(* The step of a call that is not a redial. *)
LEMMA DialFrame ==
  ASSUME Sound, Dial
  PROVE  /\ dials' = dials + 1 /\ live' = [live EXCEPT ![1] = @ + 1] /\ logs' = logs
         /\ faults' = faults /\ \A r : Permits(r)' = Permits(r)
<1>1. /\ dials' = dials + 1 /\ live' = [live EXCEPT ![1] = @ + 1]
      /\ logs' = logs /\ jobs' = jobs /\ stage' = stage /\ work' = work /\ faults' = faults
  BY DEF Dial
<1> QED
  BY <1>1 DEF Permits, Hopes, Claimable, Queued, Failed, Claimers, Current, Held, Newer

(* All kinds of steps. *)
StepKind ==
  \/ Quiet
  \/ \E q \in Nat : Extra(q)
  \/ \E q \in DOMAIN logs, a \in Attempts : Calls(q, a)

LEMMA NextKind ==
  ASSUME Sound, Sound', [RedialNext]_vars
  PROVE  \/ StepKind
         \/ Dial
         \/ \E attempt \in Attempts, outcome \in Outcomes : FinishCall(attempt, outcome)
<1>1. CASE \E s \in Schedulers : SweepStep(s)
  BY <1>1, SweepKind DEF StepKind
<1>2. ASSUME NEW j \in DOMAIN jobs, JobStep(j) PROVE StepKind
  <2>1. j.row \in DOMAIN logs /\ j.row \in Nat /\ j.attempt \in Attempts
    BY JobType DEF Job
  <2> QED
    BY <1>2, <2>1, JobKind DEF StepKind
<1>3. ASSUME NEW s \in Schedulers, Crash(s) PROVE StepKind
  <2>1. Extra(Len(logs)) /\ Len(logs) \in Nat
    BY <1>3, CrashKind, LogsType DEF Sound
  <2> QED
    BY <2>1 DEF StepKind
<1>4. ASSUME NEW r \in DOMAIN logs, Time(r) PROVE StepKind
  <2>1. r \in Nat
    BY LogsType DEF Sound
  <2> QED
    BY <1>4, <2>1, TimeKind DEF StepKind
<1>5. CASE UNCHANGED vars
  <2>1. SameRows /\ live' = live /\ dials' = dials /\ faults' = faults
    BY <1>5 DEF vars, SameRows
  <2>2. \A r : Permits(r)' = Permits(r)
    BY <1>5 DEF vars, Permits, Hopes, Claimable, Queued, Failed, Claimers, Current, Held, Newer
  <2>3. logs' = logs
    BY <1>5 DEF vars
  <2>4. Quiet
    BY <2>1, <2>2, <2>3, PermitsType DEF Quiet, PermitsAreNumbers
  <2> QED
    BY <2>4 DEF StepKind
<1> QED
  BY <1>1, <1>2, <1>3, <1>4, <1>5 DEF RedialNext

LEMMA OneEachInit ==
  ASSUME RedialInit
  PROVE  OneEach
<1>1. DOMAIN logs = {} /\ faults = 0
  BY DEF RedialInit
<1>2. SumFunctionOnSet(ExcessOf, DOMAIN logs) = 0
  BY <1>1, SumEmpty
<1> QED
  BY <1>1, <1>2 DEF OneEach

LEMMA OneEachNext ==
  ASSUME Sound, Sound', OneEach, [RedialNext]_vars
  PROVE  OneEach'
<1>1. CASE StepKind
  BY <1>1, QuietOneEach, ExtraOneEach, CallsOneEach DEF StepKind
<1>2. CASE Dial
  <2>1. ExcessOf' = ExcessOf /\ DOMAIN logs' = DOMAIN logs /\ faults' = faults
    BY <1>2, DialFrame DEF ExcessOf, Excess
  <2> QED
    BY <2>1 DEF OneEach
<1>3. CASE \E attempt \in Attempts, outcome \in Outcomes : FinishCall(attempt, outcome)
  BY <1>3, FinishOneEach
<1> QED
  BY <1>1, <1>2, <1>3, NextKind

LEMMA OneEachSuffices ==
  ASSUME Sound, OneEach
  PROVE  RedialledOnce
<1> DEFINE again == [r \in DOMAIN logs |-> IF logs[r].placed > 1 THEN logs[r].placed - 1 ELSE 0]
<1>1. RowsAreNumbers
  BY RowsType
<1>2. \A r \in DOMAIN logs : /\ again[r] \in Int /\ ExcessOf[r] \in Int
                             /\ again[r] <= ExcessOf[r]
  BY <1>1 DEF RowsAreNumbers, ExcessOf, Excess
<1>3. SumFunctionOnSet(again, DOMAIN logs) <= SumFunctionOnSet(ExcessOf, DOMAIN logs)
  BY <1>1, <1>2, SumLess DEF RowsAreNumbers
<1>4. SumFunctionOnSet(again, DOMAIN logs) \in Int /\ SumFunctionOnSet(ExcessOf, DOMAIN logs) \in Int
  BY <1>1, <1>2, SumType DEF RowsAreNumbers
<1>5. SumFunctionOnSet(again, DOMAIN logs) <= faults
  BY <1>3, <1>4 DEF OneEach, Sound, NumbersOK
<1> QED
  BY <1>5 DEF RedialledOnce

(* One redial per log, and one more for every fault: any number of scheduler  *)
(* instances, lapsed claims and jobs that outlive them do not call a number  *)
(* twice for the same log.                                                 *)
THEOREM RedialsAreNotRepeated == RedialSpec => []RedialledOnce
<1>1. RedialInit => Sound /\ OneEach
  BY SoundInit, OneEachInit
<1>2. Sound /\ OneEach /\ [RedialNext]_vars => (Sound /\ OneEach)'
  BY SoundNext, OneEachNext
<1>3. Sound /\ OneEach => RedialledOnce
  BY OneEachSuffices
<1> QED
  BY <1>1, <1>2, <1>3, PTL DEF RedialSpec

------------------------------------------------------------------------------
(* Bounded chains *)

LEMMA TimesLess ==
  ASSUME NEW a \in Nat, NEW b \in Nat, NEW c \in Nat, a <= b
  PROVE  a * c \in Nat /\ b * c \in Nat /\ a * c <= b * c
<1>1. PICK d \in Nat : b = a + d
  <2>1. b - a \in Nat /\ b = a + (b - a)
    OBVIOUS
  <2> QED
    BY <2>1
<1>2. b * c = a * c + d * c /\ d * c \in Nat /\ a * c \in Nat
  BY <1>1
<1> QED
  BY <1>2

LEMMA TimesNext ==
  ASSUME NEW a \in Nat, NEW c \in Nat
  PROVE  /\ (a + 1) * c = a * c + c /\ a * c \in Nat
         /\ a > 0 => (a - 1) * c = a * c - c
<1>1. (a + 1) * c = a * c + c /\ a * c \in Nat
  OBVIOUS
<1>2. ASSUME a > 0 PROVE (a - 1) * c = a * c - c
  BY <1>2
<1> QED
  BY <1>1, <1>2

(* The calls in progress, by how far their chains can still go. *)
InTheAir == [a \in Attempts |-> live[a] * (LongestChain - a)]
Air == SumFunctionOnSet(InTheAir, Attempts)

LEMMA AirType ==
  ASSUME live \in [Attempts -> Nat]
  PROVE  /\ IsFiniteSet(Attempts) /\ Air \in Nat
         /\ \A a \in Attempts : /\ InTheAir[a] = live[a] * (LongestChain - a)
                                /\ InTheAir[a] \in Nat /\ LongestChain - a \in Nat
<1>1. \A a \in Attempts : LongestChain - a \in Nat
  BY ChainType DEF Attempts
<1>2. \A x, y \in Nat : x * y \in Nat
  OBVIOUS
<1>3. \A a \in Attempts : InTheAir[a] = live[a] * (LongestChain - a) /\ InTheAir[a] \in Nat
  BY <1>1, <1>2 DEF InTheAir
<1>4. IsFiniteSet(Attempts)
  BY ChainType, FS_Interval DEF Attempts
<1> QED
  BY <1>1, <1>3, <1>4, SumNat DEF Air

LEMMA AirUp ==
  ASSUME live \in [Attempts -> Nat], live' \in [Attempts -> Nat], NEW a \in Attempts,
         live' = [live EXCEPT ![a] = @ + 1]
  PROVE  Air' = Air + (LongestChain - a)
<1>1. /\ IsFiniteSet(Attempts) /\ Air \in Nat
      /\ \A b \in Attempts : /\ InTheAir[b] = live[b] * (LongestChain - b)
                             /\ InTheAir[b] \in Nat /\ LongestChain - b \in Nat
  BY AirType
<1>2. \A b \in Attempts : InTheAir'[b] = live'[b] * (LongestChain - b)
  BY DEF InTheAir, Attempts, LongestChain
<1>3. \A b \in Attempts \ {a} : InTheAir'[b] = InTheAir[b]
  BY <1>1, <1>2
<1>4. InTheAir'[a] = InTheAir[a] + (LongestChain - a)
  BY <1>1, <1>2, TimesNext
<1>5. SumFunctionOnSet(InTheAir', Attempts)
        = SumFunctionOnSet(InTheAir, Attempts) - InTheAir[a] + InTheAir'[a]
  BY <1>1, <1>3, <1>4, SumChanged
<1>6. Air' = SumFunctionOnSet(InTheAir', Attempts)
  BY DEF Air, Attempts, LongestChain
<1>7. Air = SumFunctionOnSet(InTheAir, Attempts)
  BY DEF Air
<1> QED
  BY <1>1, <1>4, <1>5, <1>6, <1>7

LEMMA AirDown ==
  ASSUME live \in [Attempts -> Nat], live' \in [Attempts -> Nat], NEW a \in Attempts,
         live[a] > 0, live' = [live EXCEPT ![a] = @ - 1]
  PROVE  Air' = Air - (LongestChain - a)
<1>1. /\ IsFiniteSet(Attempts) /\ Air \in Nat
      /\ \A b \in Attempts : /\ InTheAir[b] = live[b] * (LongestChain - b)
                             /\ InTheAir[b] \in Nat /\ LongestChain - b \in Nat
  BY AirType
<1>2. \A b \in Attempts : InTheAir'[b] = live'[b] * (LongestChain - b)
  BY DEF InTheAir, Attempts, LongestChain
<1>3. \A b \in Attempts \ {a} : InTheAir'[b] = InTheAir[b]
  BY <1>1, <1>2
<1>4. InTheAir'[a] = InTheAir[a] - (LongestChain - a)
  BY <1>1, <1>2, TimesNext
<1>5. SumFunctionOnSet(InTheAir', Attempts)
        = SumFunctionOnSet(InTheAir, Attempts) - InTheAir[a] + InTheAir'[a]
  BY <1>1, <1>3, <1>4, SumChanged
<1>6. Air' = SumFunctionOnSet(InTheAir', Attempts)
  BY DEF Air, Attempts, LongestChain
<1>7. Air = SumFunctionOnSet(InTheAir, Attempts)
  BY DEF Air
<1> QED
  BY <1>1, <1>4, <1>5, <1>6, <1>7

Heavy == SumFunctionOnSet(WeightOf, DOMAIN logs)

(* Every chain that was started, and every fault, pays for one longest chain: *)
(* for the calls it has led to and for those it still can lead to.          *)
Budgeted == dials + Air + Heavy <= (dials + faults) * LongestChain

LEMMA HeavyType == Sound => Heavy \in Nat
<1> SUFFICES ASSUME Sound
             PROVE  Heavy \in Nat
  OBVIOUS
<1>1. RowsAreNumbers
  BY RowsType
<1>2. \A r \in DOMAIN logs : WeightOf[r] \in Nat
  BY <1>1 DEF RowsAreNumbers, WeightOf
<1> QED
  BY <1>1, <1>2, SumNat DEF RowsAreNumbers, Heavy

LEMMA HeavyTypeNext == Sound' => (Heavy \in Nat)'
  BY HeavyType, PTL

LEMMA SoundAir == Sound => Air \in Nat
  BY AirType DEF Sound, NumbersOK

LEMMA AirTypeNext == Sound' => (Air \in Nat)'
  BY SoundAir, PTL

(* A row weighs what it did, or a whole chain more if it got a permit. *)
LEMMA WeightGrows ==
  ASSUME Sound, Sound', NEW r \in DOMAIN logs, r \in DOMAIN logs',
         logs'[r].placed = logs[r].placed, logs'[r].called = logs[r].called
  PROVE  /\ Permits(r)' <= Permits(r) => Weight(r)' <= Weight(r)
         /\ Permits(r)' <= Permits(r) + 1 => Weight(r)' <= Weight(r) + LongestChain
<1> DEFINE c == LongestChain - logs[r].called
           p == Permits(r)
           pp == Permits(r)'
<1>1. /\ logs[r].placed \in Nat /\ p \in Nat /\ pp \in Nat /\ c \in Nat /\ c <= LongestChain
      /\ LongestChain \in Nat
  BY RowsType, RowsTypeNext, ChainType DEF RowsAreNumbers
<1>2. Weight(r) = logs[r].placed + p * c /\ Weight(r)' = logs[r].placed + pp * c
  BY DEF Weight, LongestChain
<1> HIDE DEF c, p, pp
<1>3. ASSUME pp <= p PROVE Weight(r)' <= Weight(r)
  <2>1. pp * c <= p * c /\ p * c \in Nat /\ pp * c \in Nat
    BY <1>1, <1>3, TimesLess
  <2> QED
    BY <1>1, <1>2, <2>1
<1>4. ASSUME pp <= p + 1 PROVE Weight(r)' <= Weight(r) + LongestChain
  <2>1. p + 1 \in Nat
    BY <1>1
  <2>2. pp * c <= (p + 1) * c /\ (p + 1) * c \in Nat /\ pp * c \in Nat
    BY <1>1, <1>4, <2>1, TimesLess
  <2>3. (p + 1) * c = p * c + c /\ p * c \in Nat
    BY <1>1, TimesNext
  <2> QED
    BY <1>1, <1>2, <2>2, <2>3
<1> QED
  BY <1>3, <1>4 DEF p, pp

LEMMA HeavyGrows ==
  ASSUME Sound, Sound', DOMAIN logs' = DOMAIN logs, NEW d \in Int, NEW q \in DOMAIN logs,
         Weight(q)' <= Weight(q) + d,
         \A r \in DOMAIN logs \ {q} : Weight(r)' <= Weight(r)
  PROVE  Heavy' <= Heavy + d
<1>1. RowsAreNumbers /\ RowsAreNumbers'
  BY RowsType, RowsTypeNext
<1>2. /\ \A r \in DOMAIN logs : WeightOf[r] = Weight(r) /\ WeightOf'[r] = Weight(r)'
      /\ \A r \in DOMAIN logs : WeightOf[r] \in Int /\ WeightOf'[r] \in Int
  BY <1>1 DEF WeightOf, RowsAreNumbers
<1>3. SumFunctionOnSet(WeightOf', DOMAIN logs) <= SumFunctionOnSet(WeightOf, DOMAIN logs) + d
  BY <1>1, <1>2, SumBumped DEF RowsAreNumbers
<1> QED
  BY <1>3 DEF Heavy

LEMMA HeavyKept ==
  ASSUME Sound, Sound', DOMAIN logs' = DOMAIN logs,
         \A r \in DOMAIN logs : Weight(r)' <= Weight(r)
  PROVE  Heavy' <= Heavy
<1>1. RowsAreNumbers /\ RowsAreNumbers'
  BY RowsType, RowsTypeNext
<1>2. /\ \A r \in DOMAIN logs : WeightOf[r] = Weight(r) /\ WeightOf'[r] = Weight(r)'
      /\ \A r \in DOMAIN logs : WeightOf[r] \in Int /\ WeightOf'[r] \in Int
  BY <1>1 DEF WeightOf, RowsAreNumbers
<1>3. SumFunctionOnSet(WeightOf', DOMAIN logs) <= SumFunctionOnSet(WeightOf, DOMAIN logs)
  BY <1>1, <1>2, SumLess DEF RowsAreNumbers
<1> QED
  BY <1>3 DEF Heavy

LEMMA BudgetNumbers ==
  ASSUME Sound, Sound'
  PROVE  /\ dials \in Nat /\ faults \in Nat /\ Air \in Nat /\ Heavy \in Nat
         /\ dials' \in Nat /\ faults' \in Nat /\ Air' \in Nat /\ Heavy' \in Nat
         /\ LongestChain \in Nat \ {0}
         /\ live \in [Attempts -> Nat] /\ live' \in [Attempts -> Nat]
<1>1. live \in [Attempts -> Nat] /\ live' \in [Attempts -> Nat]
  BY DEF Sound, NumbersOK, Attempts, LongestChain
<1>2. Air \in Nat
  BY <1>1, AirType
<1>3. Air' \in Nat
  BY AirTypeNext
<1> QED
  BY <1>1, <1>2, <1>3, HeavyType, HeavyTypeNext, ChainType DEF Sound, NumbersOK

(* What both sides of the bound become, as numbers. *)
LEMMA MorePaid ==
  ASSUME NEW d \in Nat, NEW f \in Nat, NEW ff \in Nat, NEW a \in Nat, NEW h \in Nat,
         NEW aa \in Nat, NEW hh \in Nat, NEW L \in Nat, d + a + h <= (d + f) * L,
         \/ ff \in {f, f + 1} /\ aa = a /\ hh <= h
         \/ ff = f + 1 /\ aa + hh <= a + h + L
  PROVE  d + aa + hh <= (d + ff) * L
<1>1. PICK n \in Nat : n = d + f
  OBVIOUS
<1>2. PICK k \in Nat : k = n * L
  BY TimesNext
<1>3. (n + 1) * L = k + L /\ d + a + h <= k
  BY <1>1, <1>2, TimesNext
<1>4. CASE ff = f + 1
  <2>1. d + ff = n + 1
    BY <1>1, <1>4
  <2>2. (d + ff) * L = k + L
    BY <1>3, <2>1
  <2>3. d + aa + hh <= k + L
    BY <1>2, <1>3
  <2> QED
    BY <2>2, <2>3
<1>5. CASE ff = f /\ aa = a /\ hh <= h
  <2>1. d + aa + hh <= k
    BY <1>2, <1>3, <1>5
  <2>2. (d + ff) * L = k
    BY <1>1, <1>2, <1>5
  <2> QED
    BY <2>1, <2>2
<1> QED
  BY <1>4, <1>5

LEMMA QuietBudget ==
  ASSUME Sound, Sound', Budgeted, Quiet
  PROVE  Budgeted'
<1>1. Air' = Air /\ dials' = dials /\ faults' \in {faults, faults + 1}
      /\ DOMAIN logs' = DOMAIN logs
  BY DEF Quiet, SameRows, Air, InTheAir
<1>2. Heavy' <= Heavy
  BY <1>1, WeightGrows, HeavyKept DEF Quiet, SameRows
<1>3. dials + Air' + Heavy' <= (dials + faults') * LongestChain
  BY <1>1, <1>2, BudgetNumbers, MorePaid, Zenon DEF Budgeted
<1> QED
  BY <1>1, <1>3 DEF Budgeted, LongestChain

(* A fault pays for whatever it costs, up to a chain. *)
LEMMA FaultBudget ==
  ASSUME Sound, Sound', Budgeted, dials' = dials, faults' = faults + 1,
         Air' + Heavy' <= Air + Heavy + LongestChain
  PROVE  Budgeted'
<1>1. dials + Air' + Heavy' <= (dials + faults') * LongestChain
  BY BudgetNumbers, MorePaid, Zenon DEF Budgeted
<1> QED
  BY <1>1 DEF Budgeted, LongestChain

LEMMA ExtraBudget ==
  ASSUME Sound, Sound', Budgeted, NEW q, Extra(q)
  PROVE  Budgeted'
<1>1. Air' = Air /\ DOMAIN logs' = DOMAIN logs /\ dials' = dials /\ faults' = faults + 1
  BY DEF Extra, SameRows, Air, InTheAir
<1>2. \A r \in DOMAIN logs : Permits(r) \in Nat /\ Permits(r)' \in Nat
  BY <1>1, RowsType, RowsTypeNext DEF RowsAreNumbers
<1>3. \A r \in DOMAIN logs \ {q} : Weight(r)' <= Weight(r)
  BY <1>1, <1>2, WeightGrows DEF Extra, SameRows
<1>4. Heavy' <= Heavy + LongestChain
  <2>1. CASE q \in DOMAIN logs
    <3>1. Weight(q)' <= Weight(q) + LongestChain
      BY <1>1, <1>2, <2>1, WeightGrows DEF Extra, SameRows
    <3>2. LongestChain \in Int
      BY ChainType
    <3> QED
      BY <1>1, <1>3, <2>1, <3>1, <3>2, HeavyGrows
  <2>2. CASE q \notin DOMAIN logs
    <3>1. Heavy' <= Heavy
      BY <1>1, <1>3, <2>2, HeavyKept
    <3> QED
      BY <3>1, BudgetNumbers
  <2> QED
    BY <2>1, <2>2
<1>5. Air' + Heavy' <= Air + Heavy + LongestChain
  BY <1>1, <1>4, BudgetNumbers
<1> QED
  BY <1>1, <1>5, FaultBudget

LEMMA CallsBudget ==
  ASSUME Sound, Sound', Budgeted, NEW q \in DOMAIN logs, NEW a \in Attempts, Calls(q, a)
  PROVE  Budgeted'
<1> DEFINE c == LongestChain - logs[q].called
           p == Permits(q)
           pp == Permits(q)'
           placed == logs[q].placed
<1>1. /\ DOMAIN logs' = DOMAIN logs /\ dials' = dials /\ logs'[q].called = logs[q].called
      /\ live' = [live EXCEPT ![a] = @ + 1] /\ logs'[q].placed = placed + 1
  BY DEF Calls, SameRows
<1>2. Air' = Air + (LongestChain - a)
  BY <1>1, BudgetNumbers, AirUp
<1>3. \A r \in DOMAIN logs \ {q} : Weight(r)' <= Weight(r)
  BY <1>1, WeightGrows DEF Calls, SameRows
<1>4. placed \in Nat /\ p \in Nat /\ pp \in Nat /\ c \in Nat /\ LongestChain \in Nat
      /\ LongestChain - a + 1 <= c /\ LongestChain - a + 1 <= LongestChain
      /\ LongestChain - a \in Nat
  BY <1>1, RowsType, RowsTypeNext, ChainType DEF RowsAreNumbers, Calls, Attempts
<1>5. Weight(q) = placed + p * c /\ Weight(q)' = (placed + 1) + pp * c
  BY <1>1 DEF Weight, LongestChain
<1>6. \/ faults' = faults /\ pp <= p - 1
      \/ faults' = faults + 1 /\ pp <= p
  BY DEF Calls
<1> HIDE DEF c, p, pp, placed
<1>7. CASE faults' = faults /\ pp <= p - 1
  <2>1. pp + 1 \in Nat /\ pp + 1 <= p
    BY <1>4, <1>7
  <2>2. (pp + 1) * c <= p * c /\ p * c \in Nat
    BY <1>4, <2>1, TimesLess
  <2>3. (pp + 1) * c = pp * c + c /\ pp * c \in Nat
    BY <1>4, TimesNext
  <2>4. Weight(q)' <= Weight(q) + (1 - c) /\ 1 - c \in Int
    BY <1>4, <1>5, <2>2, <2>3
  <2>5. Heavy' <= Heavy + (1 - c)
    BY <1>1, <1>3, <2>4, HeavyGrows
  <2>6. Air' + Heavy' <= Air + Heavy
    BY <1>2, <1>4, <2>5, BudgetNumbers
  <2>7. dials' = dials /\ faults' = faults /\ dials + Air + Heavy <= (dials + faults) * LongestChain
    BY <1>1, <1>7 DEF Budgeted
  <2>8. dials' + Air' + Heavy' <= (dials + faults) * LongestChain
    <3>1. (dials + faults) * LongestChain \in Nat
      <4>1. dials + faults \in Nat
        BY BudgetNumbers
      <4> QED
        BY <1>4, <4>1, TimesNext
    <3> QED
      BY <2>6, <2>7, <3>1, BudgetNumbers
  <2> QED
    BY <2>7, <2>8 DEF Budgeted, LongestChain
<1>8. CASE faults' = faults + 1 /\ pp <= p
  <2>1. pp * c <= p * c /\ p * c \in Nat /\ pp * c \in Nat
    BY <1>4, <1>8, TimesLess
  <2>2. Weight(q)' <= Weight(q) + 1
    BY <1>4, <1>5, <2>1
  <2>3. Heavy' <= Heavy + 1
    BY <1>1, <1>3, <2>2, HeavyGrows
  <2>4. Air' + Heavy' <= Air + Heavy + LongestChain
    BY <1>2, <1>4, <2>3, BudgetNumbers
  <2> QED
    BY <1>1, <1>8, <2>4, FaultBudget
<1> QED
  BY <1>6, <1>7, <1>8

LEMMA DialBudget ==
  ASSUME Sound, Sound', Budgeted, Dial
  PROVE  Budgeted'
<1> DEFINE L == LongestChain
<1>1. /\ dials' = dials + 1 /\ live' = [live EXCEPT ![1] = @ + 1] /\ logs' = logs
      /\ faults' = faults /\ \A r : Permits(r)' = Permits(r)
  BY DialFrame
<1>2. Heavy' = Heavy
  BY <1>1 DEF Heavy, WeightOf, Weight
<1>3. Air' = Air + (L - 1)
  <2>1. 1 \in Attempts
    BY ChainType DEF Attempts
  <2> QED
    BY <1>1, <2>1, BudgetNumbers, AirUp
<1>4. /\ dials \in Nat /\ faults \in Nat /\ Air \in Nat /\ Heavy \in Nat /\ L \in Nat
  BY BudgetNumbers
<1> HIDE DEF L
<1>5. ((dials + faults) + 1) * L = (dials + faults) * L + L /\ (dials + faults) * L \in Nat
  BY <1>4, TimesNext
<1>6. dials' + faults' = (dials + faults) + 1
  BY <1>1, <1>4
<1>7. dials + Air + Heavy <= (dials + faults) * L
  BY DEF Budgeted, L
<1>8. dials' + Air' + Heavy' <= (dials' + faults') * L
  BY <1>1, <1>2, <1>3, <1>4, <1>5, <1>6, <1>7
<1> QED
  BY <1>8 DEF Budgeted, L, LongestChain

LEMMA FinishBudget ==
  ASSUME Sound, Sound', Budgeted, NEW attempt \in Attempts, NEW outcome \in Outcomes,
         FinishCall(attempt, outcome)
  PROVE  Budgeted'
<1>1. RowsAreNumbers /\ RowsAreNumbers'
  BY RowsType, RowsTypeNext
<1>2. PICK n : n = Len(logs)
  OBVIOUS
<1>3. PICK m : m = n + 1
  OBVIOUS
<1>4. /\ DOMAIN logs' = DOMAIN logs \union {m} /\ m \notin DOMAIN logs
      /\ \A r \in DOMAIN logs : /\ logs'[r].placed = logs[r].placed
                                /\ logs'[r].called = logs[r].called
                                /\ Permits(r)' <= Permits(r)
      /\ logs'[m].placed = 0 /\ logs'[m].called = attempt /\ Permits(m)' \in {0, 1}
  BY <1>2, <1>3, FinishKind
<1>5. LongestChain - attempt \in Nat
  BY ChainType DEF Attempts
<1>6. Weight(m)' <= LongestChain - attempt /\ Weight(m)' \in Nat
  <2>1. Weight(m)' = 0 + Permits(m)' * (LongestChain - attempt)
    BY <1>4 DEF Weight, LongestChain
  <2>2. Weight(m)' \in Nat
    BY <1>1, <1>4 DEF RowsAreNumbers
  <2> QED
    BY <1>4, <1>5, <2>1, <2>2
<1> DEFINE D == DOMAIN logs
           old == [r \in D |-> Weight(r)']
<1>7. \A r \in D : Weight(r)' <= Weight(r)
  BY <1>4, WeightGrows
<1>8. /\ \A r \in D : WeightOf[r] = Weight(r) /\ WeightOf'[r] = Weight(r)' /\ old[r] = Weight(r)'
      /\ WeightOf'[m] = Weight(m)'
      /\ \A r \in D : WeightOf[r] \in Int /\ old[r] \in Int
  BY <1>1, <1>4 DEF WeightOf, RowsAreNumbers
<1>9. SumFunctionOnSet(old, D) <= SumFunctionOnSet(WeightOf, D)
  BY <1>1, <1>7, <1>8, SumLess DEF RowsAreNumbers
<1> HIDE DEF old
<1>10. SumFunctionOnSet(WeightOf', D \union {m}) = SumFunctionOnSet(old, D) + WeightOf'[m]
  BY <1>1, <1>4, <1>6, <1>8, SumAdded DEF RowsAreNumbers
<1>11. SumFunctionOnSet(old, D) \in Int /\ SumFunctionOnSet(WeightOf, D) \in Int
  BY <1>1, <1>8, SumType DEF RowsAreNumbers
<1>12. Heavy' <= Heavy + (LongestChain - attempt)
  <2>1. Heavy' = SumFunctionOnSet(WeightOf', D \union {m}) /\ Heavy = SumFunctionOnSet(WeightOf, D)
    BY <1>4 DEF Heavy
  <2> QED
    BY <1>5, <1>6, <1>8, <1>9, <1>10, <1>11, <2>1
<1>13. Air' = Air - (LongestChain - attempt)
  BY BudgetNumbers, AirDown DEF FinishCall
<1>14. dials' = dials /\ faults' = faults /\ dials + Air + Heavy <= (dials + faults) * LongestChain
  BY DEF FinishCall, Budgeted
<1>15. dials' + Air' + Heavy' <= (dials + faults) * LongestChain
  <2>1. (dials + faults) * LongestChain \in Nat
    <3>1. dials + faults \in Nat /\ LongestChain \in Nat
      BY BudgetNumbers
    <3> QED
      BY <3>1, TimesNext
  <2> QED
    BY <1>5, <1>12, <1>13, <1>14, <2>1, BudgetNumbers
<1> QED
  BY <1>14, <1>15 DEF Budgeted, LongestChain

LEMMA BudgetInit ==
  ASSUME RedialInit
  PROVE  Budgeted
<1>1. DOMAIN logs = {} /\ faults = 0 /\ dials = 0 /\ live = [a \in Attempts |-> 0]
  BY DEF RedialInit
<1>2. Heavy = 0
  BY <1>1, SumEmpty DEF Heavy
<1>3. Air = 0
  <2>1. \A a \in Attempts : InTheAir[a] = 0
    BY <1>1, ChainType DEF InTheAir, Attempts
  <2>2. IsFiniteSet(Attempts)
    BY ChainType, FS_Interval DEF Attempts
  <2> QED
    BY <2>1, <2>2, SumZero DEF Air
<1>4. (dials + faults) * LongestChain = 0
  BY <1>1, ChainType
<1> QED
  BY <1>1, <1>2, <1>3, <1>4 DEF Budgeted

LEMMA BudgetNext ==
  ASSUME Sound, Sound', Budgeted, [RedialNext]_vars
  PROVE  Budgeted'
<1>1. CASE StepKind
  BY <1>1, QuietBudget, ExtraBudget, CallsBudget DEF StepKind
<1>2. CASE \E attempt \in Attempts, outcome \in Outcomes : FinishCall(attempt, outcome)
  BY <1>2, FinishBudget
<1> QED
  BY <1>1, <1>2, NextKind, DialBudget

LEMMA BudgetSuffices ==
  ASSUME Sound, Budgeted
  PROVE  CallsAreBounded
<1> DEFINE p == [r \in DOMAIN logs |-> logs[r].placed]
<1>1. RowsAreNumbers
  BY RowsType
<1>2. \A r \in DOMAIN logs : p[r] <= WeightOf[r] /\ p[r] \in Int /\ WeightOf[r] \in Int
  <2>1. \A x, y \in Nat : x * y \in Nat
    OBVIOUS
  <2>2. ASSUME NEW r \in DOMAIN logs PROVE logs[r].placed <= Weight(r)
    <3>1. Permits(r) * (LongestChain - logs[r].called) \in Nat
      BY <1>1, <2>1 DEF RowsAreNumbers
    <3> QED
      BY <1>1, <3>1 DEF RowsAreNumbers, Weight
  <2> QED
    BY <1>1, <2>2 DEF RowsAreNumbers, WeightOf
<1>3. SumFunctionOnSet(p, DOMAIN logs) <= SumFunctionOnSet(WeightOf, DOMAIN logs)
  BY <1>1, <1>2, SumLess DEF RowsAreNumbers
<1>4. SumFunctionOnSet(p, DOMAIN logs) \in Int
  BY <1>1, <1>2, SumType DEF RowsAreNumbers
<1>5. Redials <= Heavy /\ Redials \in Int
  BY <1>3, <1>4 DEF Redials, Heavy
<1>6. Heavy \in Nat /\ Air \in Nat /\ dials \in Nat /\ faults \in Nat /\ LongestChain \in Nat
  BY HeavyType, AirType, ChainType DEF Sound, NumbersOK
<1>7. (dials + faults) * LongestChain \in Nat
  <2>1. dials + faults \in Nat
    BY <1>6
  <2> QED
    BY <1>6, <2>1, TimesNext
<1> QED
  BY <1>5, <1>6, <1>7 DEF Budgeted, CallsAreBounded

(* However long it is redialled, a number is called at most as often as the   *)
(* chains that were started allow, and one chain more for every fault:      *)
(* failed placements, callbacks, parallel chains and stale rows included.   *)
THEOREM ChainsAreBounded == RedialSpec => []CallsAreBounded
<1>1. RedialInit => Sound /\ Budgeted
  BY SoundInit, BudgetInit
<1>2. Sound /\ Budgeted /\ [RedialNext]_vars => (Sound /\ Budgeted)'
  BY SoundNext, BudgetNext
<1>3. Sound /\ Budgeted => CallsAreBounded
  BY BudgetSuffices
<1> QED
  BY <1>1, <1>2, <1>3, PTL DEF RedialSpec

==============================================================================
