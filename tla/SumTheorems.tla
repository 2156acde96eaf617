---------------------------- MODULE SumTheorems ----------------------------
(***************************************************************************)
(* Sums over finite sets: what SumFunction and SumFunctionOnSet of the     *)
(* community modules add up. The tables keep totals (positions, exposure,  *)
(* prepaid and postpaid units, amounts of invoices) next to the rows they  *)
(* are totals of, and the invariants that relate the two are about such    *)
(* sums. The fold of the library is defined by a CHOOSE of the element to  *)
(* add next; these lemmas show that the choice does not matter.            *)
(***************************************************************************)
EXTENDS Functions, FiniteSetTheorems, WellFoundedInduction, TLAPS

(* A set of numbers has a least one.                                        *)
LEMMA NatLeast ==
  ASSUME NEW T \in SUBSET Nat, T # {}
  PROVE  \E m \in T : \A n \in T : m <= n
<1> DEFINE R == {ss \in Nat \X Nat : ss[1] < ss[2]}
<1>0. OpToRel(<, Nat) = R
  BY Zenon DEF OpToRel
<1>1. IsWellFoundedOn(R, Nat)
  BY <1>0, NatLessThanWellFounded, Zenon
<1>2. PICK m \in T : \A n \in T : ~ (<<n, m>> \in R)
  BY <1>1, WFMin, Zenon
<1>3. ASSUME NEW n \in T PROVE m <= n
  <2>1. ~ (<<n, m>> \in R) /\ m \in Nat /\ n \in Nat
    BY <1>2, <1>3, Zenon
  <2> QED
    BY <2>1
<1> QED
  BY <1>3

(* Induction over the numbers, for a set that collects them: an operator    *)
(* cannot be an argument of a lemma here.                                   *)
LEMMA NatSetInduction ==
  ASSUME NEW T, 0 \in T, \A n \in Nat : n \in T => n + 1 \in T
  PROVE  Nat \subseteq T
<1> SUFFICES ASSUME Nat \ T # {}
             PROVE  FALSE
  OBVIOUS
<1>1. PICK m \in Nat \ T : \A n \in Nat \ T : m <= n
  BY NatLeast
<1>2. m # 0 /\ m - 1 \in Nat
  BY <1>1
<1>3. m - 1 \in T
  BY <1>1, <1>2
<1> QED
  BY <1>1, <1>2, <1>3

(* The recursion by which the fold of the library adds f up on the sets of D. *)
Recurs(g, f, D) ==
  g = [s \in D |-> IF s = {} THEN 0
                   ELSE LET x == CHOOSE x \in s : TRUE IN f[x] + g[s \ {x}]]
SumsUp(g, f, S) == Recurs(g, f, SUBSET S)

(* The sum of the library is the value at S of a function that satisfies    *)
(* the recursion, if there is one.                                          *)
LEMMA SumIsRecursive ==
  ASSUME NEW f, NEW S
  PROVE  SumFunctionOnSet(f, S) = (CHOOSE g : SumsUp(g, f, S))[S]
  BY DEF SumFunctionOnSet, FoldFunctionOnSet, MapThenFoldSet, SumsUp, Recurs

(* The subsets of at most n elements.                                       *)
Upto(S, n) == {s \in SUBSET S : Cardinality(s) <= n}

(* Taking an element out leads to the subsets that are smaller by one.      *)
LEMMA OneTaken ==
  ASSUME NEW S, IsFiniteSet(S), NEW n \in Nat, NEW s \in Upto(S, n + 1), NEW x \in s
  PROVE  /\ s \ {x} \in Upto(S, n)
         /\ Cardinality(s \ {x}) = Cardinality(s) - 1
         /\ Cardinality(s \ {x}) \in Nat
<1>1. IsFiniteSet(s)
  BY FS_Subset DEF Upto
<1>2. Cardinality(s) \in Nat /\ Cardinality(s \ {x}) = Cardinality(s) - 1
  BY <1>1, FS_RemoveElement, FS_CardinalityType
<1>3. IsFiniteSet(s \ {x}) /\ Cardinality(s \ {x}) \in Nat
  BY <1>1, FS_Subset, FS_CardinalityType
<1> QED
  BY <1>2, <1>3 DEF Upto

(* There is such a function: it is built up by the size of the subsets.     *)
LEMMA RecursExists ==
  ASSUME NEW f, NEW S, IsFiniteSet(S)
  PROVE  \E g : SumsUp(g, f, S)
<1> DEFINE T == {n \in Nat : \E g : Recurs(g, f, Upto(S, n))}
<1>1. 0 \in T
  <2> DEFINE g == [s \in Upto(S, 0) |-> 0]
  <2>1. \A s \in Upto(S, 0) : s = {}
    BY FS_Subset, FS_EmptySet, FS_CardinalityType DEF Upto
  <2>2. Recurs(g, f, Upto(S, 0))
    BY <2>1 DEF Recurs
  <2> QED
    BY <2>2
<1>2. ASSUME NEW n \in Nat, n \in T PROVE n + 1 \in T
  <2>1. PICK g : Recurs(g, f, Upto(S, n))
    BY <1>2
  <2> DEFINE h == [s \in Upto(S, n + 1) |-> IF s = {} THEN 0
                   ELSE LET x == CHOOSE x \in s : TRUE IN f[x] + g[s \ {x}]]
  <2>2. Upto(S, n) \subseteq Upto(S, n + 1)
    BY FS_Subset, FS_CardinalityType DEF Upto
  <2>3. \A s \in Upto(S, n) : h[s] = g[s]
    BY <2>1, <2>2 DEF Recurs
  <2>4. ASSUME NEW s \in Upto(S, n + 1), s # {}
        PROVE  LET x == CHOOSE x \in s : TRUE IN g[s \ {x}] = h[s \ {x}]
    <3> DEFINE x == CHOOSE x \in s : TRUE
    <3>1. x \in s
      BY <2>4
    <3>2. s \ {x} \in Upto(S, n)
      BY <3>1, OneTaken
    <3> QED
      BY <2>3, <3>2
  <2> DEFINE next(s) == IF s = {} THEN 0
                        ELSE LET x == CHOOSE x \in s : TRUE IN f[x] + h[s \ {x}]
  <2>5. Recurs(h, f, Upto(S, n + 1))
    <3>1. ASSUME NEW s \in Upto(S, n + 1) PROVE h[s] = next(s)
      <4>1. CASE s = {}
        BY <4>1
      <4>2. CASE s # {}
        <5> DEFINE x == CHOOSE x \in s : TRUE
        <5>1. g[s \ {x}] = h[s \ {x}]
          BY <2>4, <4>2
        <5>2. h[s] = f[x] + g[s \ {x}]
          BY <4>2
        <5>3. next(s) = f[x] + h[s \ {x}]
          BY <4>2, Zenon
        <5> QED
          BY <5>1, <5>2, <5>3, Zenon
      <4> QED
        BY <4>1, <4>2
    <3>2. h = [s \in Upto(S, n + 1) |-> h[s]]
      OBVIOUS
    <3> HIDE DEF h, next
    <3>3. h = [s \in Upto(S, n + 1) |-> next(s)]
      BY <3>1, <3>2
    <3> QED
      BY <3>3 DEF Recurs, next
  <2> QED
    BY <2>5
<1> HIDE DEF T
<1>3. Nat \subseteq T
  BY <1>1, <1>2, NatSetInduction
<1>4. Cardinality(S) \in Nat /\ Upto(S, Cardinality(S)) = SUBSET S
  BY FS_CardinalityType, FS_Subset DEF Upto
<1> QED
  BY <1>3, <1>4 DEF T, SumsUp

(* Two of them, for f and h and for different sets of subsets, agree where  *)
(* f and h do.                                                              *)
LEMMA RecursAgree ==
  ASSUME NEW f, NEW h, NEW S, IsFiniteSet(S), NEW A, S \subseteq A,
         NEW a, NEW b, SumsUp(a, f, A), SumsUp(b, h, S),
         \A x \in S : f[x] = h[x]
  PROVE  a[S] = b[S]
<1> DEFINE T == {n \in Nat : \A s \in Upto(S, n) : a[s] = b[s]}
<1>1. 0 \in T
  <2>1. \A s \in Upto(S, 0) : s = {}
    BY FS_Subset, FS_EmptySet, FS_CardinalityType DEF Upto
  <2> QED
    BY <2>1 DEF SumsUp, Recurs
<1>2. ASSUME NEW n \in Nat, n \in T PROVE n + 1 \in T
  <2>1. ASSUME NEW s \in Upto(S, n + 1), s # {} PROVE a[s] = b[s]
    <3> DEFINE x == CHOOSE x \in s : TRUE
    <3>1. x \in s /\ s \in SUBSET S
      BY <2>1 DEF Upto
    <3>2. s \ {x} \in Upto(S, n)
      BY <3>1, OneTaken
    <3>3. a[s \ {x}] = b[s \ {x}] /\ f[x] = h[x]
      BY <1>2, <3>1, <3>2
    <3>4. s \in SUBSET A
      BY <3>1
    <3>5. a[s] = f[x] + a[s \ {x}]
      BY <2>1, <3>1, <3>4 DEF SumsUp, Recurs
    <3>6. b[s] = h[x] + b[s \ {x}]
      BY <2>1, <3>1, <3>4 DEF SumsUp, Recurs
    <3> QED
      BY <3>3, <3>5, <3>6
  <2>2. a[{}] = 0 /\ b[{}] = 0
    BY DEF SumsUp, Recurs
  <2>3. \A s \in Upto(S, n + 1) : a[s] = b[s]
    BY <2>1, <2>2
  <2> QED
    BY <2>3
<1> HIDE DEF T
<1>3. Nat \subseteq T
  BY <1>1, <1>2, NatSetInduction
<1>4. Cardinality(S) \in Nat /\ S \in Upto(S, Cardinality(S))
  BY FS_CardinalityType DEF Upto
<1> QED
  BY <1>3, <1>4 DEF T

(* Hence any of them gives the sum, of every subset.                        *)
LEMMA SumUnfolds ==
  ASSUME NEW f, NEW S, IsFiniteSet(S), NEW g, SumsUp(g, f, S), NEW s, s \subseteq S
  PROVE  SumFunctionOnSet(f, s) = g[s]
<1> DEFINE h == CHOOSE h : SumsUp(h, f, s)
<1>1. IsFiniteSet(s)
  BY FS_Subset
<1>2. SumsUp(h, f, s)
  BY <1>1, RecursExists
<1> HIDE DEF h
<1>3. g[s] = h[s]
  <2>1. ASSUME NEW e, NEW b, SumsUp(b, e, s), \A x \in s : f[x] = e[x]
        PROVE  g[s] = b[s]
    BY <1>1, <2>1, RecursAgree
  <2> QED
    BY <1>2, <2>1
<1> QED
  BY <1>3, SumIsRecursive DEF h

(* Only the values on the set count.                                         *)
LEMMA SumEqual ==
  ASSUME NEW f, NEW h, NEW S, IsFiniteSet(S), \A x \in S : f[x] = h[x]
  PROVE  SumFunctionOnSet(f, S) = SumFunctionOnSet(h, S)
<1>1. PICK a : SumsUp(a, f, S)
  BY RecursExists
<1>2. PICK b : SumsUp(b, h, S)
  BY RecursExists
<1>3. a[S] = b[S]
  BY <1>1, <1>2, RecursAgree
<1> QED
  BY <1>1, <1>2, <1>3, SumUnfolds

(* Nothing adds up to 0.                                                    *)
LEMMA SumEmpty ==
  ASSUME NEW f
  PROVE  SumFunctionOnSet(f, {}) = 0
<1>1. IsFiniteSet({})
  BY FS_EmptySet
<1>2. PICK a : SumsUp(a, f, {})
  BY <1>1, RecursExists
<1>3. a[{}] = 0
  BY <1>2 DEF SumsUp, Recurs
<1>4. {} \subseteq {}
  OBVIOUS
<1>5. SumFunctionOnSet(f, {}) = a[{}]
  BY <1>1, <1>2, <1>4, SumUnfolds
<1> QED
  BY <1>3, <1>5

(* Some element, the one the fold chooses, may be taken out.                *)
LEMMA SumChoice ==
  ASSUME NEW f, NEW S, IsFiniteSet(S), S # {}
  PROVE  \E c \in S : SumFunctionOnSet(f, S) = f[c] + SumFunctionOnSet(f, S \ {c})
<1>1. PICK a : SumsUp(a, f, S)
  BY RecursExists
<1> DEFINE c == CHOOSE c \in S : TRUE
<1>2. c \in S
  OBVIOUS
<1>3. a[S] = f[c] + a[S \ {c}]
  BY <1>1 DEF SumsUp, Recurs
<1> HIDE DEF c
<1>4. SumFunctionOnSet(f, S) = a[S] /\ SumFunctionOnSet(f, S \ {c}) = a[S \ {c}]
  BY <1>1, SumUnfolds
<1> QED
  BY <1>2, <1>3, <1>4

(* The sum of integers is an integer.                                        *)
LEMMA SumType ==
  ASSUME NEW f, NEW S, IsFiniteSet(S), \A x \in S : f[x] \in Int
  PROVE  SumFunctionOnSet(f, S) \in Int
<1> DEFINE T == {n \in Nat : \A s \in Upto(S, n) : SumFunctionOnSet(f, s) \in Int}
<1>1. 0 \in T
  <2>1. \A s \in Upto(S, 0) : s = {}
    BY FS_Subset, FS_EmptySet, FS_CardinalityType DEF Upto
  <2>2. SumFunctionOnSet(f, {}) \in Int
    BY SumEmpty
  <2> QED
    BY <2>1, <2>2
<1>2. ASSUME NEW n \in Nat, n \in T PROVE n + 1 \in T
  <2>1. ASSUME NEW s \in Upto(S, n + 1), s # {} PROVE SumFunctionOnSet(f, s) \in Int
    <3>1. IsFiniteSet(s) /\ s \subseteq S
      BY FS_Subset DEF Upto
    <3>2. PICK c \in s : SumFunctionOnSet(f, s) = f[c] + SumFunctionOnSet(f, s \ {c})
      BY <2>1, <3>1, SumChoice
    <3>3. s \ {c} \in Upto(S, n)
      BY OneTaken
    <3>4. SumFunctionOnSet(f, s \ {c}) \in Int
      BY <1>2, <3>3
    <3> QED
      BY <3>1, <3>2, <3>4
  <2>2. SumFunctionOnSet(f, {}) \in Int
    BY SumEmpty
  <2>3. \A s \in Upto(S, n + 1) : SumFunctionOnSet(f, s) \in Int
    BY <2>1, <2>2
  <2> QED
    BY <2>3
<1> HIDE DEF T
<1>3. Nat \subseteq T
  BY <1>1, <1>2, NatSetInduction
<1>4. Cardinality(S) \in Nat /\ S \in Upto(S, Cardinality(S))
  BY FS_CardinalityType DEF Upto
<1> QED
  BY <1>3, <1>4 DEF T

(* Any element may be taken out.                                             *)
LEMMA SumTake ==
  ASSUME NEW f, NEW S, IsFiniteSet(S), \A x \in S : f[x] \in Int, NEW e \in S
  PROVE  SumFunctionOnSet(f, S) = f[e] + SumFunctionOnSet(f, S \ {e})
<1> DEFINE Sum(s) == SumFunctionOnSet(f, s)
           T == {n \in Nat : \A s \in Upto(S, n) : \A x \in s : Sum(s) = f[x] + Sum(s \ {x})}
<1>0. \A s \in SUBSET S : Sum(s) \in Int
  BY FS_Subset, SumType
<1>1. 0 \in T
  <2>1. \A s \in Upto(S, 0) : s = {}
    BY FS_Subset, FS_EmptySet, FS_CardinalityType DEF Upto
  <2> QED
    BY <2>1
<1>2. ASSUME NEW n \in Nat, n \in T PROVE n + 1 \in T
  <2>1. ASSUME NEW s \in Upto(S, n + 1), NEW x \in s PROVE Sum(s) = f[x] + Sum(s \ {x})
    <3>1. IsFiniteSet(s) /\ s \in SUBSET S
      BY FS_Subset DEF Upto
    <3>2. PICK c \in s : Sum(s) = f[c] + Sum(s \ {c})
      BY <3>1, SumChoice
    <3>3. CASE c # x
      <4>1. s \ {c} \in Upto(S, n) /\ s \ {x} \in Upto(S, n)
        BY OneTaken
      <4>2. Sum(s \ {c}) = f[x] + Sum((s \ {c}) \ {x})
        BY <1>2, <3>3, <4>1
      <4>3. Sum(s \ {x}) = f[c] + Sum((s \ {x}) \ {c})
        BY <1>2, <3>3, <4>1
      <4>4. (s \ {c}) \ {x} = (s \ {x}) \ {c}
        OBVIOUS
      <4>5. f[x] \in Int /\ f[c] \in Int /\ Sum((s \ {x}) \ {c}) \in Int
        BY <1>0, <3>1
      <4>6. Sum((s \ {c}) \ {x}) = Sum((s \ {x}) \ {c})
        BY <4>4
      <4> QED
        BY <3>2, <4>2, <4>3, <4>5, <4>6
    <3> QED
      BY <3>2, <3>3
  <2> QED
    BY <2>1
<1> HIDE DEF T
<1>3. Nat \subseteq T
  BY <1>1, <1>2, NatSetInduction
<1>4. Cardinality(S) \in Nat /\ S \in Upto(S, Cardinality(S))
  BY FS_CardinalityType DEF Upto
<1> QED
  BY <1>3, <1>4 DEF T

(* Induction over the subsets of a finite set, which are built element by     *)
(* element.                                                                  *)
LEMMA SubsetInduction ==
  ASSUME NEW S, IsFiniteSet(S), NEW T, {} \in T,
         \A s \in SUBSET S : s \in T => \A x \in S \ s : s \union {x} \in T
  PROVE  S \in T
<1> DEFINE N == {n \in Nat : \A s \in Upto(S, n) : s \in T}
<1>1. 0 \in N
  <2>1. \A s \in Upto(S, 0) : s = {}
    BY FS_Subset, FS_EmptySet, FS_CardinalityType DEF Upto
  <2> QED
    BY <2>1
<1>2. ASSUME NEW n \in Nat, n \in N PROVE n + 1 \in N
  <2>1. ASSUME NEW s \in Upto(S, n + 1) PROVE s \in T
    <3>1. CASE s = {}
      BY <3>1
    <3>2. CASE s # {}
      <4>1. PICK x \in s : TRUE
        BY <3>2
      <4>2. s \ {x} \in Upto(S, n)
        BY OneTaken
      <4>3. s \ {x} \in T /\ s \ {x} \in SUBSET S /\ x \in S \ (s \ {x})
        BY <1>2, <4>2 DEF Upto
      <4>4. (s \ {x}) \union {x} = s
        OBVIOUS
      <4> QED
        BY <4>3, <4>4
    <3> QED
      BY <3>1, <3>2
  <2> QED
    BY <2>1
<1> HIDE DEF N
<1>3. Nat \subseteq N
  BY <1>1, <1>2, NatSetInduction
<1>4. Cardinality(S) \in Nat /\ S \in Upto(S, Cardinality(S))
  BY FS_CardinalityType DEF Upto
<1> QED
  BY <1>3, <1>4 DEF N

(* One more element.                                                         *)
LEMMA SumAdded ==
  ASSUME NEW f, NEW h, NEW S, IsFiniteSet(S), \A x \in S : f[x] \in Int,
         \A x \in S : h[x] = f[x], NEW e, e \notin S, h[e] \in Int
  PROVE  SumFunctionOnSet(h, S \union {e}) = SumFunctionOnSet(f, S) + h[e]
<1> DEFINE U == S \union {e}
<1>1. IsFiniteSet(U)
  BY FS_AddElement
<1>2. \A x \in U : h[x] \in Int
  OBVIOUS
<1>3. SumFunctionOnSet(h, U) = h[e] + SumFunctionOnSet(h, U \ {e})
  BY <1>1, <1>2, SumTake
<1>4. U \ {e} = S
  OBVIOUS
<1>5. SumFunctionOnSet(h, S) = SumFunctionOnSet(f, S)
  BY SumEqual
<1>6. SumFunctionOnSet(f, S) \in Int
  BY SumType
<1> HIDE DEF U
<1>7. SumFunctionOnSet(h, U) = h[e] + SumFunctionOnSet(f, S)
  BY <1>3, <1>4, <1>5
<1> QED
  BY <1>6, <1>7 DEF U

(* One element changes.                                                      *)
LEMMA SumChanged ==
  ASSUME NEW f, NEW h, NEW S, IsFiniteSet(S), \A x \in S : f[x] \in Int, NEW e \in S,
         \A x \in S \ {e} : h[x] = f[x], h[e] \in Int
  PROVE  SumFunctionOnSet(h, S) = SumFunctionOnSet(f, S) - f[e] + h[e]
<1> DEFINE R == S \ {e}
<1>1. IsFiniteSet(R)
  BY FS_Subset
<1>2. SumFunctionOnSet(f, S) = f[e] + SumFunctionOnSet(f, R)
  BY SumTake
<1>3. \A x \in S : h[x] \in Int
  OBVIOUS
<1>4. SumFunctionOnSet(h, S) = h[e] + SumFunctionOnSet(h, R)
  BY <1>3, SumTake
<1>5. SumFunctionOnSet(h, R) = SumFunctionOnSet(f, R)
  BY <1>1, SumEqual
<1>6. SumFunctionOnSet(f, R) \in Int
  BY <1>1, SumType
<1> QED
  BY <1>2, <1>4, <1>5, <1>6

(* Smaller values have a smaller sum.                                        *)
LEMMA SumLess ==
  ASSUME NEW f, NEW h, NEW S, IsFiniteSet(S), \A x \in S : f[x] \in Int /\ h[x] \in Int,
         \A x \in S : f[x] <= h[x]
  PROVE  SumFunctionOnSet(f, S) <= SumFunctionOnSet(h, S)
<1> DEFINE T == {s \in SUBSET S : SumFunctionOnSet(f, s) <= SumFunctionOnSet(h, s)}
<1>1. {} \in T
  BY SumEmpty
<1>2. ASSUME NEW s \in SUBSET S, s \in T, NEW x \in S \ s PROVE s \union {x} \in T
  <2>1. IsFiniteSet(s)
    BY FS_Subset
  <2>2. SumFunctionOnSet(f, s \union {x}) = SumFunctionOnSet(f, s) + f[x]
    BY <2>1, SumAdded
  <2>3. SumFunctionOnSet(h, s \union {x}) = SumFunctionOnSet(h, s) + h[x]
    BY <2>1, SumAdded
  <2>4. SumFunctionOnSet(f, s) \in Int /\ SumFunctionOnSet(h, s) \in Int
    BY <2>1, SumType
  <2> QED
    BY <1>2, <2>2, <2>3, <2>4
<1> HIDE DEF T
<1>3. S \in T
  BY <1>1, <1>2, SubsetInduction
<1> QED
  BY <1>3 DEF T

(* The sum of zeroes.                                                        *)
LEMMA SumZero ==
  ASSUME NEW f, NEW S, IsFiniteSet(S), \A x \in S : f[x] = 0
  PROVE  SumFunctionOnSet(f, S) = 0
<1> DEFINE T == {s \in SUBSET S : SumFunctionOnSet(f, s) = 0}
<1>1. {} \in T
  BY SumEmpty
<1>2. ASSUME NEW s \in SUBSET S, s \in T, NEW x \in S \ s PROVE s \union {x} \in T
  <2>1. IsFiniteSet(s) /\ \A y \in s : f[y] \in Int
    BY FS_Subset
  <2>2. SumFunctionOnSet(f, s \union {x}) = SumFunctionOnSet(f, s) + f[x]
    BY <2>1, SumAdded
  <2> QED
    BY <1>2, <2>2
<1> HIDE DEF T
<1>3. S \in T
  BY <1>1, <1>2, SubsetInduction
<1> QED
  BY <1>3 DEF T

(* The sum of natural numbers, and of a part of them.                        *)
LEMMA SumNat ==
  ASSUME NEW f, NEW S, IsFiniteSet(S), \A x \in S : f[x] \in Nat
  PROVE  SumFunctionOnSet(f, S) \in Nat
<1> DEFINE z == [x \in S |-> 0]
<1>1. SumFunctionOnSet(z, S) = 0
  BY SumZero
<1>2. SumFunctionOnSet(z, S) <= SumFunctionOnSet(f, S)
  BY SumLess
<1>3. SumFunctionOnSet(f, S) \in Int
  BY SumType
<1> QED
  BY <1>1, <1>2, <1>3

(* Two disjoint sets.                                                        *)
LEMMA SumUnion ==
  ASSUME NEW f, NEW A, NEW B, IsFiniteSet(A), IsFiniteSet(B), A \intersect B = {},
         \A x \in A \union B : f[x] \in Int
  PROVE  SumFunctionOnSet(f, A \union B) = SumFunctionOnSet(f, A) + SumFunctionOnSet(f, B)
<1> DEFINE T == {s \in SUBSET B : SumFunctionOnSet(f, A \union s)
                                    = SumFunctionOnSet(f, A) + SumFunctionOnSet(f, s)}
<1>0. SumFunctionOnSet(f, A) \in Int
  BY SumType
<1>1. {} \in T
  <2>1. A \union {} = A
    OBVIOUS
  <2> QED
    BY <1>0, <2>1, SumEmpty
<1>2. ASSUME NEW s \in SUBSET B, s \in T, NEW x \in B \ s PROVE s \union {x} \in T
  <2>1. IsFiniteSet(s) /\ IsFiniteSet(A \union s)
    BY FS_Subset, FS_Union
  <2>2. SumFunctionOnSet(f, s \union {x}) = SumFunctionOnSet(f, s) + f[x]
    BY <2>1, SumAdded
  <2>3. x \notin A \union s /\ A \union (s \union {x}) = (A \union s) \union {x}
    OBVIOUS
  <2>4. SumFunctionOnSet(f, (A \union s) \union {x}) = SumFunctionOnSet(f, A \union s) + f[x]
    BY <2>1, <2>3, SumAdded
  <2>5. SumFunctionOnSet(f, s) \in Int /\ f[x] \in Int
    BY <2>1, SumType
  <2>6. SumFunctionOnSet(f, A \union s) = SumFunctionOnSet(f, A) + SumFunctionOnSet(f, s)
    BY <1>2
  <2> DEFINE t == s \union {x}
  <2>7. SumFunctionOnSet(f, A \union t) = SumFunctionOnSet(f, A \union s) + f[x]
    BY <2>3, <2>4
  <2>8. SumFunctionOnSet(f, t) = SumFunctionOnSet(f, s) + f[x] /\ t \in SUBSET B
    BY <2>2
  <2> HIDE DEF t
  <2>9. SumFunctionOnSet(f, A \union t) = SumFunctionOnSet(f, A) + SumFunctionOnSet(f, t)
    BY <1>0, <2>5, <2>6, <2>7, <2>8
  <2>10. t \in T
    BY <2>8, <2>9
  <2> QED
    BY <2>10 DEF t
<1> HIDE DEF T
<1>3. B \in T
  BY <1>1, <1>2, SubsetInduction
<1> QED
  BY <1>3 DEF T

(* One value is its own sum.                                                *)
LEMMA SumSingle ==
  ASSUME NEW f, NEW x, f[x] \in Int
  PROVE  SumFunctionOnSet(f, {x}) = f[x]
<1> DEFINE S == {x}
<1>1. IsFiniteSet(S) /\ S # {}
  BY FS_Singleton
<1> HIDE DEF S
<1>2. PICK c \in S : SumFunctionOnSet(f, S) = f[c] + SumFunctionOnSet(f, S \ {c})
  BY <1>1, SumChoice
<1>3. c = x /\ S \ {c} = {}
  BY <1>2 DEF S
<1> QED
  BY <1>2, <1>3, SumEmpty DEF S

(* The sum of the sums is the sum of the pairs.                             *)
LEMMA SumPlus ==
  ASSUME NEW f, NEW g, NEW h, NEW S, IsFiniteSet(S),
         \A x \in S : f[x] \in Int /\ g[x] \in Int /\ h[x] = f[x] + g[x]
  PROVE  SumFunctionOnSet(h, S) = SumFunctionOnSet(f, S) + SumFunctionOnSet(g, S)
<1> DEFINE T == {s \in SUBSET S : SumFunctionOnSet(h, s)
                                    = SumFunctionOnSet(f, s) + SumFunctionOnSet(g, s)}
<1>1. {} \in T
  BY SumEmpty
<1>2. ASSUME NEW s \in SUBSET S, s \in T, NEW x \in S \ s PROVE s \union {x} \in T
  <2> DEFINE t == s \union {x}
  <2>1. IsFiniteSet(s) /\ \A y \in S : h[y] \in Int
    BY FS_Subset
  <2>2. SumFunctionOnSet(f, t) = SumFunctionOnSet(f, s) + f[x]
    BY <2>1, SumAdded
  <2>3. SumFunctionOnSet(g, t) = SumFunctionOnSet(g, s) + g[x]
    BY <2>1, SumAdded
  <2>4. SumFunctionOnSet(h, t) = SumFunctionOnSet(h, s) + h[x]
    BY <2>1, SumAdded
  <2>5. SumFunctionOnSet(f, s) \in Int /\ SumFunctionOnSet(g, s) \in Int
    BY <2>1, SumType
  <2>6. t \in SUBSET S
    OBVIOUS
  <2> HIDE DEF t
  <2>7. SumFunctionOnSet(h, t) = SumFunctionOnSet(f, t) + SumFunctionOnSet(g, t)
    BY <1>2, <2>2, <2>3, <2>4, <2>5
  <2>8. t \in T
    BY <2>6, <2>7
  <2> QED
    BY <2>8 DEF t
<1> HIDE DEF T
<1>3. S \in T
  BY <1>1, <1>2, SubsetInduction
<1> QED
  BY <1>3 DEF T

(* Zeros add nothing.                                                       *)
LEMMA SumSupport ==
  ASSUME NEW f, NEW S, IsFiniteSet(S), NEW A \in SUBSET S,
         \A x \in A : f[x] \in Int, \A x \in S \ A : f[x] = 0
  PROVE  SumFunctionOnSet(f, S) = SumFunctionOnSet(f, A)
<1> DEFINE B == S \ A
<1>1. IsFiniteSet(A) /\ IsFiniteSet(B)
  BY FS_Subset
<1>2. SumFunctionOnSet(f, B) = 0
  BY <1>1, SumZero
<1>3. A \intersect B = {} /\ A \union B = S /\ \A x \in A \union B : f[x] \in Int
  OBVIOUS
<1>4. SumFunctionOnSet(f, A \union B) = SumFunctionOnSet(f, A) + SumFunctionOnSet(f, B)
  BY <1>1, <1>3, SumUnion
<1>5. SumFunctionOnSet(f, A) \in Int
  BY <1>1, SumType
<1>6. A \union B = S
  BY <1>3
<1> HIDE DEF B
<1>7. SumFunctionOnSet(f, S) = SumFunctionOnSet(f, A) + SumFunctionOnSet(f, B)
  BY <1>4, <1>6
<1> QED
  BY <1>2, <1>5, <1>7

(* Numbering the elements anew, no two alike, does not change the sum.      *)
LEMMA SumReindexed ==
  ASSUME NEW K, IsFiniteSet(K), NEW f, NEW b, NEW h,
         \A k \in K : f[b[k]] \in Int /\ h[k] = f[b[k]],
         \A k, l \in K : b[k] = b[l] => k = l
  PROVE  SumFunctionOnSet(h, K) = SumFunctionOnSet(f, {b[k] : k \in K})
<1> DEFINE Image(s) == {b[k] : k \in s}
           T == {s \in SUBSET K : IsFiniteSet(Image(s))
                    /\ SumFunctionOnSet(h, s) = SumFunctionOnSet(f, Image(s))}
<1>1. {} \in T
  <2>1. Image({}) = {} /\ IsFiniteSet({})
    BY FS_EmptySet
  <2> QED
    BY <2>1, SumEmpty
<1>2. ASSUME NEW s \in SUBSET K, s \in T, NEW x \in K \ s PROVE s \union {x} \in T
  <2> DEFINE t == s \union {x}
             u == Image(s)
             w == b[x]
  <2>1. IsFiniteSet(s) /\ \A y \in K : h[y] \in Int
    BY FS_Subset
  <2>2. SumFunctionOnSet(h, t) = SumFunctionOnSet(h, s) + h[x]
    BY <2>1, SumAdded
  <2>3. Image(t) = u \union {w} /\ w \notin u /\ (\A y \in u : f[y] \in Int) /\ f[w] \in Int
    OBVIOUS
  <2>4. IsFiniteSet(u) /\ SumFunctionOnSet(h, s) = SumFunctionOnSet(f, u)
    BY <1>2
  <2>5. t \in SUBSET K /\ h[x] = f[w]
    OBVIOUS
  <2> HIDE DEF t, u, w
  <2>6. SumFunctionOnSet(f, u \union {w}) = SumFunctionOnSet(f, u) + f[w]
    BY <2>3, <2>4, SumAdded
  <2>7. IsFiniteSet(u \union {w})
    BY <2>4, FS_AddElement
  <2>8. t \in T
    BY <2>2, <2>3, <2>4, <2>5, <2>6, <2>7
  <2> QED
    BY <2>8 DEF t
<1> HIDE DEF T
<1>3. K \in T
  BY <1>1, <1>2, SubsetInduction
<1> QED
  BY <1>3 DEF T

(* The elements of S that g gives the key i.                                 *)
Group(g, S, i) == {x \in S : g[x] = i}

(* A sum is the sum of the sums of its groups.                              *)
LEMMA SumGrouped ==
  ASSUME NEW f, NEW S, IsFiniteSet(S), \A x \in S : f[x] \in Int,
         NEW I, IsFiniteSet(I), NEW g, \A x \in S : g[x] \in I,
         NEW h, \A i \in I : h[i] = SumFunctionOnSet(f, Group(g, S, i))
  PROVE  SumFunctionOnSet(f, S) = SumFunctionOnSet(h, I)
<1> USE DEF Group
<1> DEFINE Within(J) == {x \in S : g[x] \in J}
           T == {J \in SUBSET I : SumFunctionOnSet(f, Within(J)) = SumFunctionOnSet(h, J)}
<1>1. {} \in T
  <2>1. Within({}) = {}
    OBVIOUS
  <2> QED
    BY <2>1, SumEmpty
<1>2. ASSUME NEW J \in SUBSET I, J \in T, NEW i \in I \ J PROVE J \union {i} \in T
  <2> DEFINE t == J \union {i}
             A == Within(J)
             B == Group(g, S, i)
  <2>1. IsFiniteSet(J) /\ IsFiniteSet(A) /\ IsFiniteSet(B)
    BY FS_Subset
  <2>2. /\ A \intersect B = {} /\ Within(t) = A \union B
        /\ \A x \in A \union B : f[x] \in Int
    OBVIOUS
  <2>3. h[i] = SumFunctionOnSet(f, B) /\ \A j \in J : h[j] = SumFunctionOnSet(f, Group(g, S, j))
    OBVIOUS
  <2>4. SumFunctionOnSet(f, A) = SumFunctionOnSet(h, J)
    BY <1>2
  <2>5. h[i] \in Int /\ \A j \in J : h[j] \in Int
    <3>1. ASSUME NEW j \in I PROVE h[j] \in Int
      <4>1. IsFiniteSet(Group(g, S, j)) /\ \A x \in Group(g, S, j) : f[x] \in Int
        BY FS_Subset
      <4>2. SumFunctionOnSet(f, Group(g, S, j)) \in Int
        BY <4>1, SumType
      <4> QED
        BY <4>2
    <3> QED
      BY <3>1
  <2>6. t \in SUBSET I
    OBVIOUS
  <2> HIDE DEF A, B
  <2>7. SumFunctionOnSet(f, A \union B) = SumFunctionOnSet(f, A) + SumFunctionOnSet(f, B)
    BY <2>1, <2>2, SumUnion
  <2>8. SumFunctionOnSet(h, t) = SumFunctionOnSet(h, J) + h[i]
    BY <2>1, <2>5, SumAdded
  <2> HIDE DEF t
  <2>9. t \in T
    BY <2>2, <2>3, <2>4, <2>6, <2>7, <2>8
  <2> QED
    BY <2>9 DEF t
<1> HIDE DEF T
<1>3. I \in T
  BY <1>1, <1>2, SubsetInduction
<1>4. Within(I) = S
  OBVIOUS
<1> QED
  BY <1>3, <1>4 DEF T

(* The place of a number in the order of a set.                             *)
Below(S, j) == {h \in S : h < j}

(* Every place of a finite set of numbers is taken, and by one only.        *)
LEMMA Ranking ==
  ASSUME NEW S \in SUBSET Int, IsFiniteSet(S)
  PROVE  /\ \A j \in S : Cardinality(Below(S, j)) \in 0..(Cardinality(S) - 1)
         /\ \A i, j \in S : Cardinality(Below(S, i)) = Cardinality(Below(S, j)) => i = j
         /\ \A k \in 0..(Cardinality(S) - 1) : \E j \in S : Cardinality(Below(S, j)) = k
<1> DEFINE n == Cardinality(S)
           rank(j) == Cardinality(Below(S, j))
<1>1. n \in Nat
  BY FS_CardinalityType
<1>2. ASSUME NEW i \in S PROVE IsFiniteSet(Below(S, i)) /\ rank(i) \in Nat
  BY FS_Subset, FS_CardinalityType DEF Below
<1>3. ASSUME NEW i \in S, NEW j \in S, i < j PROVE rank(i) < rank(j)
  <2>1. Below(S, i) \in SUBSET Below(S, j)
    <3>1. ASSUME NEW h \in S, h < i PROVE h < j
      <4>1. h \in Int /\ i \in Int /\ j \in Int
        OBVIOUS
      <4> QED
        BY <1>3, <3>1, <4>1
    <3> QED
      BY <3>1 DEF Below
  <2>2. i \in Below(S, j) /\ i \notin Below(S, i)
    BY <1>3 DEF Below
  <2>3. Below(S, i) # Below(S, j)
    BY <2>2
  <2>4. rank(i) <= rank(j) /\ rank(i) # rank(j)
    BY <1>2, <2>1, <2>3, FS_Subset
  <2> QED
    BY <1>2, <2>4
<1>4. ASSUME NEW i \in S PROVE rank(i) \in 0..(n - 1)
  <2>1. Below(S, i) \in SUBSET S /\ Below(S, i) # S
    BY DEF Below
  <2>2. rank(i) <= n /\ rank(i) # n
    BY <2>1, FS_Subset
  <2> QED
    BY <1>1, <1>2, <2>2
<1>5. ASSUME NEW i \in S, NEW j \in S, rank(i) = rank(j) PROVE i = j
  <2>1. ~ (i < j) /\ ~ (j < i)
    BY <1>2, <1>3, <1>5
  <2> QED
    BY <2>1
<1>6. ASSUME NEW k \in 0..(n - 1), \A j \in S : rank(j) # k PROVE FALSE
  <2> DEFINE R == (0..(n - 1)) \ {k}
             m == n - 1
             F == 0..m
             r == [j \in S |-> rank(j)]
  <2>1. m \in Int /\ IsFiniteSet(F) /\ Cardinality(F) = n
    <3>1. m \in Int /\ 0 \in Int /\ ~ (0 > m) /\ m - 0 + 1 = n
      BY <1>1, <1>6
    <3> HIDE DEF m
    <3>2. IsFiniteSet(0..m) /\ Cardinality(0..m) = IF 0 > m THEN 0 ELSE m - 0 + 1
      BY <3>1, FS_Interval
    <3> QED
      BY <3>1, <3>2
  <2>2. k \in F
    BY <1>6
  <2>3. r \in [S -> R]
    BY <1>4, <1>6
  <2> HIDE DEF F, r
  <2>4. IsFiniteSet(F \ {k}) /\ Cardinality(F \ {k}) = n - 1
    BY <2>1, <2>2, FS_RemoveElement
  <2>5. R = F \ {k}
    BY DEF F
  <2> HIDE DEF R
  <2>6. IsFiniteSet(R) /\ Cardinality(R) < Cardinality(S)
    BY <1>1, <2>4, <2>5
  <2>7. \E x, y \in S : x # y /\ r[x] = r[y]
    BY <2>3, <2>6, FS_PigeonHole
  <2> QED
    BY <1>5, <2>7 DEF r
<1> QED
  BY <1>4, <1>5, <1>6

(* The rows of a set in their order have the sum of the set.                *)
LEMMA SumRanked ==
  ASSUME NEW S \in SUBSET Int, IsFiniteSet(S), NEW f, \A x \in S : f[x] \in Int,
         NEW n, n = Cardinality(S), NEW h,
         \A k \in 1..n : \E j \in S : Cardinality(Below(S, j)) = k - 1 /\ h[k] = f[j]
  PROVE  SumFunctionOnSet(h, 1..n) = SumFunctionOnSet(f, S)
<1> DEFINE K == 1..n
           b == [k \in K |-> CHOOSE j \in S : Cardinality(Below(S, j)) = k - 1 /\ h[k] = f[j]]
<1>0. \A k \in K : b[k] \in S /\ Cardinality(Below(S, b[k])) = k - 1 /\ h[k] = f[b[k]]
  OBVIOUS
<1> HIDE DEF b
<1>1. n \in Nat
  BY FS_CardinalityType
<1>2. IsFiniteSet(K)
  BY <1>1, FS_Interval
<1>3. \A k, l \in K : b[k] = b[l] => k = l
  BY <1>0, <1>1
<1>4. {b[k] : k \in K} = S
  <2>1. ASSUME NEW x \in S PROVE \E k \in K : b[k] = x
    <3>1. Cardinality(Below(S, x)) \in 0..(n - 1)
      BY Ranking
    <3>2. PICK k \in K : Cardinality(Below(S, x)) = k - 1
      BY <1>1, <3>1
    <3>3. b[k] \in S /\ Cardinality(Below(S, b[k])) = Cardinality(Below(S, x))
      BY <1>0, <3>2
    <3>4. \A i, j \in S : Cardinality(Below(S, i)) = Cardinality(Below(S, j)) => i = j
      BY Ranking
    <3>5. b[k] = x
      BY <3>3, <3>4
    <3> QED
      BY <3>5
  <2>2. \A k \in K : b[k] \in S
    BY <1>0
  <2> HIDE DEF b, K
  <2> QED
    BY <2>1, <2>2
<1>5. \A k \in K : f[b[k]] \in Int /\ h[k] = f[b[k]]
  BY <1>0
<1> HIDE DEF K
<1>6. SumFunctionOnSet(h, K) = SumFunctionOnSet(f, {b[k] : k \in K})
  BY <1>2, <1>3, <1>5, SumReindexed
<1> QED
  BY <1>4, <1>6 DEF K

=============================================================================
