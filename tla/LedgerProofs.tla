---------------------------- MODULE LedgerProofs ----------------------------
(***************************************************************************)
(* The tables of Ledger keep their types, a transaction is in the cycle    *)
(* its date falls in, what was detached by hand stays so, imports that     *)
(* skip duplicates never write a row twice, the cycles of an account share *)
(* no day, and a page of the list shows its rows and their totals once:    *)
(* for every calendar, every set of rows, billing days, imports and        *)
(* patches, and any number of requests in progress.                        *)
(***************************************************************************)
EXTENDS Summary, WellFoundedInduction, FiniteSetTheorems, SequenceTheorems, TLAPS

-----------------------------------------------------------------------------
(* Numbers. *)

LEMMA LeastOf ==
    ASSUME NEW T, T \subseteq Nat, T # {}
    PROVE  \E n \in T : \A m \in T : n <= m
<1> DEFINE R == OpToRel(<, Nat)
<1>1. IsWellFoundedOn(R, Nat)
    BY NatLessThanWellFounded
<1>2. \A x, y \in Nat : x < y => <<x, y>> \in R
    BY DEF OpToRel
<1> HIDE DEF R
<1>3. PICK n \in T : \A y \in T : ~ (<<y, n>> \in R)
    BY <1>1, WFMin
<1>4. ASSUME NEW m \in T
      PROVE  n <= m
  <2>1. n \in Nat /\ m \in Nat
      OBVIOUS
  <2>2. ~ (m < n)
      BY <1>2, <1>3, <2>1
  <2> QED
      BY <2>1, <2>2
<1> QED
    BY <1>4

(* Induction up to a bound, over a set.                                    *)
LEMMA Induct ==
    ASSUME NEW N \in Nat, NEW T,
           0 \in T,
           \A n \in 0..(N - 1) : n \in T => n + 1 \in T
    PROVE  \A n \in 0..N : n \in T
<1> DEFINE Without == {n \in 0..N : n \notin T}
<1>1. SUFFICES ASSUME Without # {}
               PROVE  FALSE
    OBVIOUS
<1>2. Without \subseteq Nat
    OBVIOUS
<1>3. PICK n \in Without : \A m \in Without : n <= m
    BY <1>1, <1>2, LeastOf
<1>4. n # 0 /\ n \in 0..N /\ n \notin T
    BY <1>3
<1>5. n - 1 \in 0..(N - 1) /\ n - 1 \in 0..N /\ ~ (n <= n - 1)
    BY <1>4
<1>6. n - 1 \in T
    BY <1>3, <1>5
<1>7. (n - 1) + 1 \in T
    BY <1>5, <1>6
<1> QED
    BY <1>4, <1>7

(* A finite set of integers has a least element.                           *)
LEMMA LeastInteger ==
    ASSUME NEW S, S \subseteq Int, IsFiniteSet(S), S # {}
    PROVE  \E i \in S : \A j \in S : i <= j
<1> DEFINE N == Cardinality(S)
<1>1. N \in Nat /\ ExistsBijection(1..N, S)
    BY FS_CardinalityType
<1>2. PICK f \in [1..N -> S] : \A s \in S : \E n \in 1..N : f[n] = s
    BY <1>1 DEF ExistsBijection, Bijection, Injection, Surjection
<1> HIDE DEF N
<1> DEFINE T == {k \in 0..N : k # 0 => \E i \in 1..k : \A j \in 1..k : f[i] <= f[j]}
<1>3. 0 \in T
    BY <1>1
<1>4. ASSUME NEW n \in 0..(N - 1), n \in T
      PROVE  n + 1 \in T
  <2>1. n + 1 \in 0..N /\ n + 1 \in 1..(n + 1) /\ n + 1 \in 1..N /\ n \in Nat
      BY <1>1
  <2>2. ASSUME NEW j \in 1..(n + 1)
        PROVE  (j \in 1..n \/ j = n + 1) /\ f[j] \in Int
    <3>1. j \in 1..N /\ (j \in 1..n \/ j = n + 1)
        BY <1>1, <2>1
    <3>2. f[j] \in S
        BY <1>2, <3>1
    <3> QED
        BY <3>1, <3>2
  <2>3. CASE n = 0
    <3>1. \A j \in 1..(n + 1) : f[n + 1] <= f[j]
        BY <2>1, <2>2, <2>3
    <3> QED
        BY <2>1, <3>1
  <2>4. CASE n # 0
    <3>1. PICK i \in 1..n : \A j \in 1..n : f[i] <= f[j]
        BY <1>4, <2>4
    <3>2. i \in 1..(n + 1) /\ f[i] \in Int /\ f[n + 1] \in Int
        BY <2>1, <2>2
    <3>3. CASE f[i] <= f[n + 1]
      <4>1. \A j \in 1..(n + 1) : f[i] <= f[j]
          BY <2>2, <3>1, <3>3
      <4> QED
          BY <2>1, <3>2, <4>1
    <3>4. CASE ~ (f[i] <= f[n + 1])
      <4>1. \A j \in 1..(n + 1) : f[n + 1] <= f[j]
          BY <2>2, <3>1, <3>2, <3>4
      <4> QED
          BY <2>1, <4>1
    <3> QED
        BY <3>3, <3>4
  <2> QED
      BY <2>3, <2>4
<1> HIDE DEF T
<1>5. \A n \in 0..N : n \in T
    BY <1>1, <1>3, <1>4, Induct
<1> USE DEF T
<1>6. N # 0 /\ N \in 0..N
  <2>1. PICK s \in S : TRUE
      OBVIOUS
  <2>2. PICK n \in 1..N : f[n] = s
      BY <1>2, <2>1
  <2> QED
      BY <1>1, <2>2
<1>7. PICK i \in 1..N : \A j \in 1..N : f[i] <= f[j]
    BY <1>5, <1>6
<1> QED
    BY <1>2, <1>7

-----------------------------------------------------------------------------
(* Sums over finite sets. *)

(* Induction over the subsets of a finite set, over a set of them.         *)
LEMMA InductSets ==
    ASSUME NEW S, IsFiniteSet(S), NEW T, {} \in T,
           \A A \in SUBSET S : \A x \in S \ A : A \in T => A \cup {x} \in T
    PROVE  S \in T
<1> DEFINE N == Cardinality(S)
<1>1. N \in Nat /\ ExistsBijection(1..N, S)
    BY FS_CardinalityType
<1>2. PICK f \in [1..N -> S] : /\ \A s \in S : \E n \in 1..N : f[n] = s
                              /\ \A m, n \in 1..N : f[m] = f[n] => m = n
    BY <1>1 DEF ExistsBijection, Bijection, Injection, Surjection, IsInjective
<1> DEFINE First(n) == {f[k] : k \in 1..n}
           K == {n \in 0..N : First(n) \in T}
<1> HIDE DEF N
<1>3. 0 \in K
  <2>1. First(0) = {}
      OBVIOUS
  <2> QED
      BY <1>1, <2>1
<1>4. ASSUME NEW n \in 0..(N - 1), n \in K
      PROVE  n + 1 \in K
  <2>1. n + 1 \in 0..N /\ n + 1 \in 1..N /\ n \in Nat
      BY <1>1
  <2>2. \A k : k \in 1..(n + 1) <=> k \in 1..n \/ k = n + 1
      BY <2>1
  <2>3. \A k \in 1..n : k \in 1..N /\ k # n + 1
      BY <1>1, <2>1
  <2>4. First(n + 1) = First(n) \cup {f[n + 1]}
      BY <2>2
  <2>5. First(n) \in SUBSET S /\ f[n + 1] \in S \ First(n)
      BY <1>2, <2>1, <2>3
  <2>6. First(n) \in T
      BY <1>4
  <2> HIDE DEF First
  <2>7. First(n + 1) \in T
      BY <2>4, <2>5, <2>6
  <2> QED
      BY <2>1, <2>7
<1> HIDE DEF K
<1>5. \A n \in 0..N : n \in K
    BY <1>1, <1>3, <1>4, Induct
<1>6. First(N) = S
    BY <1>2
<1> QED
    BY <1>1, <1>5, <1>6 DEF K

(* What FoldFunctionOnSet computes, on every subset of S.                  *)
Summing(f, S, g) ==
    g = [s \in SUBSET S |-> IF s = {} THEN 0
                            ELSE f[CHOOSE x \in s : TRUE] + g[s \ {CHOOSE x \in s : TRUE}]]

LEMMA SumIsFold ==
    ASSUME NEW f, NEW S
    PROVE  SumFunctionOnSet(f, S) = (CHOOSE g : Summing(f, S, g))[S]
BY DEF SumFunctionOnSet, FoldFunctionOnSet, MapThenFoldSet, Summing

CanSum(f, S) == \E g \in [SUBSET S -> Int] : Summing(f, S, g)

LEMMA SumExists ==
    ASSUME NEW S, IsFiniteSet(S), NEW f, \A x \in S : f[x] \in Int
    PROVE  CanSum(f, S)
<1> DEFINE N == Cardinality(S)
           Upto(n) == {s \in SUBSET S : Cardinality(s) <= n}
           some(s) == CHOOSE x \in s : TRUE
           Sums(g, n) == \A s \in Upto(n) :
                            g[s] = IF s = {} THEN 0 ELSE f[some(s)] + g[s \ {some(s)}]
           K == {n \in 0..N : \E g \in [Upto(n) -> Int] : Sums(g, n)}
<1>1. N \in Nat
    BY FS_CardinalityType
<1>2. ASSUME NEW s \in SUBSET S
      PROVE  IsFiniteSet(s) /\ Cardinality(s) \in Nat /\ Cardinality(s) <= N
    BY FS_Subset, FS_CardinalityType
<1>3. ASSUME NEW s \in SUBSET S, s # {}
      PROVE  /\ some(s) \in s /\ f[some(s)] \in Int
             /\ s \ {some(s)} \in SUBSET S
             /\ Cardinality(s \ {some(s)}) = Cardinality(s) - 1
  <2>1. some(s) \in s
      BY <1>3
  <2> HIDE DEF some
  <2>2. IsFiniteSet(s)
      BY <1>2
  <2> QED
      BY <2>1, <2>2, FS_RemoveElement
<1>4. ASSUME NEW s \in SUBSET S
      PROVE  Cardinality(s) = 0 <=> s = {}
    BY <1>2, FS_EmptySet
<1> HIDE DEF N, some
<1>5. 0 \in K
  <2> DEFINE g == [s \in Upto(0) |-> 0]
  <2>1. \A s \in Upto(0) : s = {}
      BY <1>2, <1>4
  <2>2. g \in [Upto(0) -> Int] /\ Sums(g, 0)
      BY <2>1
  <2>3. 0 \in 0..N
      BY <1>1
  <2> HIDE DEF g, Upto, Sums
  <2> QED
      BY <2>2, <2>3
<1>6. ASSUME NEW n \in 0..(N - 1), n \in K
      PROVE  n + 1 \in K
  <2>1. PICK g \in [Upto(n) -> Int] : Sums(g, n)
      BY <1>6
  <2> DEFINE h == [s \in Upto(n + 1) |-> IF Cardinality(s) <= n THEN g[s]
                                         ELSE f[some(s)] + g[s \ {some(s)}]]
  <2>2. n \in Nat /\ n + 1 \in 0..N
      BY <1>1
  <2>3. ASSUME NEW s \in Upto(n + 1), s # {}
        PROVE  /\ s \ {some(s)} \in Upto(n) /\ s \ {some(s)} \in Upto(n + 1)
               /\ f[some(s)] \in Int
    <3>1. s \in SUBSET S
        OBVIOUS
    <3>2. Cardinality(s) \in Nat /\ Cardinality(s) <= n + 1
        BY <1>2
    <3> QED
        BY <1>3, <2>2, <2>3, <3>1, <3>2
  <2>4. \A s \in Upto(n + 1) : ~ (Cardinality(s) <= n) => s # {}
      BY <1>4, <2>2
  <2>5. \A s \in Upto(n + 1) : Cardinality(s) <= n => s \in Upto(n)
      OBVIOUS
  <2>6. h \in [Upto(n + 1) -> Int]
    <3>1. \A s \in Upto(n + 1) : Cardinality(s) <= n => g[s] \in Int
        BY <2>5
    <3>2. \A s \in Upto(n + 1) : ~ (Cardinality(s) <= n) => f[some(s)] + g[s \ {some(s)}] \in Int
        BY <2>3, <2>4
    <3> HIDE DEF Upto
    <3> QED
        BY <3>1, <3>2
  <2>7. \A s \in Upto(n) : s \in Upto(n + 1) /\ h[s] = g[s]
      BY <1>2, <2>2
  <2>8. \A s \in Upto(n + 1) : ~ (Cardinality(s) <= n) => h[s] = f[some(s)] + g[s \ {some(s)}]
      OBVIOUS
  <2> HIDE DEF h
  <2>9. ASSUME NEW s \in Upto(n + 1)
        PROVE  h[s] = IF s = {} THEN 0 ELSE f[some(s)] + h[s \ {some(s)}]
    <3>1. CASE Cardinality(s) <= n
      <4>1. s \in Upto(n) /\ h[s] = g[s]
          BY <2>5, <2>7, <3>1
      <4>2. g[s] = IF s = {} THEN 0 ELSE f[some(s)] + g[s \ {some(s)}]
          BY <2>1, <4>1
      <4>3. s # {} => h[s \ {some(s)}] = g[s \ {some(s)}]
          BY <2>3, <2>7
      <4> QED
          BY <4>1, <4>2, <4>3
    <3>2. CASE ~ (Cardinality(s) <= n)
      <4>1. s # {}
          BY <2>4, <3>2
      <4>2. h[s \ {some(s)}] = g[s \ {some(s)}]
          BY <2>3, <2>7, <4>1
      <4> QED
          BY <2>8, <3>2, <4>1, <4>2
    <3> QED
        BY <3>1, <3>2
  <2> HIDE DEF Upto
  <2>10. Sums(h, n + 1)
      BY <2>9
  <2> HIDE DEF Sums
  <2> QED
      BY <2>2, <2>6, <2>10
<1> HIDE DEF K
<1>7. N \in K
    BY <1>1, <1>5, <1>6, Induct
<1>8. PICK g \in [Upto(N) -> Int] : Sums(g, N)
    BY <1>7 DEF K
<1>9. Upto(N) = SUBSET S
    BY <1>2
<1>10. g = [s \in SUBSET S |-> IF s = {} THEN 0 ELSE f[some(s)] + g[s \ {some(s)}]]
    BY <1>8, <1>9
<1>11. Summing(f, S, g)
    BY <1>10 DEF Summing, some
<1> QED
    BY <1>8, <1>9, <1>11 DEF CanSum

(* The recursion of the fold holds on every subset.                        *)
SumRule(f, S) ==
    \A s \in SUBSET S :
        SumFunctionOnSet(f, s) =
            IF s = {} THEN 0
            ELSE f[CHOOSE x \in s : TRUE] + SumFunctionOnSet(f, s \ {CHOOSE x \in s : TRUE})

(* Two functions that obey the rule agree.                                 *)
LEMMA SumsAgree ==
    ASSUME NEW S, IsFiniteSet(S), NEW f, NEW g, NEW A, NEW h, NEW B,
           Summing(f, A, g), Summing(f, B, h), S \subseteq A, S \subseteq B
    PROVE  g[S] = h[S]
<1> DEFINE N == Cardinality(S)
           K == {n \in 0..N : \A s \in SUBSET S : Cardinality(s) <= n => g[s] = h[s]}
           some(s) == CHOOSE x \in s : TRUE
<1>1. N \in Nat
    BY FS_CardinalityType
<1>2. ASSUME NEW s \in SUBSET S
      PROVE  IsFiniteSet(s) /\ Cardinality(s) \in Nat /\ Cardinality(s) <= N
    BY FS_Subset, FS_CardinalityType
<1>3. ASSUME NEW s \in SUBSET S, s # {}
      PROVE  s \ {some(s)} \in SUBSET S /\ Cardinality(s \ {some(s)}) = Cardinality(s) - 1
  <2>1. some(s) \in s
      BY <1>3
  <2> HIDE DEF some
  <2>2. IsFiniteSet(s)
      BY <1>2
  <2> QED
      BY <2>1, <2>2, FS_RemoveElement
<1>4. ASSUME NEW s \in SUBSET S
      PROVE  Cardinality(s) = 0 <=> s = {}
    BY <1>2, FS_EmptySet
<1>5. ASSUME NEW s \in SUBSET S
      PROVE  /\ g[s] = IF s = {} THEN 0 ELSE f[some(s)] + g[s \ {some(s)}]
             /\ h[s] = IF s = {} THEN 0 ELSE f[some(s)] + h[s \ {some(s)}]
  <2>1. s \in SUBSET A /\ s \in SUBSET B
      OBVIOUS
  <2>2. g[s] = IF s = {} THEN 0 ELSE f[some(s)] + g[s \ {some(s)}]
      BY <2>1 DEF Summing
  <2>3. h[s] = IF s = {} THEN 0 ELSE f[some(s)] + h[s \ {some(s)}]
      BY <2>1 DEF Summing
  <2> QED
      BY <2>2, <2>3
<1> HIDE DEF N, some
<1>6. 0 \in K
  <2>1. \A s \in SUBSET S : Cardinality(s) <= 0 => s = {}
      BY <1>2, <1>4
  <2> QED
      BY <1>1, <1>5, <2>1
<1>7. ASSUME NEW n \in 0..(N - 1), n \in K
      PROVE  n + 1 \in K
  <2>1. ASSUME NEW s \in SUBSET S, Cardinality(s) <= n + 1
        PROVE  g[s] = h[s]
    <3>1. CASE s = {}
        BY <1>5, <3>1
    <3>2. CASE s # {}
      <4>1. s \ {some(s)} \in SUBSET S /\ Cardinality(s \ {some(s)}) <= n
          BY <1>1, <1>2, <1>3, <2>1, <3>2
      <4>2. g[s \ {some(s)}] = h[s \ {some(s)}]
          BY <1>7, <4>1
      <4> QED
          BY <1>5, <3>2, <4>2
    <3> QED
        BY <3>1, <3>2
  <2>2. n + 1 \in 0..N
      BY <1>1
  <2> QED
      BY <2>1, <2>2
<1> HIDE DEF K
<1>8. N \in K
    BY <1>1, <1>6, <1>7, Induct
<1>9. \A s \in SUBSET S : Cardinality(s) <= N => g[s] = h[s]
    BY <1>8 DEF K
<1> QED
    BY <1>2, <1>9

LEMMA SumUnfolds ==
    ASSUME NEW S, IsFiniteSet(S), NEW f, \A x \in S : f[x] \in Int
    PROVE  SumFunctionOnSet(f, S) \in Int /\ SumRule(f, S)
<1>1. PICK g \in [SUBSET S -> Int] : Summing(f, S, g)
    BY SumExists DEF CanSum
<1>2. ASSUME NEW s \in SUBSET S
      PROVE  SumFunctionOnSet(f, s) = g[s]
  <2>1. IsFiniteSet(s) /\ \A x \in s : f[x] \in Int
      BY FS_Subset
  <2>2. \E h : Summing(f, s, h)
      BY <2>1, SumExists DEF CanSum
  <2> DEFINE h == CHOOSE h : Summing(f, s, h)
  <2>3. Summing(f, s, h)
      BY <2>2
  <2>4. SumFunctionOnSet(f, s) = h[s]
      BY SumIsFold
  <2> HIDE DEF h
  <2>5. h[s] = g[s]
      BY <1>1, <2>1, <2>3, SumsAgree
  <2> QED
      BY <2>4, <2>5
<1>3. S \in SUBSET S
    OBVIOUS
<1>4. SumFunctionOnSet(f, S) \in Int
    BY <1>2, <1>3
<1>5. ASSUME NEW s \in SUBSET S
      PROVE  SumFunctionOnSet(f, s) =
                IF s = {} THEN 0
                ELSE f[CHOOSE x \in s : TRUE]
                     + SumFunctionOnSet(f, s \ {CHOOSE x \in s : TRUE})
  <2> DEFINE x == CHOOSE x \in s : TRUE
  <2>1. g[s] = IF s = {} THEN 0 ELSE f[x] + g[s \ {x}]
      BY <1>1 DEF Summing
  <2> HIDE DEF x
  <2>2. SumFunctionOnSet(f, s) = g[s] /\ SumFunctionOnSet(f, s \ {x}) = g[s \ {x}]
      BY <1>2
  <2>3. SumFunctionOnSet(f, s) = IF s = {} THEN 0 ELSE f[x] + SumFunctionOnSet(f, s \ {x})
      BY <2>1, <2>2
  <2> QED
      BY <2>3 DEF x
<1> QED
    BY <1>4, <1>5 DEF SumRule

LEMMA SumEmpty ==
    ASSUME NEW f
    PROVE  SumFunctionOnSet(f, {}) = 0
<1>1. IsFiniteSet({}) /\ {} \in SUBSET {}
    BY FS_EmptySet
<1>2. SumRule(f, {})
    BY <1>1, SumUnfolds
<1> QED
    BY <1>1, <1>2 DEF SumRule

(* Any element may be taken out, not only the chosen one.                   *)
LEMMA SumTakesOut ==
    ASSUME NEW S, IsFiniteSet(S), NEW f, \A x \in S : f[x] \in Int
    PROVE  \A e \in S : SumFunctionOnSet(f, S) = f[e] + SumFunctionOnSet(f, S \ {e})
<1> DEFINE N == Cardinality(S)
           K == {n \in 0..N : \A s \in SUBSET S : Cardinality(s) <= n =>
                   \A e \in s : SumFunctionOnSet(f, s) = f[e] + SumFunctionOnSet(f, s \ {e})}
           some(s) == CHOOSE x \in s : TRUE
<1>1. N \in Nat
    BY FS_CardinalityType
<1>2. ASSUME NEW s \in SUBSET S
      PROVE  IsFiniteSet(s) /\ Cardinality(s) \in Nat /\ Cardinality(s) <= N
    BY FS_Subset, FS_CardinalityType
<1>3. ASSUME NEW s \in SUBSET S, NEW e \in s
      PROVE  s \ {e} \in SUBSET S /\ Cardinality(s \ {e}) = Cardinality(s) - 1
  <2>1. IsFiniteSet(s)
      BY <1>2
  <2> QED
      BY <2>1, FS_RemoveElement
<1>4. ASSUME NEW s \in SUBSET S
      PROVE  SumFunctionOnSet(f, s) \in Int
  <2>1. IsFiniteSet(s) /\ \A x \in s : f[x] \in Int
      BY <1>2
  <2> QED
      BY <2>1, SumUnfolds
<1>5. ASSUME NEW s \in SUBSET S, s # {}
      PROVE  some(s) \in s /\ SumFunctionOnSet(f, s) = f[some(s)] + SumFunctionOnSet(f, s \ {some(s)})
  <2>1. SumRule(f, S)
      BY SumUnfolds
  <2>2. some(s) \in s
      BY <1>5
  <2> QED
      BY <1>5, <2>1, <2>2 DEF SumRule
<1>6. \A s \in SUBSET S : Cardinality(s) <= 0 => s = {}
    BY <1>2, FS_EmptySet
<1> HIDE DEF N, some
<1>7. 0 \in K
    BY <1>1, <1>6
<1>8. ASSUME NEW n \in 0..(N - 1), n \in K
      PROVE  n + 1 \in K
  <2>1. ASSUME NEW s \in SUBSET S, Cardinality(s) <= n + 1, NEW e \in s
        PROVE  SumFunctionOnSet(f, s) = f[e] + SumFunctionOnSet(f, s \ {e})
    <3> DEFINE c == some(s)
    <3>1. c \in s /\ SumFunctionOnSet(f, s) = f[c] + SumFunctionOnSet(f, s \ {c})
        BY <1>5
    <3> HIDE DEF c
    <3>2. CASE c = e
        BY <3>1, <3>2
    <3>3. CASE c # e
      <4>1. /\ s \ {c} \in SUBSET S /\ Cardinality(s \ {c}) <= n /\ e \in s \ {c}
            /\ s \ {e} \in SUBSET S /\ Cardinality(s \ {e}) <= n /\ c \in s \ {e}
          BY <1>1, <1>2, <1>3, <2>1, <3>1, <3>3
      <4>2. SumFunctionOnSet(f, s \ {c}) = f[e] + SumFunctionOnSet(f, (s \ {c}) \ {e})
          BY <1>8, <4>1
      <4>3. SumFunctionOnSet(f, s \ {e}) = f[c] + SumFunctionOnSet(f, (s \ {e}) \ {c})
          BY <1>8, <4>1
      <4>4. (s \ {c}) \ {e} = (s \ {e}) \ {c} /\ (s \ {c}) \ {e} \in SUBSET S
          OBVIOUS
      <4>5. f[c] \in Int /\ f[e] \in Int /\ SumFunctionOnSet(f, (s \ {c}) \ {e}) \in Int
          BY <1>4, <3>1, <4>4
      <4>6. SumFunctionOnSet(f, (s \ {c}) \ {e}) = SumFunctionOnSet(f, (s \ {e}) \ {c})
          BY <4>4
      <4> DEFINE rest == SumFunctionOnSet(f, (s \ {c}) \ {e})
      <4>7. /\ SumFunctionOnSet(f, s) = f[c] + (f[e] + rest)
            /\ SumFunctionOnSet(f, s \ {e}) = f[c] + rest
          BY <3>1, <4>2, <4>3, <4>6
      <4>8. rest \in Int
          BY <4>5
      <4> HIDE DEF rest
      <4> QED
          BY <4>5, <4>7, <4>8
    <3> QED
        BY <3>2, <3>3
  <2>2. n + 1 \in 0..N
      BY <1>1
  <2> QED
      BY <2>1, <2>2
<1> HIDE DEF K
<1>9. N \in K
    BY <1>1, <1>7, <1>8, Induct
<1>10. \A s \in SUBSET S : Cardinality(s) <= N =>
          \A e \in s : SumFunctionOnSet(f, s) = f[e] + SumFunctionOnSet(f, s \ {e})
    BY <1>9 DEF K
<1> QED
    BY <1>2, <1>10

LEMMA SumAdds ==
    ASSUME NEW S, IsFiniteSet(S), NEW e, e \notin S, NEW f, \A x \in S \cup {e} : f[x] \in Int
    PROVE  SumFunctionOnSet(f, S \cup {e}) = f[e] + SumFunctionOnSet(f, S)
<1>1. IsFiniteSet(S \cup {e})
    BY FS_AddElement
<1>2. (S \cup {e}) \ {e} = S /\ e \in S \cup {e}
    OBVIOUS
<1> QED
    BY <1>1, <1>2, SumTakesOut

(* Only the values on the set count.                                       *)
LEMMA SumSame ==
    ASSUME NEW S, IsFiniteSet(S), NEW f, NEW g, \A x \in S : f[x] \in Int /\ g[x] = f[x]
    PROVE  SumFunctionOnSet(f, S) = SumFunctionOnSet(g, S)
<1> DEFINE T == {s \in SUBSET S : SumFunctionOnSet(f, s) = SumFunctionOnSet(g, s)}
<1>1. {} \in T
    BY SumEmpty
<1>2. ASSUME NEW s \in SUBSET S, NEW e \in S \ s, s \in T
      PROVE  s \cup {e} \in T
  <2>1. IsFiniteSet(s) /\ e \notin s /\ \A x \in s \cup {e} : f[x] \in Int /\ g[x] \in Int
      BY FS_Subset
  <2>2. /\ SumFunctionOnSet(f, s \cup {e}) = f[e] + SumFunctionOnSet(f, s)
        /\ SumFunctionOnSet(g, s \cup {e}) = g[e] + SumFunctionOnSet(g, s)
      BY <2>1, SumAdds
  <2> QED
      BY <1>2, <2>2
<1> HIDE DEF T
<1>3. S \in T
    BY <1>1, <1>2, InductSets
<1> QED
    BY <1>3 DEF T

LEMMA SumIsNat ==
    ASSUME NEW S, IsFiniteSet(S), NEW f, \A x \in S : f[x] \in Nat
    PROVE  SumFunctionOnSet(f, S) \in Nat
<1> DEFINE T == {s \in SUBSET S : SumFunctionOnSet(f, s) \in Nat}
<1>1. {} \in T
    BY SumEmpty
<1>2. ASSUME NEW s \in SUBSET S, NEW e \in S \ s, s \in T
      PROVE  s \cup {e} \in T
  <2>1. IsFiniteSet(s) /\ e \notin s /\ \A x \in s \cup {e} : f[x] \in Int
      BY FS_Subset
  <2>2. SumFunctionOnSet(f, s \cup {e}) = f[e] + SumFunctionOnSet(f, s)
      BY <2>1, SumAdds
  <2> QED
      BY <1>2, <2>2
<1> HIDE DEF T
<1>3. S \in T
    BY <1>1, <1>2, InductSets
<1> QED
    BY <1>3 DEF T

LEMMA SumOfUnion ==
    ASSUME NEW R, NEW S, IsFiniteSet(R), IsFiniteSet(S), R \cap S = {},
           NEW f, \A x \in R \cup S : f[x] \in Int
    PROVE  SumFunctionOnSet(f, R \cup S) = SumFunctionOnSet(f, R) + SumFunctionOnSet(f, S)
<1> DEFINE T == {s \in SUBSET S : SumFunctionOnSet(f, R \cup s)
                                   = SumFunctionOnSet(f, R) + SumFunctionOnSet(f, s)}
<1>0. SumFunctionOnSet(f, R) \in Int
    BY SumUnfolds
<1>1. {} \in T
  <2>1. R \cup {} = R
      OBVIOUS
  <2> QED
      BY <1>0, <2>1, SumEmpty
<1>2. ASSUME NEW s \in SUBSET S, NEW e \in S \ s, s \in T
      PROVE  s \cup {e} \in T
  <2>1. IsFiniteSet(s) /\ e \notin s /\ \A x \in s \cup {e} : f[x] \in Int
      BY FS_Subset
  <2>2. /\ IsFiniteSet(R \cup s) /\ e \notin R \cup s
        /\ \A x \in (R \cup s) \cup {e} : f[x] \in Int
      BY <2>1, FS_Union
  <2>3. SumFunctionOnSet(f, s \cup {e}) = f[e] + SumFunctionOnSet(f, s)
      BY <2>1, SumAdds
  <2>4. SumFunctionOnSet(f, (R \cup s) \cup {e}) = f[e] + SumFunctionOnSet(f, R \cup s)
      BY <2>2, SumAdds
  <2>5. (R \cup s) \cup {e} = R \cup (s \cup {e})
      OBVIOUS
  <2>6. SumFunctionOnSet(f, s) \in Int /\ f[e] \in Int
      BY <2>1, SumUnfolds
  <2> QED
    <3> DEFINE r == SumFunctionOnSet(f, R)
                 x == SumFunctionOnSet(f, s)
      <3>1. SumFunctionOnSet(f, R \cup (s \cup {e})) = f[e] + (r + x)
          BY <1>2, <2>4, <2>5
      <3>2. r \in Int /\ x \in Int
          BY <1>0, <2>6
      <3>3. f[e] + (r + x) = r + (f[e] + x)
          BY <2>6, <3>2
      <3> QED
          BY <2>3, <3>1, <3>3
<1> HIDE DEF T
<1>3. S \in T
    BY <1>1, <1>2, InductSets
<1> QED
    BY <1>3 DEF T

-----------------------------------------------------------------------------
(* The calendar. *)

LEMMA StartGrows ==
    ASSUME NEW m \in 0..(LastMonth + 1), NEW n \in 0..(LastMonth + 1), m < n
    PROVE  Start[m] < Start[n]
<1> DEFINE T == {k \in 0..(LastMonth + 1) : m < k => Start[m] < Start[k]}
<1>1. /\ LastMonth + 1 \in Nat
      /\ \A k \in 0..(LastMonth + 1) : Start[k] \in Nat
      /\ \A k \in 0..LastMonth : Start[k] < Start[k + 1]
    BY CalendarAssumption DEF Months
<1>2. 0 \in T
    BY <1>1
<1>3. ASSUME NEW k \in 0..((LastMonth + 1) - 1), k \in T
      PROVE  k + 1 \in T
  <2>1. k \in 0..LastMonth /\ k \in 0..(LastMonth + 1) /\ k + 1 \in 0..(LastMonth + 1)
      BY CalendarAssumption
  <2>2. Start[k] < Start[k + 1] /\ Start[k] \in Nat /\ Start[k + 1] \in Nat /\ Start[m] \in Nat
      BY <1>1, <2>1
  <2>3. m < k + 1 => m = k \/ m < k
      BY <2>1
  <2> QED
      BY <1>3, <2>1, <2>2, <2>3
<1> HIDE DEF T
<1>4. n \in T
    BY <1>1, <1>2, <1>3, Induct
<1> QED
    BY <1>4 DEF T

LEMMA StartIsNat ==
    ASSUME NEW m \in 0..(LastMonth + 1)
    PROVE  Start[m] \in Nat
BY CalendarAssumption

(* The month of a day is the one it is in.                                 *)
LEMMA MonthIs ==
    ASSUME NEW m \in Months, NEW d \in Int, Start[m] <= d, d < Start[m + 1]
    PROVE  MonthOf(d) = m /\ d \in Dates
<1>1. LastMonth \in Nat /\ m \in 0..(LastMonth + 1) /\ m + 1 \in 0..(LastMonth + 1) /\ m \in Nat
    BY CalendarAssumption DEF Months
<1>2. ASSUME NEW k \in Months, Start[k] <= d, d < Start[k + 1]
      PROVE  k = m
  <2>1. k \in 0..(LastMonth + 1) /\ k + 1 \in 0..(LastMonth + 1) /\ k \in Nat
      BY <1>1 DEF Months
  <2>2. /\ Start[m] \in Nat /\ Start[m + 1] \in Nat
        /\ Start[k] \in Nat /\ Start[k + 1] \in Nat
      BY <1>1, <2>1, StartIsNat
  <2>3. ~ (k + 1 <= m)
    <3>1. k + 1 < m => Start[k + 1] < Start[m]
        BY <1>1, <2>1, StartGrows
    <3> QED
        BY <1>1, <1>2, <2>1, <2>2, <3>1
  <2>4. ~ (m + 1 <= k)
    <3>1. m + 1 < k => Start[m + 1] < Start[k]
        BY <1>1, <2>1, StartGrows
    <3> QED
        BY <1>1, <1>2, <2>1, <2>2, <3>1
  <2> QED
      BY <1>1, <2>1, <2>3, <2>4
<1>3. MonthOf(d) = m
    BY <1>2 DEF MonthOf
<1>4. Start[0] <= Start[m] /\ Start[m + 1] <= Start[LastMonth + 1]
  <2>1. 0 \in 0..(LastMonth + 1) /\ LastMonth + 1 \in 0..(LastMonth + 1)
      BY <1>1
  <2>2. 0 < m => Start[0] < Start[m]
      BY <1>1, <2>1, StartGrows
  <2>3. m + 1 < LastMonth + 1 => Start[m + 1] < Start[LastMonth + 1]
      BY <1>1, <2>1, StartGrows
  <2>4. /\ Start[0] \in Nat /\ Start[m] \in Nat /\ Start[m + 1] \in Nat
        /\ Start[LastMonth + 1] \in Nat
      BY <1>1, <2>1, StartIsNat
  <2> QED
      BY <1>1, <2>2, <2>3, <2>4
<1>5. /\ Start[0] \in Nat /\ Start[m] \in Nat /\ Start[m + 1] \in Nat
      /\ Start[LastMonth + 1] \in Nat
    BY <1>1, StartIsNat
<1>6. d \in Start[0] .. (Start[LastMonth + 1] - 1)
    BY <1>4, <1>5
<1> QED
    BY <1>3, <1>6 DEF Dates

(* Every day of the calendar is in a month.                                *)
LEMMA MonthOfDate ==
    ASSUME NEW d \in Dates
    PROVE  /\ MonthOf(d) \in Months
           /\ Start[MonthOf(d)] <= d /\ d < Start[MonthOf(d) + 1]
           /\ d \in Int
<1> DEFINE T == {n \in 0..(LastMonth + 1) : d < Start[n]}
<1>1. LastMonth \in Nat /\ 0 \in 0..(LastMonth + 1) /\ LastMonth + 1 \in 0..(LastMonth + 1)
    BY CalendarAssumption
<1>2. Start[0] \in Nat /\ Start[LastMonth + 1] \in Nat
    BY <1>1, StartIsNat
<1>3. d \in Int /\ Start[0] <= d /\ d < Start[LastMonth + 1]
    BY <1>2 DEF Dates
<1>4. T \subseteq Nat /\ LastMonth + 1 \in T
    BY <1>1, <1>3
<1>5. PICK n \in T : \A m \in T : n <= m
    BY <1>4, LeastOf
<1>6. n # 0
    BY <1>1, <1>2, <1>3, <1>5
<1>7. n - 1 \in Months /\ n - 1 \in 0..(LastMonth + 1) /\ (n - 1) + 1 = n /\ ~ (n <= n - 1)
    BY <1>1, <1>5, <1>6 DEF Months
<1>8. n - 1 \notin T
    BY <1>5, <1>7
<1>9. Start[n - 1] \in Nat
    BY <1>7, StartIsNat
<1>10. Start[n - 1] <= d /\ d < Start[(n - 1) + 1]
    BY <1>3, <1>5, <1>7, <1>8, <1>9
<1>11. MonthOf(d) = n - 1
    BY <1>3, <1>7, <1>10, MonthIs
<1> QED
    BY <1>3, <1>7, <1>10, <1>11

(* A billing date is a day of its month, whatever the billing day.         *)
LEMMA BillingDateFits ==
    ASSUME NEW m \in Months, NEW b \in Nat \ {0}
    PROVE  /\ BillingDate(m, b) \in Dates
           /\ BillingDate(m, b) \in Int
           /\ Start[m] <= BillingDate(m, b)
           /\ BillingDate(m, b) < Start[m + 1]
           /\ MonthOf(BillingDate(m, b)) = m
<1>1. /\ Start[m] \in Nat /\ Start[m + 1] \in Nat /\ Start[m] < Start[m + 1]
      /\ b \in Nat /\ b >= 1
  <2>1. m \in 0..(LastMonth + 1) /\ m + 1 \in 0..(LastMonth + 1)
      BY CalendarAssumption DEF Months
  <2> QED
      BY <2>1, CalendarAssumption
<1>2. /\ BillingDate(m, b) \in Int
      /\ Start[m] <= BillingDate(m, b)
      /\ BillingDate(m, b) < Start[m + 1]
    BY <1>1 DEF BillingDate, MonthEnd
<1> QED
    BY <1>2, MonthIs

LEMMA BillingDateIs ==
    ASSUME NEW m \in Months, NEW b \in Days
    PROVE  /\ BillingDate(m, b) \in Dates
           /\ BillingDate(m, b) \in Int
           /\ Start[m] <= BillingDate(m, b)
           /\ BillingDate(m, b) < Start[m + 1]
           /\ MonthOf(BillingDate(m, b)) = m
BY DaysAssumption, BillingDateFits

(* The cycle of a month that has one before it.                            *)
Made(a, m, b) == [acct |-> a, start |-> CycleStart(m, b), end |-> CycleEnd(m, b)]

LEMMA MadeIsCycle ==
    ASSUME NEW a \in Accounts, NEW m \in 1..LastMonth, NEW b \in Days
    PROVE  /\ Made(a, m, b) \in Cycle
           /\ Made(a, m, b).acct = a
           /\ Made(a, m, b).start = CycleStart(m, b)
           /\ Made(a, m, b).end = BillingDate(m, b)
           /\ MonthOf(Made(a, m, b).end) = m
<1>1. LastMonth \in Nat /\ m \in Months /\ m - 1 \in Months /\ (m - 1) + 1 = m
    BY CalendarAssumption DEF Months
<1>2. /\ BillingDate(m, b) \in Dates /\ MonthOf(BillingDate(m, b)) = m
      /\ BillingDate(m - 1, b) \in Int
      /\ Start[m - 1] <= BillingDate(m - 1, b)
      /\ BillingDate(m - 1, b) < Start[m]
    BY <1>1, BillingDateIs
<1>3. CycleStart(m, b) \in Dates
  <2>1. /\ m \in 0..(LastMonth + 1) /\ m + 1 \in 0..(LastMonth + 1)
        /\ m - 1 \in 0..(LastMonth + 1) /\ m < m + 1
      BY <1>1
  <2>2. /\ Start[m] \in Nat /\ Start[m + 1] \in Nat /\ Start[m - 1] \in Nat
        /\ Start[m] < Start[m + 1]
      BY <2>1, StartIsNat, StartGrows
  <2>3. CASE BillingDate(m - 1, b) + 1 < Start[m]
    <3>1. /\ BillingDate(m - 1, b) + 1 \in Int
          /\ Start[m - 1] <= BillingDate(m - 1, b) + 1
          /\ BillingDate(m - 1, b) + 1 < Start[(m - 1) + 1]
        BY <1>1, <1>2, <2>2, <2>3
    <3> QED
        BY <1>1, <3>1, MonthIs DEF CycleStart
  <2>4. CASE ~ (BillingDate(m - 1, b) + 1 < Start[m])
    <3>1. /\ BillingDate(m - 1, b) + 1 \in Int
          /\ Start[m] <= BillingDate(m - 1, b) + 1
          /\ BillingDate(m - 1, b) + 1 < Start[m + 1]
        BY <1>2, <2>2, <2>4
    <3> QED
        BY <1>1, <3>1, MonthIs DEF CycleStart
  <2> QED
      BY <2>3, <2>4
<1> QED
    BY <1>2, <1>3 DEF Made, Cycle, CycleEnd

(* A later month has a later billing date.                                 *)
LEMMA BillingDateRises ==
    ASSUME NEW m \in Months, NEW n \in Months, m < n, NEW b \in Nat \ {0}
    PROVE  BillingDate(m, b) < BillingDate(n, b)
<1>1. LastMonth \in Nat /\ m + 1 \in 0..(LastMonth + 1) /\ n \in 0..(LastMonth + 1)
    BY CalendarAssumption DEF Months
<1>2. m + 1 < n => Start[m + 1] < Start[n]
    BY <1>1, StartGrows
<1>3. Start[m + 1] \in Nat /\ Start[n] \in Nat /\ m \in Nat /\ n \in Nat
    BY <1>1, StartIsNat DEF Months
<1>4. Start[m + 1] <= Start[n]
    BY <1>2, <1>3
<1>5. /\ BillingDate(m, b) \in Int /\ BillingDate(m, b) < Start[m + 1]
      /\ BillingDate(n, b) \in Int /\ Start[n] <= BillingDate(n, b)
    BY BillingDateFits
<1> QED
    BY <1>3, <1>4, <1>5

LEMMA BillingDateGrows ==
    ASSUME NEW m \in Months, NEW n \in Months, m < n, NEW b \in Days
    PROVE  BillingDate(m, b) < BillingDate(n, b)
BY DaysAssumption, BillingDateRises

(* Of two cycles of one billing day, the one of the earlier month ends     *)
(* before the other starts.                                                *)
LEMMA MadeApart ==
    ASSUME NEW m \in 1..LastMonth, NEW n \in 1..LastMonth, m < n, NEW b \in Days
    PROVE  CycleEnd(m, b) < CycleStart(n, b)
<1>1. /\ LastMonth \in Nat /\ m \in Months /\ n - 1 \in Months
      /\ m \in Nat /\ n \in Nat /\ (m = n - 1 \/ m < n - 1)
    BY CalendarAssumption DEF Months
<1>2. BillingDate(m, b) \in Int /\ BillingDate(n - 1, b) \in Int
    BY <1>1, BillingDateIs
<1>3. m < n - 1 => BillingDate(m, b) < BillingDate(n - 1, b)
    BY <1>1, BillingDateGrows
<1> QED
    BY <1>1, <1>2, <1>3 DEF CycleStart, CycleEnd

(* A later day is in no earlier month.                                     *)
LEMMA MonthGrows ==
    ASSUME NEW d \in Dates, NEW e \in Dates, d <= e
    PROVE  MonthOf(d) <= MonthOf(e)
<1> DEFINE m == MonthOf(d)
           n == MonthOf(e)
<1>1. /\ m \in Months /\ Start[m] <= d /\ d \in Int
      /\ n \in Months /\ e < Start[n + 1] /\ e \in Int
    BY MonthOfDate
<1> HIDE DEF m, n
<1>2. LastMonth \in Nat /\ m \in 0..(LastMonth + 1) /\ n + 1 \in 0..(LastMonth + 1) /\ m \in Nat /\ n \in Nat
    BY <1>1, CalendarAssumption DEF Months
<1>3. n + 1 < m => Start[n + 1] < Start[m]
    BY <1>2, StartGrows
<1>4. Start[n + 1] \in Nat /\ Start[m] \in Nat
    BY <1>2, StartIsNat
<1>5. ~ (n + 1 <= m)
    BY <1>1, <1>2, <1>3, <1>4
<1>6. m <= n
    BY <1>2, <1>5
<1> QED
    BY <1>6 DEF m, n

(* The months in use have one before them, and today's one after it.       *)
LEMMA MonthsInUse ==
    ASSUME NEW d \in Dates, Start[2] <= d
    PROVE  /\ MonthOf(d) \in 2..LastMonth
           /\ d < Start[LastMonth] => MonthOf(d) \in 2..(LastMonth - 1)
<1>1. /\ LastMonth \in Nat /\ LastMonth >= 3
      /\ 2 \in 0..(LastMonth + 1) /\ LastMonth \in 0..(LastMonth + 1) /\ 3 \in 0..(LastMonth + 1)
      /\ 2 \in Months /\ LastMonth \in Months
    BY CalendarAssumption, TodayAssumption DEF Months
<1>2. Start[2] \in Nat /\ Start[2] < Start[3] /\ Start[3] \in Nat
    BY <1>1, StartIsNat, StartGrows
<1>3. Start[LastMonth] \in Nat /\ Start[LastMonth] < Start[LastMonth + 1] /\ Start[LastMonth + 1] \in Nat
    BY <1>1, CalendarAssumption
<1>4. MonthOf(Start[2]) = 2 /\ Start[2] \in Dates
    BY <1>1, <1>2, MonthIs
<1>5. MonthOf(d) \in Months /\ d \in Int /\ Start[MonthOf(d)] <= d
    BY MonthOfDate
<1>6. 2 <= MonthOf(d)
    BY <1>4, MonthGrows
<1>7. ASSUME d < Start[LastMonth]
      PROVE  MonthOf(d) # LastMonth
    BY <1>3, <1>5, <1>7
<1> QED
    BY <1>1, <1>5, <1>6, <1>7 DEF Months

LEMMA RowDates ==
    ASSUME NEW r \in Rows
    PROVE  r.date \in Dates /\ Start[2] <= r.date
BY RowsAssumption, TodayAssumption

LEMMA TodayIsDate ==
    ASSUME NEW d \in FirstToday .. LastToday
    PROVE  d \in Dates /\ Start[2] <= d /\ d < Start[LastMonth]
<1>1. /\ LastMonth \in Nat /\ LastMonth >= 3
      /\ 0 \in 0..(LastMonth + 1) /\ 2 \in 0..(LastMonth + 1)
      /\ LastMonth \in 0..(LastMonth + 1) /\ LastMonth + 1 \in 0..(LastMonth + 1)
    BY CalendarAssumption, TodayAssumption
<1>2. /\ Start[0] \in Nat /\ Start[2] \in Nat /\ Start[LastMonth] \in Nat
      /\ Start[LastMonth + 1] \in Nat
    BY <1>1, StartIsNat
<1>3. Start[0] < Start[2] /\ Start[LastMonth] < Start[LastMonth + 1]
    BY <1>1, StartGrows
<1>4. d \in Int /\ FirstToday <= d /\ d <= LastToday
    BY TodayAssumption
<1>5. Start[2] <= d /\ d < Start[LastMonth]
    BY <1>2, <1>4, TodayAssumption
<1> QED
    BY <1>2, <1>3, <1>4, <1>5 DEF Dates

-----------------------------------------------------------------------------
(* The months that regeneration makes cycles for. *)

(* A table of transactions.                                                *)
IsTable(T) == DOMAIN T \subseteq TxnIds /\ \A t \in DOMAIN T : T[t] \in Txn

(* Of the rows of a, one is dated no later than this month.                *)
Early(T, a) ==
    TxnsOf(T, a) # {} =>
        \E t \in TxnsOf(T, a) : MonthOf(T[t].row.date) <= MonthOf(today)

(* The rows of U say what those of T say.                                  *)
SameRows(T, U) ==
    /\ DOMAIN U = DOMAIN T
    /\ \A t \in DOMAIN T : U[t].acct = T[t].acct /\ U[t].row = T[t].row

LEMMA SameTrans ==
    ASSUME NEW T, NEW U, NEW V, SameRows(T, U), SameRows(U, V)
    PROVE  SameRows(T, V)
BY DEF SameRows

LEMMA EarlySame ==
    ASSUME NEW T, NEW U, SameRows(T, U), NEW a
    PROVE  Early(T, a) <=> Early(U, a)
<1>1. TxnsOf(T, a) = TxnsOf(U, a)
    BY DEF SameRows, TxnsOf
<1>2. \A t \in TxnsOf(T, a) : T[t].row = U[t].row
    BY DEF SameRows, TxnsOf
<1> QED
    BY <1>1, <1>2 DEF Early

(* The months a cycle is wanted for have one before them, and where not    *)
(* all rows are dated ahead they are two at least.                         *)
LEMMA WantedFacts ==
    ASSUME today \in FirstToday .. LastToday, NEW T, IsTable(T), NEW a, NEW b \in Days
    PROVE  /\ WantedMonths(T, a, b) \subseteq 1..LastMonth
           /\ Early(T, a) /\ MaxCycles >= 2 =>
                 \E m \in 1..(LastMonth - 1) : {m, m + 1} \subseteq WantedMonths(T, a, b)
<1> DEFINE dates == {T[t].row.date : t \in TxnsOf(T, a)}
           earliest == IF dates = {} THEN today
                       ELSE CHOOSE d \in dates : \A e \in dates : d <= e
           now == MonthOf(today)
           first == MonthOf(earliest) - 1
           last == IF today > BillingDate(now, b) THEN now + 1 ELSE now
<1>1. WantedMonths(T, a, b) = {m \in first .. last : m > last - MaxCycles}
    BY DEF WantedMonths
<1>2. today \in Dates /\ now \in 2..(LastMonth - 1) /\ LastMonth \in Nat
    BY TodayIsDate, MonthsInUse, CalendarAssumption
<1>3. ASSUME NEW d \in dates
      PROVE  \E r \in Rows : d = r.date
    BY DEF IsTable, TxnsOf, Txn
<1>4. dates # {} => earliest \in dates /\ \A e \in dates : earliest <= e
  <2>1. dates \subseteq Nat
    <3>1. Dates \subseteq Nat
      <4>1. /\ 0 \in 0..(LastMonth + 1) /\ LastMonth + 1 \in 0..(LastMonth + 1)
          BY CalendarAssumption
      <4>2. Start[0] \in Nat /\ Start[LastMonth + 1] \in Nat
          BY <4>1, StartIsNat
      <4> QED
          BY <4>2 DEF Dates
    <3> QED
        BY <1>3, <3>1, RowDates
  <2> HIDE DEF dates
  <2>2. dates # {} => \E d \in dates : \A e \in dates : d <= e
      BY <2>1, LeastOf
  <2> QED
      BY <2>2
<1>12. dates = {} => earliest = today
    OBVIOUS
<1>13. \A e \in dates : earliest <= e
    BY <1>4
<1> HIDE DEF dates, earliest
<1>5. earliest \in Dates /\ Start[2] <= earliest
  <2>1. CASE dates = {}
      BY <1>12, <2>1, TodayIsDate
  <2>2. CASE dates # {}
      BY <1>3, <1>4, <2>2, RowDates
  <2> QED
      BY <2>1, <2>2
<1>6. MonthOf(earliest) \in 2..LastMonth
    BY <1>5, MonthsInUse
<1>7. Early(T, a) => MonthOf(earliest) <= now
  <2>7. MonthOf(earliest) \in Int /\ now \in Int
      BY <1>2, <1>6
  <2>5. CASE dates = {}
    <3>1. earliest = today
        BY <1>12, <2>5
    <3> QED
        BY <2>7, <3>1
  <2>6. ASSUME dates # {}, Early(T, a)
        PROVE  MonthOf(earliest) <= now
    <3>1. TxnsOf(T, a) # {}
        BY <2>6 DEF dates
    <3>2. PICK t \in TxnsOf(T, a) : MonthOf(T[t].row.date) <= now
        BY <2>6, <3>1 DEF Early
    <3> DEFINE d == T[t].row.date
    <3>3. d \in dates
        BY DEF dates
    <3>4. d \in Dates
        BY <1>3, <3>3, RowDates
    <3>5. earliest <= d
        BY <1>13, <3>3
    <3> HIDE DEF d, now
    <3>6. MonthOf(earliest) <= MonthOf(d)
        BY <1>5, <3>4, <3>5, MonthGrows
    <3>7. MonthOf(d) \in Int
        BY <3>4, MonthOfDate, CalendarAssumption DEF Months
    <3>8. MonthOf(d) <= now
        BY <3>2 DEF d
    <3> QED
        BY <2>7, <3>6, <3>7, <3>8
  <2> QED
      BY <2>5, <2>6
<1>8. last \in now..(now + 1) /\ first \in 1..(LastMonth - 1) /\ now \in Int /\ last \in 2..LastMonth
    BY <1>2, <1>6
<1> HIDE DEF last
<1>9. MaxCycles \in Nat
    BY LimitAssumption
<1>10. WantedMonths(T, a, b) \subseteq 1..LastMonth
    BY <1>1, <1>2, <1>8, <1>9
<1>11. ASSUME Early(T, a), MaxCycles >= 2
       PROVE  \E m \in 1..(LastMonth - 1) : {m, m + 1} \subseteq WantedMonths(T, a, b)
  <2>1. first <= now - 1
      BY <1>2, <1>6, <1>7, <1>11
  <2> HIDE DEF first, now
  <2>2. last - 1 \in 1..(LastMonth - 1) /\ (last - 1) + 1 = last
      BY <1>2, <1>8
  <2>3. {last - 1, last} \subseteq WantedMonths(T, a, b)
      BY <1>1, <1>2, <1>8, <1>9, <1>11, <2>1
  <2> QED
      BY <2>2, <2>3
<1> QED
    BY <1>10, <1>11

-----------------------------------------------------------------------------
(* Transactions one at a time. *)

LEMMA Fields ==
    ASSUME NEW x \in Txn
    PROVE  /\ x.acct \in Accounts /\ x.row \in Rows /\ x.cycle \in Cycle \cup {NoCycle}
           /\ x.detached \in BOOLEAN /\ x.chosen \in BOOLEAN /\ x.imported \in BOOLEAN
BY DEF Txn

(* A transaction put on a cycle by its date.                               *)
Dated(x, c) == [x EXCEPT !.cycle = c]

LEMMA DatedFacts ==
    ASSUME NEW x \in Txn, NEW c \in Cycle \cup {NoCycle}
    PROVE  /\ Dated(x, c) \in Txn
           /\ Dated(x, c).cycle = c
           /\ Dated(x, c).acct = x.acct /\ Dated(x, c).row = x.row
           /\ (Dated(x, c).detached <=> x.detached) /\ (Dated(x, c).chosen <=> x.chosen)
           /\ (Dated(x, c).imported <=> x.imported)
BY DEF Txn, Dated

(* A transaction whose cycle goes.                                         *)
Loose(x) == [x EXCEPT !.cycle = NoCycle, !.detached = FALSE, !.chosen = FALSE]

LEMMA LooseFacts ==
    ASSUME NEW x \in Txn
    PROVE  /\ Loose(x) \in Txn
           /\ Loose(x).cycle = NoCycle
           /\ Loose(x).acct = x.acct /\ Loose(x).row = x.row
           /\ ~ Loose(x).detached /\ ~ Loose(x).chosen
           /\ (Loose(x).imported <=> x.imported)
BY DEF Txn, Loose

LEMMA AssignFacts ==
    ASSUME NEW x \in Txn, NEW c \in Cycle
    PROVE  /\ Assign(x, c) \in Txn
           /\ Assign(x, c).cycle = c
           /\ Assign(x, c).acct = x.acct /\ Assign(x, c).row = x.row
           /\ ~ Assign(x, c).detached /\ Assign(x, c).chosen
           /\ (Assign(x, c).imported <=> x.imported)
BY DEF Txn, Assign

LEMMA NewTxnFacts ==
    ASSUME NEW a \in Accounts, NEW r \in Rows
    PROVE  /\ NewTxn(a, r) \in Txn
           /\ NewTxn(a, r).acct = a /\ NewTxn(a, r).row = r
           /\ NewTxn(a, r).cycle = NoCycle /\ ~ NewTxn(a, r).detached
           /\ ~ NewTxn(a, r).chosen /\ ~ NewTxn(a, r).imported
BY DEF Txn, NewTxn

-----------------------------------------------------------------------------
(* Regenerating the cycles of an account. *)

(* The cycles that a billing day leaves misaligned take all with them.     *)
Gone(C, a, b) == IF Misaligned(C, a, b) THEN CyclesOf(C, a) ELSE {}

(* What is left of a transaction when the cycles in gone go.               *)
Left(x, gone) == IF x.cycle \in gone THEN Loose(x) ELSE x

(* The transaction y is x, or x on the cycle of D its date falls in.       *)
Filled(x, y, a, D) ==
    \/ y = x
    \/ /\ TakesDefault(x, a)
       /\ \E c \in CyclesOf(D, a) : Within(x.row.date, c) /\ y = Dated(x, c)

LEMMA LeftFacts ==
    ASSUME NEW x \in Txn, NEW gone
    PROVE  /\ Left(x, gone) \in Txn
           /\ Left(x, gone).acct = x.acct /\ Left(x, gone).row = x.row
           /\ (Left(x, gone).imported <=> x.imported)
BY LooseFacts DEF Left

LEMMA EnsureFacts ==
    ASSUME NEW T, IsTable(T), NEW C, NEW a, NEW b
    PROVE  LET e == Ensure([txns |-> T, cycles |-> C], a, b)
               gone == Gone(C, a, b)
           IN  /\ e = [txns |-> e.txns, cycles |-> e.cycles]
               /\ DOMAIN e.txns = DOMAIN T
               /\ \A t \in DOMAIN T : Filled(Left(T[t], gone), e.txns[t], a, e.cycles)
               /\ \E K : /\ IsTable(K) /\ SameRows(T, K)
                         /\ e.cycles = (C \ gone)
                               \cup Missing([txns |-> K, cycles |-> C \ gone], a, b)
<1> DEFINE s == [txns |-> T, cycles |-> C]
           gone == Gone(C, a, b)
           kept == DropMisaligned(s, a, b)
           K == kept.txns
           made == Missing(kept, a, b)
           D == (C \ gone) \cup made
           full == [kept EXCEPT !.cycles = @ \cup made]
           e == Ensure(s, a, b)
<1>1. /\ kept = [txns |-> K, cycles |-> C \ gone]
      /\ DOMAIN K = DOMAIN T
      /\ \A t \in DOMAIN T : K[t] = Left(T[t], gone)
  <2>1. CASE Misaligned(C, a, b)
    <3>1. kept = LetGo(s, CyclesOf(C, a)) /\ gone = CyclesOf(C, a)
        BY <2>1 DEF DropMisaligned, Gone
    <3>2. kept = [txns |-> [t \in DOMAIN T |->
                             IF T[t].cycle \in gone THEN Loose(T[t]) ELSE T[t]],
                  cycles |-> C \ gone]
        BY <3>1 DEF LetGo, Loose
    <3> HIDE DEF kept, gone
    <3> QED
        BY <3>2 DEF Left
  <2>2. CASE ~ Misaligned(C, a, b)
    <3>1. kept = s /\ gone = {}
        BY <2>2 DEF DropMisaligned, Gone
    <3> HIDE DEF kept, gone
    <3> QED
        BY <3>1 DEF Left
  <2> QED
      BY <2>1, <2>2
<1>2. IsTable(K)
  <2> HIDE DEF K, gone
  <2> QED
      BY <1>1, LeftFacts DEF IsTable
<1>13. SameRows(T, K)
  <2> HIDE DEF K, gone
  <2>1. \A t \in DOMAIN T : K[t].acct = T[t].acct /\ K[t].row = T[t].row
      BY <1>1, LeftFacts DEF IsTable
  <2> QED
      BY <1>1, <2>1 DEF SameRows
<1>3. e = Backfill(full, a)
    BY DEF Ensure
<1> HIDE DEF kept, gone, made, K
<1>4. full = [txns |-> K, cycles |-> D]
    BY <1>1
<1> DEFINE fits(x) == {c \in CyclesOf(full.cycles, a) : Within(x.row.date, c)}
           F == [t \in DOMAIN full.txns |->
                   IF TakesDefault(full.txns[t], a) /\ fits(full.txns[t]) # {}
                     THEN Dated(full.txns[t], CHOOSE c \in fits(full.txns[t]) : TRUE)
                     ELSE full.txns[t]]
<1>5. Backfill(full, a) = [full EXCEPT !.txns = F]
  <2> HIDE DEF full
  <2> QED
      BY DEF Backfill, Dated
<1>12. full.txns = K /\ full.cycles = D
    BY <1>4
<1>6. e = [txns |-> F, cycles |-> D]
  <2> HIDE DEF F, D, full
  <2> QED
      BY <1>3, <1>4, <1>5
<1> HIDE DEF full, D
<1>7. ASSUME NEW t \in DOMAIN T
      PROVE  Filled(Left(T[t], gone), F[t], a, D)
  <2> DEFINE x == K[t]
  <2>1. x = Left(T[t], gone) /\ t \in DOMAIN K
      BY <1>1
  <2>2. CASE TakesDefault(x, a) /\ fits(x) # {}
    <3>1. F[t] = Dated(x, CHOOSE c \in fits(x) : TRUE)
        BY <1>12, <2>1, <2>2
    <3>2. (CHOOSE c \in fits(x) : TRUE) \in fits(x)
        BY <2>2
    <3> QED
        BY <1>12, <2>1, <2>2, <3>1, <3>2 DEF Filled
  <2>3. CASE ~ (TakesDefault(x, a) /\ fits(x) # {})
    <3>1. F[t] = x
        BY <1>12, <2>1, <2>3
    <3> QED
        BY <2>1, <3>1 DEF Filled
  <2> QED
      BY <2>2, <2>3
<1>8. DOMAIN F = DOMAIN T
    BY <1>1, <1>12
<1>9. D = (C \ gone) \cup Missing([txns |-> K, cycles |-> C \ gone], a, b)
    BY <1>1 DEF made, D
<1> HIDE DEF F, e
<1>10. e = [txns |-> e.txns, cycles |-> e.cycles] /\ e.txns = F /\ e.cycles = D
    BY <1>6
<1>11. /\ e = [txns |-> e.txns, cycles |-> e.cycles]
       /\ DOMAIN e.txns = DOMAIN T
       /\ \A t \in DOMAIN T : Filled(Left(T[t], gone), e.txns[t], a, e.cycles)
       /\ \E M : /\ IsTable(M) /\ SameRows(T, M)
                 /\ e.cycles = (C \ gone) \cup Missing([txns |-> M, cycles |-> C \ gone], a, b)
    BY <1>2, <1>7, <1>8, <1>9, <1>10, <1>13
<1> QED
    BY <1>11 DEF e, gone

(* The cycles generated are cycles of their months.                        *)
LEMMA MissingFacts ==
    ASSUME today \in FirstToday .. LastToday, NEW T, IsTable(T), NEW C,
           NEW a \in Accounts, NEW b \in Days
    PROVE  /\ Missing([txns |-> T, cycles |-> C], a, b) \subseteq Cycle
           /\ \A c \in Missing([txns |-> T, cycles |-> C], a, b) :
                 \E m \in 1..LastMonth : c = Made(a, m, b)
           /\ \A m \in WantedMonths(T, a, b) :
                 \/ \E c \in CyclesOf(C, a) :
                       MonthOf(c.end) = m \/ c.start = CycleStart(m, b)
                 \/ Made(a, m, b) \in Missing([txns |-> T, cycles |-> C], a, b)
<1> DEFINE s == [txns |-> T, cycles |-> C]
           W == WantedMonths(T, a, b)
           covered == {MonthOf(c.end) : c \in CyclesOf(C, a)}
           made == {Made(a, m, b) : m \in W \ covered}
<1>1. Missing(s, a, b) = {c \in made : \A d \in CyclesOf(C, a) : d.start # c.start}
    BY DEF Missing, Made
<1>2. W \subseteq 1..LastMonth
    BY WantedFacts
<1> HIDE DEF W
<1>3. ASSUME NEW c \in Missing(s, a, b)
      PROVE  \E m \in 1..LastMonth : c = Made(a, m, b)
    BY <1>1, <1>2
<1>4. Missing(s, a, b) \subseteq Cycle
    BY <1>3, MadeIsCycle
<1>5. ASSUME NEW m \in W
      PROVE  \/ \E c \in CyclesOf(C, a) : MonthOf(c.end) = m \/ c.start = CycleStart(m, b)
             \/ Made(a, m, b) \in Missing(s, a, b)
  <2>1. Made(a, m, b).start = CycleStart(m, b)
      BY <1>2, <1>5, MadeIsCycle
  <2> QED
      BY <1>1, <1>5, <2>1
<1> QED
    BY <1>3, <1>4, <1>5 DEF W

(* A transaction whose cycle is its account's, and was named by the user   *)
(* or holds its date.                                                      *)
Placed(x, C) ==
    x.cycle # NoCycle =>
        /\ x.cycle \in CyclesOf(C, x.acct)
        /\ x.chosen \/ Within(x.row.date, x.cycle)

(* A transaction that is detached has no cycle.                            *)
Tied(x) == x.detached => x.cycle = NoCycle

(* What regeneration keeps of a transaction.                               *)
Keeps(x, y, C, D) ==
    /\ y \in Txn
    /\ y.acct = x.acct /\ y.row = x.row /\ (y.imported <=> x.imported)
    /\ Placed(x, C) => Placed(y, D)
    /\ Tied(x) => Tied(y) /\ (x.detached => y = x)

LEMMA FilledKeeps ==
    ASSUME NEW x \in Txn, NEW C \in SUBSET Cycle, NEW D \in SUBSET Cycle, NEW a, NEW gone,
           gone \subseteq C, C \ gone \subseteq D,
           NEW y, Filled(Left(x, gone), y, a, D)
    PROVE  Keeps(x, y, C, D)
<1> DEFINE z == Left(x, gone)
<1>1. /\ z \in Txn /\ z.acct = x.acct /\ z.row = x.row /\ (z.imported <=> x.imported)
    BY LeftFacts
<1>2. Placed(x, C) => Placed(z, D)
  <2>1. CASE x.cycle \in gone
    <3>1. z.cycle = NoCycle
        BY <2>1, LooseFacts DEF Left
    <3> QED
        BY <3>1 DEF Placed
  <2>2. CASE x.cycle \notin gone
    <3>1. z = x
        BY <2>2 DEF Left
    <3> QED
        BY <2>2, <3>1 DEF Placed, CyclesOf
  <2> QED
      BY <2>1, <2>2
<1>3. Tied(x) => Tied(z) /\ (x.detached => z = x)
  <2>1. CASE x.cycle \in gone
    <3>1. x.cycle # NoCycle
        BY <2>1, NoCycleAssumption
    <3>2. ~ z.detached
        BY <2>1, LooseFacts DEF Left
    <3> QED
        BY <3>1, <3>2 DEF Tied
  <2>2. CASE x.cycle \notin gone
      BY <2>2 DEF Left
  <2> QED
      BY <2>1, <2>2
<1> HIDE DEF z
<1>4. CASE y = z
    BY <1>1, <1>2, <1>3, <1>4 DEF Keeps
<1>5. CASE y # z
  <2>1. PICK c \in CyclesOf(D, a) : Within(z.row.date, c) /\ y = Dated(z, c)
      BY <1>5 DEF Filled, z
  <2>2. z.acct = a /\ ~ z.detached
      BY <1>5 DEF Filled, TakesDefault, z
  <2>3. c \in Cycle /\ c \in CyclesOf(D, a)
      BY <2>1 DEF CyclesOf
  <2>4. /\ y \in Txn /\ y.cycle = c /\ y.acct = z.acct /\ y.row = z.row
        /\ (y.detached <=> z.detached) /\ (y.imported <=> z.imported)
      BY <1>1, <2>1, <2>3, DatedFacts
  <2>5. Placed(y, D)
      BY <2>1, <2>2, <2>3, <2>4 DEF Placed
  <2>6. Tied(x) => Tied(y) /\ ~ x.detached
      BY <1>3, <2>2, <2>4 DEF Tied
  <2> QED
      BY <1>1, <2>4, <2>5, <2>6 DEF Keeps
<1> QED
    BY <1>4, <1>5

(* The rows and the cycles that regeneration leaves.                       *)
Rewritten(T, C, a, b) == Ensure([txns |-> T, cycles |-> C], a, b).txns
Regenerated(T, C, a, b) == Ensure([txns |-> T, cycles |-> C], a, b).cycles

(* What regeneration promises: every row stays and keeps what it says, and *)
(* only the cycles of an account that is misaligned go.                    *)
Ensured(T, C, a, b) ==
    /\ Ensure([txns |-> T, cycles |-> C], a, b)
          = [txns |-> Rewritten(T, C, a, b), cycles |-> Regenerated(T, C, a, b)]
    /\ DOMAIN Rewritten(T, C, a, b) = DOMAIN T
    /\ IsTable(Rewritten(T, C, a, b))
    /\ Regenerated(T, C, a, b) \in SUBSET Cycle
    /\ C \ Gone(C, a, b) \subseteq Regenerated(T, C, a, b)
    /\ \A t \in DOMAIN T :
          Keeps(T[t], Rewritten(T, C, a, b)[t], C, Regenerated(T, C, a, b))

LEMMA EnsureKeeps ==
    ASSUME today \in FirstToday .. LastToday, NEW T, IsTable(T), NEW C \in SUBSET Cycle,
           NEW a \in Accounts, NEW b \in Days
    PROVE  Ensured(T, C, a, b)
<1> DEFINE U == Rewritten(T, C, a, b)
           D == Regenerated(T, C, a, b)
           gone == Gone(C, a, b)
<1>1. /\ Ensure([txns |-> T, cycles |-> C], a, b) = [txns |-> U, cycles |-> D]
      /\ DOMAIN U = DOMAIN T
      /\ \A t \in DOMAIN T : Filled(Left(T[t], gone), U[t], a, D)
      /\ \E K : /\ IsTable(K) /\ SameRows(T, K)
                /\ D = (C \ gone) \cup Missing([txns |-> K, cycles |-> C \ gone], a, b)
    BY EnsureFacts DEF Rewritten, Regenerated
<1>2. gone \subseteq C
    BY DEF Gone, CyclesOf
<1> HIDE DEF U, D, gone
<1>3. D \in SUBSET Cycle /\ C \ gone \subseteq D
  <2>1. PICK K : /\ IsTable(K)
                 /\ D = (C \ gone) \cup Missing([txns |-> K, cycles |-> C \ gone], a, b)
      BY <1>1
  <2>2. Missing([txns |-> K, cycles |-> C \ gone], a, b) \subseteq Cycle
      BY <2>1, MissingFacts
  <2> QED
      BY <2>1, <2>2
<1>4. ASSUME NEW t \in DOMAIN T
      PROVE  Keeps(T[t], U[t], C, D)
  <2>1. T[t] \in Txn /\ Filled(Left(T[t], gone), U[t], a, D)
      BY <1>1 DEF IsTable
  <2> QED
      BY <1>2, <1>3, <2>1, FilledKeeps
<1>5. IsTable(U)
    BY <1>1, <1>4 DEF IsTable, Keeps
<1> QED
    BY <1>1, <1>3, <1>4, <1>5 DEF U, D, gone, Ensured

-----------------------------------------------------------------------------
(* New transactions. *)

LEMMA NextIdFacts ==
    ASSUME NEW T, IsTable(T), DOMAIN T # TxnIds
    PROVE  NextId(T) \in TxnIds /\ NextId(T) \notin DOMAIN T
<1> DEFINE free == TxnIds \ DOMAIN T
<1>1. free \subseteq Int /\ IsFiniteSet(free) /\ free # {}
    BY LimitAssumption, FS_Subset DEF IsTable
<1>2. \E i \in free : \A j \in free : i <= j
    BY <1>1, LeastInteger
<1> QED
    BY <1>2 DEF NextId

LEMMA InsertFacts ==
    ASSUME NEW T, IsTable(T), DOMAIN T # TxnIds, NEW x \in Txn
    PROVE  /\ IsTable(Insert(T, x))
           /\ DOMAIN Insert(T, x) = DOMAIN T \cup {NextId(T)}
           /\ NextId(T) \in TxnIds \ DOMAIN T
           /\ \A t \in DOMAIN T : Insert(T, x)[t] = T[t]
           /\ Insert(T, x)[NextId(T)] = x
BY NextIdFacts DEF Insert, IsTable

(* A row that an import writes.                                            *)
ImportedTxn(a, r, skip) == [NewTxn(a, r) EXCEPT !.imported = skip]

LEMMA ImportedTxnFacts ==
    ASSUME NEW a \in Accounts, NEW r \in Rows, NEW skip \in BOOLEAN
    PROVE  /\ ImportedTxn(a, r, skip) \in Txn
           /\ ImportedTxn(a, r, skip).acct = a /\ ImportedTxn(a, r, skip).row = r
           /\ ImportedTxn(a, r, skip).cycle = NoCycle
           /\ ~ ImportedTxn(a, r, skip).detached
           /\ ImportedTxn(a, r, skip).imported = skip
BY DEF ImportedTxn, Txn, NewTxn

(* One step of the recursion of InsertAll.                                 *)
InsertStep(T, a, rows, skip, g, k) ==
    IF k = 0 THEN T ELSE Insert(g[k - 1], ImportedTxn(a, rows[k], skip))

(* The recursion of InsertAll has a solution.                              *)
LEMMA InsertAllUnfolds ==
    ASSUME NEW T, NEW a, NEW rows, Len(rows) \in Nat, NEW skip
    PROVE  \E g : /\ g = [k \in 0 .. Len(rows) |-> InsertStep(T, a, rows, skip, g, k)]
                  /\ InsertAll(T, a, rows, skip) = g[Len(rows)]
<1> DEFINE N == Len(rows)
           Solves(g, m) == g = [k \in 0..m |-> InsertStep(T, a, rows, skip, g, k)]
           G == CHOOSE g : Solves(g, N)
           S == {m \in 0..N : \E g : Solves(g, m)}
<1>1. InsertAll(T, a, rows, skip) = G[N]
    BY DEF InsertAll, InsertStep, ImportedTxn
<1>2. N \in Nat
    OBVIOUS
<1>3. 0 \in S
  <2> DEFINE g == [k \in 0..0 |-> T]
  <2>1. Solves(g, 0)
      BY DEF InsertStep
  <2> QED
      BY <1>2, <2>1
<1>4. ASSUME NEW m \in 0..(N - 1), m \in S
      PROVE  m + 1 \in S
  <2>1. PICK g : Solves(g, m)
      BY <1>4
  <2> DEFINE h == [k \in 0..(m + 1) |->
                     IF k <= m THEN g[k] ELSE InsertStep(T, a, rows, skip, g, m + 1)]
  <2>2. m \in Nat /\ m + 1 \in 0..N
      BY <1>2
  <2>3. ASSUME NEW k \in 0..(m + 1)
        PROVE  h[k] = InsertStep(T, a, rows, skip, h, k)
    <3>1. h[k] = InsertStep(T, a, rows, skip, g, k)
      <4>1. CASE k <= m
        <5>1. k \in 0..m
            BY <2>2, <4>1
        <5> QED
            BY <2>1, <4>1, <5>1
      <4>2. CASE ~ (k <= m)
        <5>1. k = m + 1
            BY <2>2, <4>2
        <5> QED
            BY <4>2, <5>1
      <4> QED
          BY <4>1, <4>2
    <3>2. k # 0 => k - 1 \in 0..(m + 1) /\ k - 1 <= m
        BY <2>2
    <3>3. k # 0 => h[k - 1] = g[k - 1]
        BY <3>2
    <3> HIDE DEF h
    <3> QED
        BY <3>1, <3>3 DEF InsertStep
  <2>4. DOMAIN h = 0..(m + 1) /\ h = [k \in 0..(m + 1) |-> h[k]]
      OBVIOUS
  <2> HIDE DEF h
  <2>5. Solves(h, m + 1)
      BY <2>3, <2>4
  <2> QED
      BY <2>2, <2>5
<1> HIDE DEF S
<1>5. \A m \in 0..N : m \in S
    BY <1>2, <1>3, <1>4, Induct
<1> USE DEF S
<1>6. \E g : Solves(g, N)
    BY <1>2, <1>5
<1>7. Solves(G, N)
    BY <1>6
<1> HIDE DEF G
<1> QED
    BY <1>1, <1>7

(* The rows of an import, all with ids of their own, beside those there    *)
(* were.                                                                   *)
Added(T, n, a, rows, skip, g) ==
    /\ IsTable(g)
    /\ DOMAIN T \subseteq DOMAIN g
    /\ Cardinality(DOMAIN g) = Cardinality(DOMAIN T) + n
    /\ \A t \in DOMAIN T : g[t] = T[t]
    /\ \A t \in DOMAIN g \ DOMAIN T :
          \E i \in 1..n : g[t] = ImportedTxn(a, rows[i], skip)
    /\ (\A i, j \in 1..Len(rows) : i # j => rows[i] # rows[j]) =>
          \A t, u \in DOMAIN g \ DOMAIN T : t # u => g[t].row # g[u].row

LEMMA TableIsFinite ==
    ASSUME NEW T, IsTable(T)
    PROVE  IsFiniteSet(DOMAIN T) /\ Cardinality(DOMAIN T) \in Nat
BY LimitAssumption, FS_Subset, FS_CardinalityType DEF IsTable

LEMMA AddedOne ==
    ASSUME NEW T, IsTable(T), NEW a, NEW rows \in Seq(Rows), NEW skip,
           \A r \in Rows : ImportedTxn(a, r, skip) \in Txn /\ ImportedTxn(a, r, skip).row = r,
           NEW n \in 0..(Len(rows) - 1),
           Cardinality(DOMAIN T) + Len(rows) <= Cardinality(TxnIds),
           NEW g, Added(T, n, a, rows, skip, g)
    PROVE  Added(T, n + 1, a, rows, skip, Insert(g, ImportedTxn(a, rows[n + 1], skip)))
<1> DEFINE N == Len(rows)
           x == ImportedTxn(a, rows[n + 1], skip)
           h == Insert(g, x)
           k == NextId(g)
<1>1. /\ N \in Nat /\ n \in Nat /\ n + 1 \in 1..N /\ n + 1 \in 1..(n + 1)
      /\ \A i \in 1..N : rows[i] \in Rows
    OBVIOUS
<1>2. x \in Txn /\ x.row = rows[n + 1]
    BY <1>1
<1>3. /\ IsTable(g) /\ DOMAIN T \subseteq DOMAIN g
      /\ Cardinality(DOMAIN g) = Cardinality(DOMAIN T) + n
      /\ \A t \in DOMAIN T : g[t] = T[t]
      /\ \A t \in DOMAIN g \ DOMAIN T :
            \E i \in 1..n : g[t] = ImportedTxn(a, rows[i], skip)
    BY DEF Added
<1>4. DOMAIN g # TxnIds
  <2>1. Cardinality(DOMAIN T) \in Nat
      BY TableIsFinite
  <2> QED
      BY <1>1, <1>3, <2>1
<1> HIDE DEF x
<1>5. /\ IsTable(h) /\ DOMAIN h = DOMAIN g \cup {k} /\ k \notin DOMAIN g
      /\ \A t \in DOMAIN g : h[t] = g[t]
      /\ h[k] = x
    BY <1>2, <1>3, <1>4, InsertFacts
<1> HIDE DEF h, k, N
<1>6. Cardinality(DOMAIN h) = Cardinality(DOMAIN T) + (n + 1)
  <2>1. IsFiniteSet(DOMAIN g) /\ Cardinality(DOMAIN T) \in Nat
      BY <1>3, TableIsFinite
  <2>2. Cardinality(DOMAIN g \cup {k}) = Cardinality(DOMAIN g) + 1
      BY <1>5, <2>1, FS_AddElement
  <2> QED
      BY <1>1, <1>3, <1>5, <2>1, <2>2
<1>7. \A t \in DOMAIN T : h[t] = T[t]
    BY <1>3, <1>5
<1>8. ASSUME NEW t \in DOMAIN h \ DOMAIN T
      PROVE  \E i \in 1..(n + 1) : h[t] = ImportedTxn(a, rows[i], skip)
  <2>1. CASE t = k
      BY <1>1, <1>5, <2>1 DEF x
  <2>2. CASE t # k
    <3>1. PICK i \in 1..n : g[t] = ImportedTxn(a, rows[i], skip)
        BY <1>3, <1>5, <2>2
    <3>2. i \in 1..(n + 1) /\ h[t] = g[t]
        BY <1>1, <1>5, <2>2
    <3> QED
        BY <3>1, <3>2
  <2> QED
      BY <2>1, <2>2
<1>9. ASSUME \A i, j \in 1..Len(rows) : i # j => rows[i] # rows[j],
             NEW t \in DOMAIN h \ DOMAIN T, NEW u \in DOMAIN h \ DOMAIN T, t # u
      PROVE  h[t].row # h[u].row
  <2>1. ASSUME NEW v \in DOMAIN g \ DOMAIN T
        PROVE  h[v].row # x.row
    <3>1. PICK i \in 1..n : g[v] = ImportedTxn(a, rows[i], skip)
        BY <1>3
    <3>2. i \in 1..N /\ i # n + 1
        BY <1>1
    <3>3. rows[i] \in Rows
        BY <1>1, <3>2
    <3>4. h[v].row = rows[i]
        BY <1>5, <3>1, <3>3
    <3> QED
        BY <1>1, <1>2, <1>9, <3>2, <3>4 DEF N
  <2>2. \A v, w \in DOMAIN g \ DOMAIN T : v # w => g[v].row # g[w].row
      BY <1>9 DEF Added
  <2> QED
      BY <1>5, <1>9, <2>1, <2>2
<1>10. Added(T, n + 1, a, rows, skip, h)
    BY <1>3, <1>5, <1>6, <1>7, <1>8, <1>9 DEF Added
<1> QED
    BY <1>10 DEF h, x

LEMMA InsertAllFacts ==
    ASSUME NEW T, IsTable(T), NEW a, NEW rows \in Seq(Rows), NEW skip,
           \A r \in Rows : ImportedTxn(a, r, skip) \in Txn /\ ImportedTxn(a, r, skip).row = r,
           Cardinality(DOMAIN T) + Len(rows) <= Cardinality(TxnIds)
    PROVE  Added(T, Len(rows), a, rows, skip, InsertAll(T, a, rows, skip))
<1> DEFINE N == Len(rows)
<1>1. N \in Nat
    OBVIOUS
<1>2. PICK g : /\ g = [k \in 0..N |-> InsertStep(T, a, rows, skip, g, k)]
               /\ InsertAll(T, a, rows, skip) = g[N]
    BY <1>1, InsertAllUnfolds
<1>3. g[0] = T /\ \A n \in 0..(N - 1) : g[n + 1] = Insert(g[n], ImportedTxn(a, rows[n + 1], skip))
  <2>1. \A k \in 0..N : g[k] = InsertStep(T, a, rows, skip, g, k)
      BY <1>2
  <2>2. 0 \in 0..N
      BY <1>1
  <2>3. ASSUME NEW n \in 0..(N - 1)
        PROVE  g[n + 1] = Insert(g[n], ImportedTxn(a, rows[n + 1], skip))
    <3>1. n + 1 \in 0..N /\ n + 1 # 0 /\ (n + 1) - 1 = n
        BY <1>1
    <3> QED
        BY <2>1, <3>1 DEF InsertStep
  <2> QED
      BY <2>1, <2>2, <2>3 DEF InsertStep
<1> DEFINE S == {n \in 0..N : Added(T, n, a, rows, skip, g[n])}
<1>4. 0 \in S
  <2>1. Cardinality(DOMAIN T) \in Nat
      BY TableIsFinite
  <2>2. Added(T, 0, a, rows, skip, T)
      BY <2>1 DEF Added
  <2> QED
      BY <1>1, <1>3, <2>2
<1>5. ASSUME NEW n \in 0..(N - 1), n \in S
      PROVE  n + 1 \in S
  <2>1. Added(T, n, a, rows, skip, g[n]) /\ n + 1 \in 0..N
      BY <1>1, <1>5
  <2>2. Added(T, n + 1, a, rows, skip, Insert(g[n], ImportedTxn(a, rows[n + 1], skip)))
      BY <2>1, AddedOne
  <2> QED
      BY <1>3, <2>1, <2>2
<1> HIDE DEF S
<1>6. \A n \in 0..N : n \in S
    BY <1>1, <1>4, <1>5, Induct
<1>7. N \in S
    BY <1>1, <1>6
<1> QED
    BY <1>2, <1>7 DEF S

(* The positions of the rows that an import takes of its batch.            *)
Fresh(batch, known) ==
    {i \in DOMAIN batch : /\ batch[i] \notin known
                          /\ \A j \in 1..(i - 1) : batch[j] # batch[i]}

(* One step of the recursion of Dedupe.                                    *)
DedupeStep(batch, fresh, g, k) ==
    IF k = 0 THEN << >>
    ELSE IF k \in fresh THEN Append(g[k - 1], batch[k])
    ELSE g[k - 1]

(* The recursion of Dedupe has a solution.                                 *)
LEMMA DedupeUnfolds ==
    ASSUME NEW batch, Len(batch) \in Nat, NEW known
    PROVE  \E g : /\ g = [k \in 0 .. Len(batch) |->
                             DedupeStep(batch, Fresh(batch, known), g, k)]
                  /\ Dedupe(batch, known) = g[Len(batch)]
<1> DEFINE N == Len(batch)
           fresh == Fresh(batch, known)
           Solves(g, m) == g = [k \in 0..m |-> DedupeStep(batch, fresh, g, k)]
           G == CHOOSE g : Solves(g, N)
           S == {m \in 0..N : \E g : Solves(g, m)}
<1>1. Dedupe(batch, known) = G[N]
    BY DEF Dedupe, DedupeStep, Fresh
<1>2. N \in Nat
    OBVIOUS
<1> HIDE DEF fresh
<1>3. 0 \in S
  <2> DEFINE g == [k \in 0..0 |-> << >>]
  <2>1. Solves(g, 0)
      BY DEF DedupeStep
  <2> QED
      BY <1>2, <2>1
<1>4. ASSUME NEW m \in 0..(N - 1), m \in S
      PROVE  m + 1 \in S
  <2>1. PICK g : Solves(g, m)
      BY <1>4
  <2> DEFINE h == [k \in 0..(m + 1) |->
                     IF k <= m THEN g[k] ELSE DedupeStep(batch, fresh, g, m + 1)]
  <2>2. m \in Nat /\ m + 1 \in 0..N
      BY <1>2
  <2>3. ASSUME NEW k \in 0..(m + 1)
        PROVE  h[k] = DedupeStep(batch, fresh, h, k)
    <3>1. h[k] = DedupeStep(batch, fresh, g, k)
      <4>1. CASE k <= m
        <5>1. k \in 0..m
            BY <2>2, <4>1
        <5> QED
            BY <2>1, <4>1, <5>1
      <4>2. CASE ~ (k <= m)
        <5>1. k = m + 1
            BY <2>2, <4>2
        <5> QED
            BY <4>2, <5>1
      <4> QED
          BY <4>1, <4>2
    <3>2. k # 0 => k - 1 \in 0..(m + 1) /\ k - 1 <= m
        BY <2>2
    <3>3. k # 0 => h[k - 1] = g[k - 1]
        BY <3>2
    <3> HIDE DEF h
    <3> QED
        BY <3>1, <3>3 DEF DedupeStep
  <2>4. DOMAIN h = 0..(m + 1) /\ h = [k \in 0..(m + 1) |-> h[k]]
      OBVIOUS
  <2> HIDE DEF h
  <2>5. Solves(h, m + 1)
      BY <2>3, <2>4
  <2> QED
      BY <2>2, <2>5
<1> HIDE DEF S
<1>5. \A m \in 0..N : m \in S
    BY <1>2, <1>3, <1>4, Induct
<1> USE DEF S
<1>6. \E g : Solves(g, N)
    BY <1>2, <1>5
<1>7. Solves(G, N)
    BY <1>6
<1> HIDE DEF G
<1> QED
    BY <1>1, <1>7 DEF fresh

(* What an import takes of its batch: rows that are not known, each once.  *)
LEMMA DedupeFacts ==
    ASSUME NEW batch \in Seq(Rows), NEW known
    PROVE  /\ Dedupe(batch, known) \in Seq(Rows)
           /\ \A i \in 1..Len(Dedupe(batch, known)) :
                 \E k \in 1..Len(batch) :
                    Dedupe(batch, known)[i] = batch[k] /\ batch[k] \notin known
           /\ \A i, j \in 1..Len(Dedupe(batch, known)) :
                 i # j => Dedupe(batch, known)[i] # Dedupe(batch, known)[j]
<1> DEFINE N == Len(batch)
           fresh == Fresh(batch, known)
           Taken(n, d) ==
             /\ d \in Seq(Rows)
             /\ \A i \in 1..Len(d) : \E k \in 1..n : d[i] = batch[k] /\ batch[k] \notin known
             /\ \A i, j \in 1..Len(d) : i # j => d[i] # d[j]
<1>1. N \in Nat /\ DOMAIN batch = 1..N /\ \A k \in 1..N : batch[k] \in Rows
    OBVIOUS
<1>2. PICK g : /\ g = [k \in 0..N |-> DedupeStep(batch, fresh, g, k)]
               /\ Dedupe(batch, known) = g[N]
    BY <1>1, DedupeUnfolds
<1>3. \A k \in 0..N : g[k] = DedupeStep(batch, fresh, g, k)
    BY <1>2
<1> DEFINE S == {n \in 0..N : Taken(n, g[n])}
<1>4. 0 \in S
  <2>1. g[0] = << >> /\ 0 \in 0..N
      BY <1>1, <1>3 DEF DedupeStep
  <2>2. Taken(0, << >>)
      OBVIOUS
  <2> HIDE DEF Taken
  <2> QED
      BY <2>1, <2>2
<1>5. ASSUME NEW n \in 0..(N - 1), n \in S
      PROVE  n + 1 \in S
  <2> DEFINE d == g[n]
             e == g[n + 1]
             x == batch[n + 1]
  <2>6. Taken(n, d)
    <3> HIDE DEF Taken
    <3> QED
        BY <1>5
  <2>7. n + 1 \in 0..N /\ n + 1 \in 1..N /\ n \in Nat /\ (n + 1) - 1 = n
      BY <1>1
  <2> HIDE DEF S
  <2>1. Taken(n, d) /\ n + 1 \in 0..N /\ n + 1 \in 1..N /\ n \in Nat /\ (n + 1) - 1 = n
    <3> HIDE DEF Taken
    <3> QED
        BY <2>6, <2>7
  <2>2. e = IF n + 1 \in fresh THEN Append(d, x) ELSE d
      BY <1>3, <2>1 DEF DedupeStep
  <2> HIDE DEF d
  <2>3. Taken(n + 1, d)
      BY <2>1
  <2>4. CASE n + 1 \in fresh
    <3>1. x \in Rows /\ x \notin known /\ \A k \in 1..n : batch[k] # x
        BY <1>1, <2>1, <2>4 DEF Fresh
    <3> HIDE DEF x
    <3>2. /\ Append(d, x) \in Seq(Rows) /\ Len(Append(d, x)) = Len(d) + 1 /\ Len(d) \in Nat
          /\ \A i \in 1..Len(d) : Append(d, x)[i] = d[i]
          /\ Append(d, x)[Len(d) + 1] = x
        BY <2>1, <3>1
    <3>3. \A i \in 1..Len(d) : d[i] # x
        BY <2>1, <3>1
    <3>4. \A i \in 1..(Len(d) + 1) : i \in 1..Len(d) \/ i = Len(d) + 1
        BY <3>2
    <3> DEFINE f == Append(d, x)
    <3> HIDE DEF f
    <3>5. ASSUME NEW i \in 1..Len(f)
          PROVE  \E k \in 1..(n + 1) : f[i] = batch[k] /\ batch[k] \notin known
      <4>1. CASE i \in 1..Len(d)
          BY <2>3, <3>2, <4>1 DEF f
      <4>2. CASE i = Len(d) + 1
        <5>1. n + 1 \in 1..(n + 1)
            BY <2>1
        <5> QED
            BY <3>1, <3>2, <4>2, <5>1 DEF f, x
      <4> QED
          BY <3>2, <3>4, <4>1, <4>2 DEF f
    <3>6. ASSUME NEW i \in 1..Len(f), NEW j \in 1..Len(f), i # j
          PROVE  f[i] # f[j]
      <4>1. CASE i \in 1..Len(d) /\ j \in 1..Len(d)
          BY <2>1, <3>2, <3>6, <4>1 DEF f
      <4>2. CASE i \in 1..Len(d) /\ j = Len(d) + 1
          BY <3>2, <3>3, <4>2 DEF f
      <4>3. CASE i = Len(d) + 1 /\ j \in 1..Len(d)
          BY <3>2, <3>3, <4>3 DEF f
      <4> QED
          BY <3>2, <3>4, <3>6, <4>1, <4>2, <4>3 DEF f
    <3>7. Taken(n + 1, f)
        BY <3>2, <3>5, <3>6 DEF f
    <3> HIDE DEF Taken
    <3>8. e = f
        BY <2>2, <2>4 DEF f
    <3> QED
        BY <2>1, <3>7, <3>8 DEF S
  <2>5. CASE n + 1 \notin fresh
    <3> HIDE DEF Taken
    <3> QED
        BY <2>1, <2>2, <2>3, <2>5 DEF S
  <2> QED
      BY <2>4, <2>5
<1> HIDE DEF S, Taken
<1>6. \A n \in 0..N : n \in S
    BY <1>1, <1>4, <1>5, Induct
<1>7. Taken(N, Dedupe(batch, known))
    BY <1>1, <1>2, <1>6 DEF S
<1> QED
    BY <1>7 DEF Taken

-----------------------------------------------------------------------------
(* What a write keeps of the tables. *)

(* Every row is on the cycle its date falls in, or on the one its user     *)
(* named, and a detached one is on none.                                   *)
Sane(T, C) == \A t \in DOMAIN T : Placed(T[t], C) /\ Tied(T[t])

(* Only a user who names a cycle attaches a row that was detached by hand. *)
DetachedKept(T, U) ==
    \A t \in DOMAIN T \cap DOMAIN U :
        T[t].detached /\ U[t].cycle # NoCycle => U[t].chosen

(* From the rows T and the cycles C to the rows U and the cycles D.        *)
Keeping(T, C, U, D) ==
    /\ IsTable(U) /\ D \in SUBSET Cycle
    /\ Sane(T, C) => Sane(U, D) /\ DetachedKept(T, U)

LEMMA KeepingSame ==
    ASSUME NEW T, IsTable(T), NEW C \in SUBSET Cycle
    PROVE  Keeping(T, C, T, C)
BY DEF Keeping, Sane, Tied, DetachedKept

LEMMA TablesAre ==
    /\ Tables = [txns |-> txns, cycles |-> cycles]
    /\ \A X : [Tables EXCEPT !.txns = X] = [txns |-> X, cycles |-> cycles]
BY DEF Tables

(* The rows X are those of T and some beside them.                         *)
Extends(T, C, X) ==
    /\ IsTable(X)
    /\ DOMAIN T \subseteq DOMAIN X
    /\ \A t \in DOMAIN T : X[t] = T[t]
    /\ \A t \in DOMAIN X \ DOMAIN T : Placed(X[t], C) /\ Tied(X[t])

LEMMA KeepingExtended ==
    ASSUME NEW T, NEW C \in SUBSET Cycle, NEW X, Extends(T, C, X)
    PROVE  Keeping(T, C, X, C)
BY DEF Keeping, Extends, DetachedKept, Sane, Tied

(* Regeneration after rows have been added.                                *)
LEMMA KeepingEnsured ==
    ASSUME today \in FirstToday .. LastToday, NEW T, NEW C \in SUBSET Cycle,
           NEW X, Extends(T, C, X), NEW a \in Accounts, NEW b \in Days
    PROVE  Keeping(T, C, Rewritten(X, C, a, b), Regenerated(X, C, a, b))
<1> DEFINE U == Rewritten(X, C, a, b)
           D == Regenerated(X, C, a, b)
<1>1. /\ DOMAIN U = DOMAIN X /\ IsTable(U) /\ D \in SUBSET Cycle
      /\ \A t \in DOMAIN X : Keeps(X[t], U[t], C, D)
  <2>1. IsTable(X)
      BY DEF Extends
  <2>2. Ensured(X, C, a, b)
      BY <2>1, EnsureKeeps
  <2> QED
      BY <2>2 DEF Ensured
<1> HIDE DEF U, D
<1>2. ASSUME Sane(T, C)
      PROVE  Sane(U, D) /\ DetachedKept(T, U)
  <2>1. Sane(X, C)
      BY <1>2 DEF Extends, Sane
  <2>2. ASSUME NEW t \in DOMAIN X
        PROVE  Placed(U[t], D) /\ Tied(U[t])
      BY <1>1, <2>1 DEF Keeps, Sane
  <2>3. ASSUME NEW t \in DOMAIN T, T[t].detached
        PROVE  U[t].cycle = NoCycle
    <3>1. t \in DOMAIN X /\ X[t] = T[t]
        BY DEF Extends
    <3>2. Tied(X[t]) /\ Keeps(X[t], U[t], C, D)
        BY <1>1, <2>1, <3>1 DEF Sane
    <3>3. U[t] = X[t]
        BY <2>3, <3>1, <3>2 DEF Keeps
    <3> QED
        BY <2>3, <3>1, <3>2, <3>3 DEF Tied
  <2> QED
      BY <1>1, <2>2, <2>3 DEF Sane, DetachedKept
<1>3. Keeping(T, C, U, D)
    BY <1>1, <1>2 DEF Keeping
<1> QED
    BY <1>3 DEF U, D

LEMMA TypeFacts ==
    ASSUME LedgerTypeOK
    PROVE  /\ accounts \in [Accounts -> Account]
           /\ IsTable(txns) /\ cycles \in SUBSET Cycle
           /\ today \in FirstToday .. LastToday
           /\ slow \in [Requests -> Request]
BY DEF LedgerTypeOK, IsTable

-----------------------------------------------------------------------------
(* Writing transactions. *)

Writes == Keeping(txns, cycles, txns', cycles')

LEMMA InsertExtends ==
    ASSUME NEW T, IsTable(T), NEW C, DOMAIN T # TxnIds, NEW a \in Accounts, NEW r \in Rows
    PROVE  /\ Extends(T, C, Insert(T, NewTxn(a, r)))
           /\ NextId(T) \in DOMAIN Insert(T, NewTxn(a, r)) /\ NextId(T) \notin DOMAIN T
           /\ Insert(T, NewTxn(a, r))[NextId(T)] = NewTxn(a, r)
<1> DEFINE x == NewTxn(a, r)
<1>1. x \in Txn /\ x.cycle = NoCycle /\ ~ x.detached
    BY NewTxnFacts
<1>2. Placed(x, C) /\ Tied(x)
    BY <1>1 DEF Placed, Tied
<1> HIDE DEF x
<1>3. /\ IsTable(Insert(T, x))
      /\ DOMAIN Insert(T, x) = DOMAIN T \cup {NextId(T)}
      /\ \A t \in DOMAIN T : Insert(T, x)[t] = T[t]
      /\ Insert(T, x)[NextId(T)] = x
      /\ NextId(T) \notin DOMAIN T
    BY <1>1, InsertFacts
<1> QED
    BY <1>2, <1>3 DEF Extends, x

LEMMA CreateKeeps ==
    ASSUME LedgerTypeOK, NEW a \in Accounts, NEW r \in Rows, NEW c,
           CreateTransaction(a, r, c)
    PROVE  Writes
<1> DEFINE b == accounts[a].day
           n == NextId(txns)
           X == Insert(txns, NewTxn(a, r))
           e == Ensure([txns |-> X, cycles |-> cycles], a, b)
           U == Rewritten(X, cycles, a, b)
           D == Regenerated(X, cycles, a, b)
<1>1. /\ IsTable(txns) /\ cycles \in SUBSET Cycle /\ today \in FirstToday .. LastToday
      /\ b \in Days \cup {NoDay}
    BY TypeFacts DEF Account
<1>2. DOMAIN txns # TxnIds /\ c \in CyclesOf(cycles, a) \cup {NoCycle}
    BY DEF CreateTransaction
<1>3. Extends(txns, cycles, X)
    BY <1>1, <1>2, InsertExtends
<1>4. /\ IsTable(X) /\ n \in DOMAIN X /\ n \notin DOMAIN txns
      /\ X[n] = NewTxn(a, r) /\ NewTxn(a, r).acct = a
  <2>1. NewTxn(a, r).acct = a
      BY NewTxnFacts, Zenon
  <2> QED
      BY <1>1, <1>2, <2>1, InsertExtends DEF Extends
<1>5. \/ b = NoDay /\ Write([txns |-> X, cycles |-> cycles])
      \/ b # NoDay /\ c = NoCycle /\ Write(e)
      \/ b # NoDay /\ c # NoCycle /\ ~ Misaligned(cycles, a, b)
            /\ Write([e EXCEPT !.txns[n] = Assign(@, c)])
    BY TablesAre DEF CreateTransaction
<1> HIDE DEF b, n, X
<1>10. b # NoDay => e = [txns |-> U, cycles |-> D]
  <2>1. b # NoDay => Ensured(X, cycles, a, b)
      BY <1>1, <1>4, EnsureKeeps
  <2> QED
      BY <2>1 DEF Ensured
<1> HIDE DEF e
<1>6. CASE b = NoDay /\ Write([txns |-> X, cycles |-> cycles])
  <2>1. txns' = X /\ cycles' = cycles
      BY <1>6 DEF Write
  <2> QED
      BY <1>1, <1>3, <2>1, KeepingExtended DEF Writes
<1>7. b # NoDay => Keeping(txns, cycles, U, D)
    BY <1>1, <1>3, KeepingEnsured
<1>8. CASE b # NoDay /\ c = NoCycle /\ Write(e)
  <2>1. txns' = U /\ cycles' = D
      BY <1>8, <1>10 DEF Write
  <2> QED
      BY <1>7, <1>8, <2>1 DEF Writes
<1>9. CASE b # NoDay /\ c # NoCycle /\ ~ Misaligned(cycles, a, b)
             /\ Write([e EXCEPT !.txns[n] = Assign(@, c)])
  <2>1. /\ DOMAIN U = DOMAIN X
        /\ cycles \ Gone(cycles, a, b) \subseteq D
        /\ \A t \in DOMAIN X : Keeps(X[t], U[t], cycles, D)
    <3>1. Ensured(X, cycles, a, b)
        BY <1>1, <1>4, <1>9, EnsureKeeps
    <3> QED
        BY <3>1 DEF Ensured
  <2> HIDE DEF U, D
  <2> DEFINE x == U[n]
  <2>2. txns' = [U EXCEPT ![n] = Assign(x, c)] /\ cycles' = D
      BY <1>9, <1>10 DEF Write
  <2>3. c \in Cycle /\ c \in cycles /\ c.acct = a
      BY <1>1, <1>2, <1>9 DEF CyclesOf
  <2>4. c \in D
      BY <1>9, <2>1, <2>3 DEF Gone
  <2>5. x \in Txn /\ x.acct = a
      BY <1>4, <2>1 DEF Keeps
  <2> DEFINE y == Assign(x, c)
  <2>6. y \in Txn /\ y.cycle = c /\ y.acct = a /\ y.chosen /\ ~ y.detached
      BY <2>3, <2>5, AssignFacts
  <2>7. Placed(y, D) /\ Tied(y)
      BY <2>3, <2>4, <2>6 DEF Placed, Tied, CyclesOf
  <2>8. n \in DOMAIN U /\ n \notin DOMAIN txns
      BY <1>4, <2>1
  <2> HIDE DEF y
  <2>9. /\ DOMAIN txns' = DOMAIN U
        /\ \A t \in DOMAIN U : txns'[t] = IF t = n THEN y ELSE U[t]
      BY <2>2 DEF y
  <2>10. IsTable(U) /\ D \in SUBSET Cycle /\ (Sane(txns, cycles) => Sane(U, D) /\ DetachedKept(txns, U))
      BY <1>7, <1>9 DEF Keeping
  <2>11. IsTable(txns')
      BY <2>6, <2>9, <2>10 DEF IsTable
  <2>12. Sane(txns, cycles) => Sane(txns', D)
      BY <2>7, <2>9, <2>10 DEF Sane
  <2>13. Sane(txns, cycles) => DetachedKept(txns, txns')
      BY <2>8, <2>9, <2>10 DEF DetachedKept
  <2> QED
      BY <2>2, <2>10, <2>11, <2>12, <2>13 DEF Writes, Keeping
<1> QED
    BY <1>5, <1>6, <1>8, <1>9

(* What an edit of a row does, before its cycle is settled.                *)
Moved(x, a, r) == [x EXCEPT !.acct = a, !.row = r, !.imported = FALSE]

LEMMA MovedFacts ==
    ASSUME NEW x \in Txn, NEW a \in Accounts, NEW r \in Rows
    PROVE  /\ Moved(x, a, r) \in Txn
           /\ Moved(x, a, r).acct = a /\ Moved(x, a, r).row = r
           /\ Moved(x, a, r).cycle = x.cycle
           /\ (Moved(x, a, r).detached <=> x.detached)
           /\ (Moved(x, a, r).chosen <=> x.chosen)
           /\ ~ Moved(x, a, r).imported
BY DEF Moved, Txn

(* A row taken off its cycle by hand.                                      *)
Off(x) == [x EXCEPT !.cycle = NoCycle, !.detached = TRUE, !.chosen = FALSE]

LEMMA OffFacts ==
    ASSUME NEW x \in Txn
    PROVE  /\ Off(x) \in Txn /\ Off(x).cycle = NoCycle
           /\ (Off(x).imported <=> x.imported)
BY DEF Off, Txn

(* What a patch makes of a row: it is imported no more, and is on a cycle  *)
(* that the patch names, on none, or where it was, unmoved.                *)
Patchwork(x, y) ==
    /\ y \in Txn /\ ~ y.imported
    /\ \/ y.cycle = NoCycle
       \/ y.chosen /\ ~ y.detached /\ y.cycle \in CyclesOf(cycles, y.acct)
       \/ /\ y.acct = x.acct /\ y.row.date = x.row.date /\ y.cycle = x.cycle
          /\ (y.detached <=> x.detached) /\ (y.chosen <=> x.chosen)

LEMMA PatchMakes ==
    ASSUME LedgerTypeOK,
           NEW t, NEW a \in Accounts \cup {Keep}, NEW r \in Rows \cup {Keep},
           NEW c, UpdateTransaction(t, a, r, c)
    PROVE  /\ t \in DOMAIN txns
           /\ \E y : Patchwork(txns[t], y) /\ txns' = [txns EXCEPT ![t] = y]
<1> DEFINE x == txns[t]
           acct == IF a = Keep THEN x.acct ELSE a
           row == IF r = Keep THEN x.row ELSE r
           moved == Moved(x, acct, row)
           y == IF c = NoCycle THEN Off(moved)
                ELSE IF c # Keep THEN Assign(moved, c)
                ELSE IF Moves(x, a, r) THEN Loose(moved)
                ELSE moved
<1>1. /\ t \in DOMAIN txns
      /\ c \in CyclesOf(cycles, acct) \cup {Keep, NoCycle}
      /\ txns' = [txns EXCEPT ![t] = y]
    BY DEF UpdateTransaction, Mutable, Moved, Off, Loose
<1>2. x \in Txn /\ cycles \in SUBSET Cycle
    BY <1>1, TypeFacts DEF IsTable
<1>3. x.acct \in Accounts /\ x.row \in Rows
    BY <1>2, Fields
<1>4. acct \in Accounts /\ row \in Rows
    BY <1>3
<1> HIDE DEF x
<1>5. ~ Moves(x, a, r) => acct = x.acct /\ row.date = x.row.date
    BY DEF Moves
<1> HIDE DEF acct, row
<1>6. /\ moved \in Txn /\ moved.acct = acct /\ moved.row = row /\ moved.cycle = x.cycle
      /\ (moved.detached <=> x.detached) /\ (moved.chosen <=> x.chosen) /\ ~ moved.imported
    BY <1>2, <1>4, MovedFacts
<1> HIDE DEF moved
<1>7. CASE c = NoCycle
  <2>1. y = Off(moved)
      BY <1>7
  <2> HIDE DEF y
  <2>2. y \in Txn /\ y.cycle = NoCycle /\ ~ y.imported
      BY <1>6, <2>1, OffFacts
  <2>3. Patchwork(x, y)
      BY <2>2 DEF Patchwork
  <2> QED
      BY <1>1, <2>3 DEF x
<1>8. CASE c # NoCycle /\ c # Keep
  <2>1. y = Assign(moved, c) /\ c \in CyclesOf(cycles, acct) /\ c \in Cycle
      BY <1>1, <1>2, <1>8 DEF CyclesOf
  <2> HIDE DEF y
  <2>2. /\ y \in Txn /\ y.cycle = c /\ y.acct = acct /\ y.chosen /\ ~ y.detached
        /\ ~ y.imported
      BY <1>6, <2>1, AssignFacts
  <2>3. Patchwork(x, y)
      BY <2>1, <2>2 DEF Patchwork
  <2> QED
      BY <1>1, <2>3 DEF x
<1>9. CASE c # NoCycle /\ c = Keep /\ Moves(x, a, r)
  <2>1. y = Loose(moved)
      BY <1>9
  <2> HIDE DEF y
  <2>2. y \in Txn /\ y.cycle = NoCycle /\ ~ y.imported
      BY <1>6, <2>1, LooseFacts
  <2>3. Patchwork(x, y)
      BY <2>2 DEF Patchwork
  <2> QED
      BY <1>1, <2>3 DEF x
<1>10. CASE c # NoCycle /\ c = Keep /\ ~ Moves(x, a, r)
  <2>1. y = moved
      BY <1>10
  <2> HIDE DEF y
  <2>2. Patchwork(x, y)
      BY <1>5, <1>6, <1>10, <2>1 DEF Patchwork
  <2> QED
      BY <1>1, <2>2 DEF x
<1> QED
    BY <1>7, <1>8, <1>9, <1>10

LEMMA UpdateKeeps ==
    ASSUME LedgerTypeOK,
           NEW t, NEW a \in Accounts \cup {Keep}, NEW r \in Rows \cup {Keep},
           NEW c, UpdateTransaction(t, a, r, c)
    PROVE  Writes
<1>1. PICK y : Patchwork(txns[t], y) /\ txns' = [txns EXCEPT ![t] = y]
    BY PatchMakes
<1>2. /\ DOMAIN txns' = DOMAIN txns
      /\ \A u \in DOMAIN txns : txns'[u] = IF u = t THEN y ELSE txns[u]
      /\ cycles' = cycles /\ IsTable(txns) /\ cycles \in SUBSET Cycle
    BY <1>1, TypeFacts DEF UpdateTransaction
<1>3. IsTable(txns')
    BY <1>1, <1>2 DEF IsTable, Patchwork
<1>4. ASSUME Sane(txns, cycles)
      PROVE  Sane(txns', cycles) /\ DetachedKept(txns, txns')
  <2>1. t \in DOMAIN txns => Placed(txns[t], cycles) /\ Tied(txns[t])
      BY <1>4 DEF Sane
  <2>2. t \in DOMAIN txns => Placed(y, cycles)
      BY <1>1, <2>1 DEF Patchwork, Placed, Tied, Within
  <2>3. t \in DOMAIN txns => Tied(y) /\ (txns[t].detached /\ y.cycle # NoCycle => y.chosen)
      BY <1>1, <2>1 DEF Patchwork, Tied
  <2>4. Sane(txns', cycles)
      BY <1>2, <1>4, <2>2, <2>3 DEF Sane
  <2>5. DetachedKept(txns, txns')
      BY <1>2, <1>4, <2>3 DEF DetachedKept, Sane, Tied
  <2> QED
      BY <2>4, <2>5
<1> QED
    BY <1>2, <1>3, <1>4 DEF Writes, Keeping

LEMMA BulkUpdateKeeps ==
    ASSUME LedgerTypeOK, NEW ids, NEW c, BulkUpdateBillingCycle(ids, c)
    PROVE  Writes
<1>1. IsTable(txns) /\ cycles \in SUBSET Cycle /\ c \in cycles /\ c \in Cycle /\ cycles' = cycles
    BY TypeFacts DEF BulkUpdateBillingCycle
<1>2. /\ DOMAIN txns' = DOMAIN txns
      /\ \A t \in DOMAIN txns : \/ txns'[t] = txns[t]
                                \/ txns[t].acct = c.acct /\ txns'[t] = Assign(txns[t], c)
    BY DEF BulkUpdateBillingCycle
<1>3. ASSUME NEW t \in DOMAIN txns
      PROVE  /\ txns'[t] \in Txn
             /\ Placed(txns[t], cycles) /\ Tied(txns[t]) =>
                   /\ Placed(txns'[t], cycles) /\ Tied(txns'[t])
                   /\ txns[t].detached /\ txns'[t].cycle # NoCycle => txns'[t].chosen
  <2> DEFINE x == txns[t]
             y == txns'[t]
  <2>1. x \in Txn
      BY <1>1 DEF IsTable
  <2>2. CASE y = x
      BY <2>1, <2>2 DEF Tied
  <2>3. CASE x.acct = c.acct /\ y = Assign(x, c)
    <3> HIDE DEF x, y
    <3>1. y \in Txn /\ y.cycle = c /\ y.acct = x.acct /\ y.chosen /\ ~ y.detached
        BY <1>1, <2>1, <2>3, AssignFacts
    <3>2. Placed(y, cycles) /\ Tied(y)
        BY <1>1, <2>3, <3>1 DEF Placed, Tied, CyclesOf
    <3> QED
        BY <3>1, <3>2 DEF x, y
  <2> QED
      BY <1>2, <2>2, <2>3
<1>4. IsTable(txns')
    BY <1>1, <1>2, <1>3 DEF IsTable
<1>5. Sane(txns, cycles) => Sane(txns', cycles) /\ DetachedKept(txns, txns')
    BY <1>2, <1>3 DEF Sane, DetachedKept
<1> QED
    BY <1>1, <1>4, <1>5 DEF Writes, Keeping

(* What is left of a table keeps what it says.                             *)
LEMMA DropFacts ==
    ASSUME NEW T, IsTable(T), NEW gone
    PROVE  /\ IsTable(Drop(T, gone))
           /\ DOMAIN Drop(T, gone) = DOMAIN T \ gone
           /\ \A t \in DOMAIN T \ gone : Drop(T, gone)[t] = T[t]
BY DEF Drop, IsTable

LEMMA BulkDeleteKeeps ==
    ASSUME LedgerTypeOK, NEW ids, BulkDeleteTransactions(ids)
    PROVE  Writes
<1> DEFINE gone == {t \in ids : Mutable(t)}
<1>1. IsTable(txns) /\ cycles \in SUBSET Cycle /\ cycles' = cycles /\ txns' = Drop(txns, gone)
    BY TypeFacts DEF BulkDeleteTransactions
<1> HIDE DEF gone
<1> DEFINE left == Drop(txns, gone)
<1>2. /\ IsTable(left) /\ DOMAIN left = DOMAIN txns \ gone
      /\ \A t \in DOMAIN txns \ gone : left[t] = txns[t]
    BY <1>1, DropFacts
<1>3. txns' = left
    BY <1>1
<1> HIDE DEF left
<1>4. /\ IsTable(txns') /\ DOMAIN txns' = DOMAIN txns \ gone
      /\ \A t \in DOMAIN txns' : txns'[t] = txns[t]
    BY <1>2, <1>3
<1>5. Sane(txns, cycles) => Sane(txns', cycles) /\ DetachedKept(txns, txns')
    BY <1>4 DEF Sane, DetachedKept, Tied
<1> QED
    BY <1>1, <1>4, <1>5 DEF Writes, Keeping

(* The rows of an account go with its cycles, which no other's is on.      *)
LEMMA DeleteAccountKeeps ==
    ASSUME LedgerTypeOK, NEW a \in Accounts, DeleteAccount(a)
    PROVE  Writes
<1> DEFINE gone == TxnsOf(txns, a)
<1>1. /\ IsTable(txns) /\ cycles \in SUBSET Cycle /\ cycles' = cycles \ CyclesOf(cycles, a)
      /\ txns' = Drop(txns, gone)
    BY TypeFacts DEF DeleteAccount
<1>2. \A t \in DOMAIN txns \ gone : txns[t].acct # a
    BY DEF TxnsOf
<1> HIDE DEF gone
<1>3. /\ IsTable(txns') /\ DOMAIN txns' = DOMAIN txns \ gone
      /\ \A t \in DOMAIN txns' : txns'[t] = txns[t] /\ txns[t].acct # a
    BY <1>1, <1>2, DropFacts
<1>4. Sane(txns, cycles) => Sane(txns', cycles') /\ DetachedKept(txns, txns')
    BY <1>1, <1>3 DEF Sane, DetachedKept, Tied, Placed, CyclesOf
<1> QED
    BY <1>1, <1>3, <1>4 DEF Writes, Keeping

-----------------------------------------------------------------------------
(* The requests. *)

LEMMA EnsureCyclesKeeps ==
    ASSUME LedgerTypeOK, NEW r \in Requests, EnsureCycles(r)
    PROVE  Writes
<1> DEFINE a == slow[r].acct
           b == slow[r].day
           U == Rewritten(txns, cycles, a, b)
           D == Regenerated(txns, cycles, a, b)
<1>1. /\ IsTable(txns) /\ cycles \in SUBSET Cycle /\ today \in FirstToday .. LastToday
      /\ slow[r] \in Request /\ slow[r].op = "read"
    BY TypeFacts DEF EnsureCycles
<1>2. a \in Accounts /\ b \in Days
    BY <1>1 DEF Request, Idle
<1>3. \/ Write(Ensure([txns |-> txns, cycles |-> cycles], a, b))
      \/ UNCHANGED <<txns, cycles>>
    BY DEF EnsureCycles, Tables
<1> HIDE DEF a, b
<1>4. CASE Write(Ensure([txns |-> txns, cycles |-> cycles], a, b))
  <2>1. Ensure([txns |-> txns, cycles |-> cycles], a, b) = [txns |-> U, cycles |-> D]
    <3>1. Ensured(txns, cycles, a, b)
        BY <1>1, <1>2, EnsureKeeps
    <3> QED
        BY <3>1 DEF Ensured
  <2>2. txns' = U /\ cycles' = D
      BY <1>4, <2>1 DEF Write
  <2>3. Extends(txns, cycles, txns)
      BY <1>1 DEF Extends
  <2> QED
      BY <1>1, <1>2, <2>2, <2>3, KeepingEnsured DEF Writes
<1>5. CASE UNCHANGED <<txns, cycles>>
    BY <1>1, <1>5, KeepingSame DEF Writes
<1> QED
    BY <1>3, <1>4, <1>5

LEMMA ImportFields ==
    ASSUME NEW q \in Request, q.op \in {"skip", "keep"}
    PROVE  /\ q.acct \in Accounts /\ q.day \in Days \cup {NoDay}
           /\ q.cycle \in Cycle \cup {NoCycle} /\ q.known \in SUBSET Rows
           /\ q.batch \in Seq(Rows)
<1>1. \A i \in Imports : i.batch \in Seq(Rows)
    BY ImportsAssumption
<1> QED
    BY <1>1 DEF Request, Idle

(* The rows that an import inserts.                                        *)
Writing(q) == IF q.op = "skip" THEN Dedupe(q.batch, q.known) ELSE q.batch

LEMMA InsertedFacts ==
    ASSUME NEW q \in Request, q.op \in {"skip", "keep"}
    PROVE  /\ Writing(q) \in Seq(Rows)
           /\ q.op = "skip" =>
                 /\ \A i \in 1..Len(Writing(q)) :
                       \E k \in 1..Len(q.batch) :
                          Writing(q)[i] = q.batch[k] /\ q.batch[k] \notin q.known
                 /\ \A i, j \in 1..Len(Writing(q)) : i # j => Writing(q)[i] # Writing(q)[j]
<1>1. q.batch \in Seq(Rows)
    BY ImportFields
<1>2. CASE q.op = "skip"
  <2> DEFINE batch == q.batch
             known == q.known
             d == Dedupe(batch, known)
  <2>1. Writing(q) = d
      BY <1>2 DEF Writing
  <2>2. batch \in Seq(Rows)
      BY <1>1
  <2> HIDE DEF batch, known
  <2>3. /\ d \in Seq(Rows)
        /\ \A i \in 1..Len(d) : \E k \in 1..Len(batch) : d[i] = batch[k] /\ batch[k] \notin known
        /\ \A i, j \in 1..Len(d) : i # j => d[i] # d[j]
      BY <2>2, DedupeFacts
  <2> HIDE DEF d
  <2> QED
      BY <2>1, <2>3 DEF batch, known
<1>3. CASE q.op # "skip"
    BY <1>1, <1>3 DEF Writing
<1> QED
    BY <1>2, <1>3

(* What an import adds to the rows T.                                      *)
AddsRows(T, U, q) ==
    /\ DOMAIN T \subseteq DOMAIN U
    /\ \A t \in DOMAIN T : /\ U[t].acct = T[t].acct /\ U[t].row = T[t].row
                           /\ (U[t].imported <=> T[t].imported)
    /\ \A t \in DOMAIN U \ DOMAIN T :
          /\ U[t].acct = q.acct
          /\ U[t].imported <=> q.op = "skip"
          /\ \E i \in 1..Len(Writing(q)) : U[t].row = Writing(q)[i]
    /\ q.op = "skip" =>
          \A t, u \in DOMAIN U \ DOMAIN T : t # u => U[t].row # U[u].row

(* The rows that are inserted, before their cycles are known.              *)
AllRows(q) == InsertAll(txns, q.acct, Writing(q), q.op = "skip")

LEMMA AllRowsFacts ==
    ASSUME LedgerTypeOK, NEW q \in Request, q.op \in {"skip", "keep"},
           Cardinality(DOMAIN txns) + Len(Writing(q)) <= Cardinality(TxnIds)
    PROVE  /\ IsTable(AllRows(q))
           /\ \A t \in DOMAIN txns : AllRows(q)[t] = txns[t]
           /\ \A t \in DOMAIN AllRows(q) \ DOMAIN txns :
                 AllRows(q)[t].cycle = NoCycle /\ ~ AllRows(q)[t].detached
           /\ AddsRows(txns, AllRows(q), q)
<1> DEFINE rows == Writing(q)
           N == Len(rows)
           skip == q.op = "skip"
           g == AllRows(q)
           a == q.acct
<1>1. IsTable(txns) /\ a \in Accounts /\ rows \in Seq(Rows) /\ N \in Nat
    BY TypeFacts, ImportFields, InsertedFacts
<1>2. \A r \in Rows : /\ ImportedTxn(a, r, skip) \in Txn
                      /\ ImportedTxn(a, r, skip).acct = a
                      /\ ImportedTxn(a, r, skip).row = r
                      /\ ImportedTxn(a, r, skip).cycle = NoCycle
                      /\ ~ ImportedTxn(a, r, skip).detached
                      /\ (ImportedTxn(a, r, skip).imported <=> skip)
  <2>1. skip \in BOOLEAN
      OBVIOUS
  <2> HIDE DEF skip
  <2> QED
      BY <1>1, <2>1, ImportedTxnFacts
<1>3. Added(txns, N, a, rows, skip, g)
  <2>1. g = InsertAll(txns, a, rows, skip)
      BY DEF AllRows
  <2> HIDE DEF skip, g, a, rows
  <2>2. Added(txns, N, a, rows, skip, InsertAll(txns, a, rows, skip))
      BY <1>1, <1>2, InsertAllFacts DEF rows
  <2> QED
      BY <2>1, <2>2
<1>4. skip => \A i, j \in 1..N : i # j => rows[i] # rows[j]
    BY InsertedFacts
<1> HIDE DEF g, skip, rows, a
<1>5. /\ IsTable(g) /\ DOMAIN txns \subseteq DOMAIN g
      /\ \A t \in DOMAIN txns : g[t] = txns[t]
      /\ \A t \in DOMAIN g \ DOMAIN txns : \E i \in 1..N : g[t] = ImportedTxn(a, rows[i], skip)
      /\ skip => \A t, u \in DOMAIN g \ DOMAIN txns : t # u => g[t].row # g[u].row
    BY <1>3, <1>4 DEF Added
<1>6. ASSUME NEW t \in DOMAIN g \ DOMAIN txns
      PROVE  /\ g[t].cycle = NoCycle /\ ~ g[t].detached
             /\ g[t].acct = a /\ (g[t].imported <=> skip)
             /\ \E i \in 1..N : g[t].row = rows[i]
  <2>1. PICK i \in 1..N : g[t] = ImportedTxn(a, rows[i], skip)
      BY <1>5
  <2>2. rows[i] \in Rows
      BY <1>1
  <2> QED
      BY <1>2, <2>1, <2>2
<1>7. AddsRows(txns, g, q)
    BY <1>5, <1>6 DEF AddsRows, skip, rows, a
<1> QED
    BY <1>5, <1>6, <1>7 DEF g

(* The rows on the cycle the request names, when there still is one.       *)
Attached(q) ==
    [t \in DOMAIN AllRows(q) |->
       IF t \notin DOMAIN txns /\ q.cycle \in CyclesOf(cycles, q.acct)
         THEN Assign(AllRows(q)[t], q.cycle) ELSE AllRows(q)[t]]

LEMMA AttachedFacts ==
    ASSUME LedgerTypeOK, NEW q \in Request, q.op \in {"skip", "keep"},
           Cardinality(DOMAIN txns) + Len(Writing(q)) <= Cardinality(TxnIds)
    PROVE  /\ Extends(txns, cycles, AllRows(q))
           /\ Extends(txns, cycles, Attached(q))
           /\ AddsRows(txns, Attached(q), q)
<1> DEFINE g == AllRows(q)
           h == Attached(q)
           c == q.cycle
           named == c \in CyclesOf(cycles, q.acct)
<1>1. /\ IsTable(g) /\ \A t \in DOMAIN txns : g[t] = txns[t]
      /\ \A t \in DOMAIN g \ DOMAIN txns : g[t].cycle = NoCycle /\ ~ g[t].detached
      /\ AddsRows(txns, g, q)
    BY AllRowsFacts
<1>2. DOMAIN txns \subseteq DOMAIN g /\ (\A t \in DOMAIN g \ DOMAIN txns : g[t].acct = q.acct)
    BY <1>1 DEF AddsRows
<1>3. /\ DOMAIN h = DOMAIN g
      /\ \A t \in DOMAIN g : h[t] = IF t \notin DOMAIN txns /\ named
                                      THEN Assign(g[t], c) ELSE g[t]
    BY DEF Attached
<1>4. named => c \in Cycle
    BY TypeFacts DEF CyclesOf
<1> HIDE DEF g, h, c
<1>5. ASSUME NEW t \in DOMAIN g \ DOMAIN txns
      PROVE  Placed(g[t], cycles) /\ Tied(g[t])
    BY <1>1, <1>5 DEF Placed, Tied
<1>6. ASSUME NEW t \in DOMAIN g \ DOMAIN txns
      PROVE  /\ h[t] \in Txn /\ Placed(h[t], cycles) /\ Tied(h[t])
             /\ h[t].acct = g[t].acct /\ h[t].row = g[t].row
             /\ (h[t].imported <=> g[t].imported)
  <2> DEFINE x == g[t]
             y == h[t]
  <2>1. x \in Txn /\ x.acct = q.acct
      BY <1>1, <1>2 DEF IsTable
  <2>2. CASE named
    <3>1. y = Assign(x, c)
        BY <1>3, <2>2
    <3> HIDE DEF x, y
    <3>2. /\ y \in Txn /\ y.cycle = c /\ y.acct = x.acct /\ y.row = x.row
          /\ ~ y.detached /\ y.chosen /\ (y.imported <=> x.imported)
        BY <1>4, <2>1, <2>2, <3>1, AssignFacts
    <3>3. Placed(y, cycles) /\ Tied(y)
        BY <2>1, <2>2, <3>2 DEF Placed, Tied
    <3> QED
        BY <3>2, <3>3 DEF x, y
  <2>3. CASE ~ named
    <3>1. y = x
        BY <1>3, <2>3
    <3> QED
        BY <1>5, <2>1, <3>1
  <2> QED
      BY <2>2, <2>3
<1>7. \A t \in DOMAIN txns : h[t] = txns[t]
    BY <1>1, <1>2, <1>3
<1>8. Extends(txns, cycles, g)
    BY <1>1, <1>2, <1>5 DEF Extends
<1>9. IsTable(h)
    BY <1>1, <1>3, <1>6 DEF IsTable
<1>10. Extends(txns, cycles, h)
    BY <1>2, <1>3, <1>6, <1>7, <1>9 DEF Extends
<1>11. AddsRows(txns, h, q)
    BY <1>1, <1>3, <1>6, <1>7 DEF AddsRows
<1> QED
    BY <1>8, <1>10, <1>11 DEF g, h

(* What a commit writes.                                                   *)
LEMMA CommitWrites ==
    ASSUME LedgerTypeOK, NEW r \in Requests, CommitImport(r)
    PROVE  \/ UNCHANGED <<txns, cycles>>
           \/ Writes /\ AddsRows(txns, txns', slow[r])
<1> DEFINE q == slow[r]
           rows == Writing(q)
           a == q.acct
           b == q.day
           U == Rewritten(Attached(q), cycles, a, b)
           D == Regenerated(Attached(q), cycles, a, b)
           e == Ensure([txns |-> Attached(q), cycles |-> cycles], a, b)
<1>1. /\ IsTable(txns) /\ cycles \in SUBSET Cycle /\ today \in FirstToday .. LastToday
      /\ q \in Request /\ q.op \in {"skip", "keep"}
      /\ Cardinality(DOMAIN txns) + Len(rows) <= Cardinality(TxnIds)
    BY TypeFacts DEF CommitImport, Writing
<1>2. a \in Accounts /\ b \in Days \cup {NoDay}
    BY <1>1, ImportFields
<1>3. /\ Extends(txns, cycles, AllRows(q)) /\ AddsRows(txns, AllRows(q), q)
      /\ Extends(txns, cycles, Attached(q)) /\ AddsRows(txns, Attached(q), q)
    BY <1>1, AllRowsFacts, AttachedFacts
<1>4. \/ UNCHANGED <<txns, cycles>>
      \/ b = NoDay /\ Write([txns |-> AllRows(q), cycles |-> cycles])
      \/ b # NoDay /\ Write(e)
  <2>1. Imported(q, rows) = IF b = NoDay THEN [txns |-> AllRows(q), cycles |-> cycles]
                            ELSE e
      BY TablesAre DEF Imported, AllRows, Attached
  <2>2. UNCHANGED <<txns, cycles>> \/ Write(Imported(q, rows))
      BY DEF CommitImport, Writing
  <2> HIDE DEF e, q, rows, b
  <2> QED
      BY <2>1, <2>2
<1> HIDE DEF q, a, b
<1>5. CASE b = NoDay /\ Write([txns |-> AllRows(q), cycles |-> cycles])
  <2>1. txns' = AllRows(q) /\ cycles' = cycles
      BY <1>5 DEF Write
  <2> QED
      BY <1>1, <1>3, <2>1, KeepingExtended DEF Writes, q
<1>6. CASE b # NoDay /\ Write(e)
  <2> DEFINE X == Attached(q)
  <2>1. IsTable(X)
      BY <1>3 DEF Extends
  <2> HIDE DEF X
  <2>2. /\ Ensure([txns |-> X, cycles |-> cycles], a, b)
              = [txns |-> Rewritten(X, cycles, a, b), cycles |-> Regenerated(X, cycles, a, b)]
        /\ DOMAIN Rewritten(X, cycles, a, b) = DOMAIN X
        /\ \A t \in DOMAIN X : Keeps(X[t], Rewritten(X, cycles, a, b)[t], cycles,
                                     Regenerated(X, cycles, a, b))
    <3>1. Ensured(X, cycles, a, b)
        BY <1>1, <1>2, <1>6, <2>1, EnsureKeeps
    <3> QED
        BY <3>1 DEF Ensured
  <2>3. /\ txns' = Rewritten(X, cycles, a, b)
        /\ cycles' = Regenerated(X, cycles, a, b)
      BY <1>6, <2>2 DEF Write, X
  <2>4. Extends(txns, cycles, X) /\ AddsRows(txns, X, q)
      BY <1>3 DEF X
  <2>5. Writes
      BY <1>1, <1>2, <1>6, <2>3, <2>4, KeepingEnsured DEF Writes
  <2>6. /\ DOMAIN txns' = DOMAIN X
        /\ \A t \in DOMAIN X : /\ txns'[t].acct = X[t].acct /\ txns'[t].row = X[t].row
                               /\ (txns'[t].imported <=> X[t].imported)
      BY <2>2, <2>3 DEF Keeps
  <2>7. AddsRows(txns, txns', q)
      BY <2>4, <2>6 DEF AddsRows
  <2> QED
      BY <2>5, <2>7 DEF q
<1> QED
    BY <1>4, <1>5, <1>6

-----------------------------------------------------------------------------
(* Every step. *)

LEMMA NextWrites ==
    ASSUME LedgerTypeOK, [LedgerNext]_ledger
    PROVE  Writes
<1>1. IsTable(txns) /\ cycles \in SUBSET Cycle
    BY TypeFacts
<1>2. CASE UNCHANGED <<txns, cycles>>
    BY <1>1, <1>2, KeepingSame DEF Writes
<1>3. CASE TxnNext
  <2>1. ASSUME NEW a \in Accounts, NEW r \in Rows, NEW c, CreateTransaction(a, r, c)
        PROVE  Writes
      BY <2>1, CreateKeeps
  <2>2. ASSUME NEW t \in DOMAIN txns, NEW a \in Accounts \cup {Keep},
               NEW r \in Rows \cup {Keep}, NEW c, UpdateTransaction(t, a, r, c)
        PROVE  Writes
      BY <2>2, UpdateKeeps
  <2>3. ASSUME NEW ids, NEW c, BulkUpdateBillingCycle(ids, c)
        PROVE  Writes
      BY <2>3, BulkUpdateKeeps
  <2>4. ASSUME NEW ids, BulkDeleteTransactions(ids)
        PROVE  Writes
      BY <2>4, BulkDeleteKeeps
  <2> QED
      BY <1>3, <2>1, <2>2, <2>3, <2>4 DEF TxnNext
<1>4. CASE AccountNext
  <2>1. ASSUME NEW a \in Accounts, DeleteAccount(a)
        PROVE  Writes
      BY <2>1, DeleteAccountKeeps
  <2> QED
      BY <1>2, <1>4, <2>1 DEF AccountNext, CreateAccount, UpdateAccount
<1>5. ASSUME NEW r \in Requests, EnsureCycles(r)
      PROVE  Writes
    BY <1>5, EnsureCyclesKeeps
<1>6. ASSUME NEW r \in Requests, CommitImport(r)
      PROVE  Writes
    BY <1>2, <1>6, CommitWrites
<1>7. CASE RequestNext
    BY <1>2, <1>5, <1>6, <1>7 DEF RequestNext, ReadBillingDay, CheckImport, LockAndLoad
<1>8. CASE Tick
    BY <1>2, <1>8 DEF Tick
<1>9. CASE UNCHANGED ledger
    BY <1>2, <1>9 DEF ledger
<1> QED
    BY <1>3, <1>4, <1>7, <1>8, <1>9 DEF LedgerNext

(* What a step leaves alone.                                               *)
LEMMA TxnNextLeaves ==
    ASSUME TxnNext
    PROVE  UNCHANGED <<accounts, today, slow>>
<1>1. ASSUME NEW a, NEW r, NEW c, CreateTransaction(a, r, c)
      PROVE  UNCHANGED <<accounts, today, slow>>
    BY <1>1 DEF CreateTransaction
<1>2. ASSUME NEW t, NEW a, NEW r, NEW c, UpdateTransaction(t, a, r, c)
      PROVE  UNCHANGED <<accounts, today, slow>>
    BY <1>2 DEF UpdateTransaction
<1>3. ASSUME NEW ids, NEW c, BulkUpdateBillingCycle(ids, c)
      PROVE  UNCHANGED <<accounts, today, slow>>
    BY <1>3 DEF BulkUpdateBillingCycle
<1>4. ASSUME NEW ids, BulkDeleteTransactions(ids)
      PROVE  UNCHANGED <<accounts, today, slow>>
    BY <1>4 DEF BulkDeleteTransactions
<1> QED
    BY <1>1, <1>2, <1>3, <1>4 DEF TxnNext

LEMMA AccountNextLeaves ==
    ASSUME AccountNext
    PROVE  UNCHANGED <<today, slow>>
BY DEF AccountNext, CreateAccount, UpdateAccount, DeleteAccount

LEMMA RequestNextLeaves ==
    ASSUME RequestNext
    PROVE  UNCHANGED <<accounts, today>>
<1>1. ASSUME NEW r, NEW a, ReadBillingDay(r, a)
      PROVE  UNCHANGED <<accounts, today>>
    BY <1>1 DEF ReadBillingDay
<1>2. ASSUME NEW r, EnsureCycles(r)
      PROVE  UNCHANGED <<accounts, today>>
    BY <1>2 DEF EnsureCycles
<1>3. ASSUME NEW r, NEW i, NEW c, CheckImport(r, i, c)
      PROVE  UNCHANGED <<accounts, today>>
    BY <1>3 DEF CheckImport
<1>4. ASSUME NEW r, LockAndLoad(r)
      PROVE  UNCHANGED <<accounts, today>>
    BY <1>4 DEF LockAndLoad
<1>5. ASSUME NEW r, CommitImport(r)
      PROVE  UNCHANGED <<accounts, today>>
    BY <1>5 DEF CommitImport
<1> QED
    BY <1>1, <1>2, <1>3, <1>4, <1>5 DEF RequestNext

LEMMA AccountsStep ==
    ASSUME LedgerTypeOK, [LedgerNext]_ledger
    PROVE  accounts' \in [Accounts -> Account]
<1>1. accounts \in [Accounts -> Account]
    BY TypeFacts
<1>2. CASE UNCHANGED accounts
    BY <1>1, <1>2
<1>3. ASSUME NEW a \in Accounts, CreateAccount(a)
      PROVE  accounts' \in [Accounts -> Account]
    BY <1>1, <1>3 DEF CreateAccount, Account
<1>4. ASSUME NEW a \in Accounts, DeleteAccount(a)
      PROVE  accounts' \in [Accounts -> Account]
    BY <1>1, <1>4 DEF DeleteAccount, Account
<1>5. ASSUME NEW p \in Patches, UpdateAccount(p)
      PROVE  accounts' \in [Accounts -> Account]
  <2>1. /\ p.acct \in Accounts /\ p.day \in Days \cup {NoDay, Keep}
        /\ p.closed \in BOOLEAN \cup {Keep} /\ p.kind \in Kinds \cup {Keep}
      BY PatchesAssumption
  <2>2. accounts[p.acct] \in Account
      BY <1>1, <2>1
  <2>3. Patched(accounts[p.acct], p) \in Account
      BY <2>1, <2>2 DEF Patched, Account
  <2>4. accounts' = [accounts EXCEPT ![p.acct] = Patched(accounts[p.acct], p)]
      BY <1>5 DEF UpdateAccount
  <2> QED
      BY <1>1, <2>1, <2>3, <2>4
<1>6. CASE AccountNext
    BY <1>3, <1>4, <1>5, <1>6 DEF AccountNext
<1>7. CASE TxnNext \/ RequestNext \/ Tick \/ UNCHANGED ledger
    BY <1>2, <1>7, TxnNextLeaves, RequestNextLeaves DEF Tick, ledger
<1> QED
    BY <1>6, <1>7 DEF LedgerNext

(* An import that has its lock, and has loaded what is there.              *)
Loaded(q, known) == [q EXCEPT !.locked = TRUE, !.known = known]

LEMMA LoadedFacts ==
    ASSUME NEW q \in Request, q.op = "skip", NEW known \in SUBSET Rows
    PROVE  /\ Loaded(q, known) \in Request
           /\ Loaded(q, known).op = "skip" /\ Loaded(q, known).acct = q.acct
           /\ Loaded(q, known).batch = q.batch /\ Loaded(q, known).known = known
<1> DEFINE Batches == {i.batch : i \in Imports}
           Import == [op : {"skip", "keep"}, locked : BOOLEAN,
                      acct : Accounts, day : Days \cup {NoDay}, batch : Batches,
                      cycle : Cycle \cup {NoCycle}, known : SUBSET Rows]
<1>1. Import \subseteq Request
    BY DEF Request
<1>2. q \in Import
    BY DEF Request, Idle
<1> HIDE DEF Batches
<1>3. /\ Loaded(q, known) \in Import
      /\ Loaded(q, known).op = "skip" /\ Loaded(q, known).acct = q.acct
      /\ Loaded(q, known).batch = q.batch /\ Loaded(q, known).known = known
  <2> DEFINE p == [q EXCEPT !.locked = TRUE]
  <2>1. /\ p \in Import /\ p.op = q.op /\ p.acct = q.acct /\ p.batch = q.batch
      BY <1>2
  <2>2. Loaded(q, known) = [p EXCEPT !.known = known]
      BY <1>2 DEF Loaded
  <2> HIDE DEF p
  <2> QED
      BY <2>1, <2>2
<1> QED
    BY <1>1, <1>3

LEMMA FingerprintsFacts ==
    ASSUME LedgerTypeOK, NEW a, NEW batch
    PROVE  Fingerprints(a, batch) \in SUBSET Rows
BY TypeFacts DEF Fingerprints, TxnsOf, IsTable, Txn

LEMMA LockAndLoadFacts ==
    ASSUME LedgerTypeOK, NEW r \in Requests, LockAndLoad(r)
    PROVE  /\ slow[r] \in Request /\ slow[r].op = "skip"
           /\ LockFree(slow[r].acct)
           /\ slow' = [slow EXCEPT ![r] =
                         Loaded(slow[r], Fingerprints(slow[r].acct, slow[r].batch))]
           /\ txns' = txns
BY TypeFacts DEF LockAndLoad, Loaded

LEMMA CheckImportFacts ==
    ASSUME LedgerTypeOK, NEW r \in Requests, NEW i \in Imports,
           NEW c \in CyclesOf(cycles, i.acct) \cup {NoCycle}, CheckImport(r, i, c)
    PROVE  \E q \in Request : /\ slow' = [slow EXCEPT ![r] = q]
                              /\ ~ q.locked
                              /\ txns' = txns
<1> DEFINE q == [op |-> i.op, locked |-> FALSE, acct |-> i.acct, day |-> accounts[i.acct].day,
                 batch |-> i.batch, cycle |-> c, known |-> {}]
<1>1. i.op \in {"skip", "keep"} /\ i.acct \in Accounts
    BY ImportsAssumption
<1>2. c \in Cycle \cup {NoCycle} /\ accounts[i.acct].day \in Days \cup {NoDay}
    BY <1>1, TypeFacts DEF CyclesOf, Account
<1>3. q \in Request /\ ~ q.locked
    BY <1>1, <1>2 DEF Request
<1>4. slow' = [slow EXCEPT ![r] = q] /\ txns' = txns
    BY DEF CheckImport
<1> HIDE DEF q
<1> QED
    BY <1>3, <1>4

LEMMA SlowStep ==
    ASSUME LedgerTypeOK, [LedgerNext]_ledger
    PROVE  slow' \in [Requests -> Request]
<1>1. slow \in [Requests -> Request] /\ accounts \in [Accounts -> Account]
    BY TypeFacts
<1>2. CASE UNCHANGED slow
    BY <1>1, <1>2
<1>3. Idle \in Request
    BY DEF Request
<1>4. ASSUME NEW r \in Requests, Finish(r)
      PROVE  slow' \in [Requests -> Request]
    BY <1>1, <1>3, <1>4 DEF Finish
<1>5. ASSUME NEW r \in Requests, NEW a \in Accounts, ReadBillingDay(r, a)
      PROVE  slow' \in [Requests -> Request]
  <2>1. accounts[a].day \in Days
      BY <1>1, <1>5 DEF ReadBillingDay, Account
  <2>2. [op |-> "read", acct |-> a, day |-> accounts[a].day] \in Request
      BY <2>1 DEF Request
  <2> QED
      BY <1>1, <1>5, <2>2 DEF ReadBillingDay
<1>6. ASSUME NEW r \in Requests, NEW i \in Imports,
             NEW c \in CyclesOf(cycles, i.acct) \cup {NoCycle}, CheckImport(r, i, c)
      PROVE  slow' \in [Requests -> Request]
  <2>1. PICK q \in Request : slow' = [slow EXCEPT ![r] = q]
      BY <1>6, CheckImportFacts
  <2> QED
      BY <1>1, <2>1
<1>7. ASSUME NEW r \in Requests, LockAndLoad(r)
      PROVE  slow' \in [Requests -> Request]
  <2>1. Loaded(slow[r], Fingerprints(slow[r].acct, slow[r].batch)) \in Request
      BY <1>7, LockAndLoadFacts, FingerprintsFacts, LoadedFacts
  <2> QED
      BY <1>1, <1>7, <2>1, LockAndLoadFacts
<1>8. CASE RequestNext
    BY <1>4, <1>5, <1>6, <1>7, <1>8 DEF RequestNext, EnsureCycles, CommitImport
<1>9. CASE TxnNext \/ AccountNext \/ Tick \/ UNCHANGED ledger
    BY <1>2, <1>9, TxnNextLeaves, AccountNextLeaves DEF Tick, ledger
<1> QED
    BY <1>8, <1>9 DEF LedgerNext

LEMMA TodayStep ==
    ASSUME LedgerTypeOK, [LedgerNext]_ledger
    PROVE  today' \in FirstToday .. LastToday
<1>1. today \in FirstToday .. LastToday
    BY TypeFacts
<1>2. CASE UNCHANGED today
    BY <1>1, <1>2
<1>3. CASE Tick
    BY <1>1, <1>3, TodayAssumption DEF Tick
<1>4. CASE TxnNext \/ AccountNext \/ RequestNext \/ UNCHANGED ledger
    BY <1>2, <1>4, TxnNextLeaves, AccountNextLeaves, RequestNextLeaves DEF ledger
<1> QED
    BY <1>3, <1>4 DEF LedgerNext

LEMMA TypeInit == Init => LedgerTypeOK
<1> SUFFICES ASSUME Init
             PROVE  LedgerTypeOK
    OBVIOUS
<1>1. accounts \in [Accounts -> Account]
    BY FirstAssumption DEF Init, Account
<1>2. Idle \in Request
    BY DEF Request
<1>3. slow \in [Requests -> Request]
    BY <1>2 DEF Init
<1>4. today \in FirstToday .. LastToday
    BY TodayAssumption DEF Init
<1>5. DOMAIN txns = {} /\ cycles = {}
    BY DEF Init
<1> QED
    BY <1>1, <1>3, <1>4, <1>5 DEF LedgerTypeOK

LEMMA TypeStep ==
    ASSUME LedgerTypeOK, [LedgerNext]_ledger
    PROVE  LedgerTypeOK'
<1>1. IsTable(txns') /\ cycles' \in SUBSET Cycle
    BY NextWrites DEF Writes, Keeping
<1> QED
    BY <1>1, AccountsStep, SlowStep, TodayStep DEF LedgerTypeOK, IsTable

(* The tables, the accounts and the requests keep their types: a cycle is  *)
(* made within the calendar, an id that is taken is never given again, and *)
(* an import writes the rows of its batch.                                 *)
THEOREM TypeCorrect == LedgerSpec => []LedgerTypeOK
<1>1. LedgerTypeOK /\ [LedgerNext]_ledger => LedgerTypeOK'
    BY TypeStep
<1> QED
    BY <1>1, TypeInit, PTL DEF LedgerSpec

-----------------------------------------------------------------------------
(* The cycle a transaction is in. *)

(* Where a transaction is, and that a detached one is nowhere.             *)
CycleInv == LedgerTypeOK /\ Sane(txns, cycles)

LEMMA CycleInit == Init => CycleInv
BY TypeInit DEF CycleInv, Sane, Init

LEMMA CycleStep ==
    ASSUME CycleInv, [LedgerNext]_ledger
    PROVE  CycleInv' /\ DetachedKept(txns, txns')
<1>1. LedgerTypeOK /\ Sane(txns, cycles)
    BY DEF CycleInv
<1>2. LedgerTypeOK' /\ Writes
    BY <1>1, TypeStep, NextWrites
<1>3. Sane(txns', cycles') /\ DetachedKept(txns, txns')
    BY <1>1, <1>2 DEF Writes, Keeping
<1> QED
    BY <1>2, <1>3 DEF CycleInv

(* A transaction is in the cycle of its own account its date falls in,     *)
(* unless the user named another: whatever moves its date, its account or  *)
(* the billing day, no stale assignment is left for listBillingCycles to   *)
(* total.                                                                  *)
THEOREM AssignmentsAreByDate == LedgerSpec => []DefaultIsByDate
<1>1. CycleInv /\ [LedgerNext]_ledger => CycleInv'
    BY CycleStep
<1>2. CycleInv => DefaultIsByDate
    BY DEF CycleInv, Sane, Placed, DefaultIsByDate
<1> QED
    BY <1>1, <1>2, CycleInit, PTL DEF LedgerSpec

(* As long as the cycles of its account stay, only a user who names one    *)
(* attaches a transaction that was detached by hand.  The invariant says   *)
(* that such a transaction has no cycle, so the back-fill that asks for    *)
(* its mark finds it.                                                      *)
THEOREM DetachedByHandStays == LedgerSpec => DetachedStays
<1> DEFINE Kept == \A t \in DOMAIN txns \cap DOMAIN txns' :
                      (/\ txns[t].detached /\ txns'[t].cycle # NoCycle
                       /\ CyclesOf(cycles, txns[t].acct) \subseteq cycles')
                        => txns'[t].chosen
<1>1. CycleInv /\ [LedgerNext]_ledger => CycleInv'
    BY CycleStep
<1>2. CycleInv /\ [LedgerNext]_ledger => [Kept]_ledger
    BY CycleStep DEF DetachedKept
<1>3. LedgerSpec => [][Kept]_ledger
    BY <1>1, <1>2, CycleInit, PTL DEF LedgerSpec
<1> QED
    BY <1>3 DEF DetachedStays

-----------------------------------------------------------------------------
(* The rows that an import skips. *)

(* Whatever U says was imported, T says was.                               *)
Subsumes(T, U) ==
    \A t \in DOMAIN U :
        U[t].imported => /\ t \in DOMAIN T /\ T[t].imported
                         /\ U[t].acct = T[t].acct /\ U[t].row = T[t].row

LEMMA SubsumesRewritten ==
    ASSUME today \in FirstToday .. LastToday, NEW T, IsTable(T), NEW C \in SUBSET Cycle,
           NEW a \in Accounts, NEW b \in Days
    PROVE  Subsumes(T, Rewritten(T, C, a, b))
<1> DEFINE U == Rewritten(T, C, a, b)
           D == Regenerated(T, C, a, b)
<1>1. /\ DOMAIN U = DOMAIN T
      /\ \A t \in DOMAIN T : Keeps(T[t], U[t], C, D)
  <2>1. Ensured(T, C, a, b)
      BY EnsureKeeps
  <2> QED
      BY <2>1 DEF Ensured
<1> HIDE DEF U, D
<1>2. Subsumes(T, U)
    BY <1>1 DEF Subsumes, Keeps
<1> QED
    BY <1>2 DEF U

LEMMA CreateSubsumes ==
    ASSUME LedgerTypeOK, NEW a \in Accounts, NEW r \in Rows, NEW c,
           CreateTransaction(a, r, c)
    PROVE  Subsumes(txns, txns')
<1> DEFINE b == accounts[a].day
           n == NextId(txns)
           X == Insert(txns, NewTxn(a, r))
           U == Rewritten(X, cycles, a, b)
           D == Regenerated(X, cycles, a, b)
           e == Ensure([txns |-> X, cycles |-> cycles], a, b)
<1>1. /\ IsTable(txns) /\ cycles \in SUBSET Cycle /\ today \in FirstToday .. LastToday
      /\ b \in Days \cup {NoDay}
    BY TypeFacts DEF Account
<1>2. DOMAIN txns # TxnIds /\ c \in CyclesOf(cycles, a) \cup {NoCycle}
    BY DEF CreateTransaction
<1>3. /\ IsTable(X) /\ DOMAIN X = DOMAIN txns \cup {n} /\ n \notin DOMAIN txns
      /\ \A t \in DOMAIN txns : X[t] = txns[t]
      /\ X[n] = NewTxn(a, r)
  <2> DEFINE x == NewTxn(a, r)
  <2>1. x \in Txn
      BY NewTxnFacts
  <2> HIDE DEF x
  <2>2. /\ IsTable(Insert(txns, x))
        /\ DOMAIN Insert(txns, x) = DOMAIN txns \cup {NextId(txns)}
        /\ NextId(txns) \notin DOMAIN txns
        /\ \A t \in DOMAIN txns : Insert(txns, x)[t] = txns[t]
        /\ Insert(txns, x)[NextId(txns)] = x
      BY <1>1, <1>2, <2>1, InsertFacts
  <2> QED
      BY <2>2 DEF x
<1>4. ~ NewTxn(a, r).imported
    BY NewTxnFacts
<1>5. Subsumes(txns, X)
    BY <1>3, <1>4 DEF Subsumes
<1>6. \/ Write([txns |-> X, cycles |-> cycles])
      \/ b # NoDay /\ Write(e)
      \/ b # NoDay /\ c # NoCycle /\ Write([e EXCEPT !.txns[n] = Assign(@, c)])
    BY TablesAre DEF CreateTransaction
<1> HIDE DEF b, n, X
<1>7. CASE Write([txns |-> X, cycles |-> cycles])
    BY <1>5, <1>7 DEF Write
<1>8. b # NoDay => /\ e = [txns |-> U, cycles |-> D] /\ DOMAIN U = DOMAIN X /\ IsTable(U)
                   /\ Subsumes(X, U)
  <2>1. b # NoDay => Ensured(X, cycles, a, b) /\ Subsumes(X, U)
      BY <1>1, <1>3, EnsureKeeps, SubsumesRewritten
  <2> QED
      BY <2>1 DEF Ensured
<1>9. b # NoDay => Subsumes(txns, U)
    BY <1>5, <1>8 DEF Subsumes
<1> HIDE DEF e, U, D
<1>10. CASE b # NoDay /\ Write(e)
    BY <1>8, <1>9, <1>10 DEF Write
<1>11. CASE b # NoDay /\ c # NoCycle /\ Write([e EXCEPT !.txns[n] = Assign(@, c)])
  <2> DEFINE x == U[n]
             y == Assign(x, c)
  <2>1. txns' = [U EXCEPT ![n] = y]
    <3>1. e = [txns |-> U, cycles |-> D]
        BY <1>8, <1>11
    <3> QED
        BY <1>11, <3>1 DEF Write
  <2>2. x \in Txn /\ c \in Cycle
      BY <1>1, <1>2, <1>3, <1>8, <1>11 DEF IsTable, CyclesOf
  <2>3. y.acct = x.acct /\ y.row = x.row /\ (y.imported <=> x.imported)
      BY <2>2, AssignFacts
  <2> HIDE DEF y
  <2>4. /\ DOMAIN txns' = DOMAIN U
        /\ \A t \in DOMAIN U : txns'[t] = IF t = n THEN y ELSE U[t]
      BY <2>1
  <2>5. Subsumes(U, txns')
      BY <2>3, <2>4 DEF Subsumes
  <2> QED
      BY <1>9, <1>11, <2>5 DEF Subsumes
<1> QED
    BY <1>6, <1>7, <1>10, <1>11

LEMMA UpdateSubsumes ==
    ASSUME LedgerTypeOK,
           NEW t, NEW a \in Accounts \cup {Keep}, NEW r \in Rows \cup {Keep},
           NEW c, UpdateTransaction(t, a, r, c)
    PROVE  Subsumes(txns, txns')
<1>1. PICK y : Patchwork(txns[t], y) /\ txns' = [txns EXCEPT ![t] = y]
    BY PatchMakes
<1>2. /\ DOMAIN txns' = DOMAIN txns
      /\ \A u \in DOMAIN txns : txns'[u] = IF u = t THEN y ELSE txns[u]
    BY <1>1
<1> QED
    BY <1>1, <1>2 DEF Subsumes, Patchwork

LEMMA BulkUpdateSubsumes ==
    ASSUME LedgerTypeOK, NEW ids, NEW c, BulkUpdateBillingCycle(ids, c)
    PROVE  Subsumes(txns, txns')
<1>1. IsTable(txns) /\ c \in Cycle
    BY TypeFacts DEF BulkUpdateBillingCycle
<1>2. /\ DOMAIN txns' = DOMAIN txns
      /\ \A t \in DOMAIN txns : txns'[t] = txns[t] \/ txns'[t] = Assign(txns[t], c)
    BY DEF BulkUpdateBillingCycle
<1>3. ASSUME NEW t \in DOMAIN txns
      PROVE  /\ txns'[t].acct = txns[t].acct /\ txns'[t].row = txns[t].row
             /\ (txns'[t].imported <=> txns[t].imported)
  <2> DEFINE x == txns[t]
             y == Assign(x, c)
  <2>1. x \in Txn
      BY <1>1 DEF IsTable
  <2>2. y.acct = x.acct /\ y.row = x.row /\ (y.imported <=> x.imported)
      BY <1>1, <2>1, AssignFacts
  <2>3. txns'[t] = x \/ txns'[t] = y
      BY <1>2
  <2> HIDE DEF y
  <2> QED
      BY <2>2, <2>3
<1> QED
    BY <1>2, <1>3 DEF Subsumes

LEMMA DropSubsumes ==
    ASSUME NEW T, NEW gone
    PROVE  Subsumes(T, Drop(T, gone))
<1>1. /\ DOMAIN Drop(T, gone) \subseteq DOMAIN T
      /\ \A t \in DOMAIN Drop(T, gone) : Drop(T, gone)[t] = T[t]
    BY DEF Drop
<1> QED
    BY <1>1 DEF Subsumes

LEMMA EnsureCyclesSubsumes ==
    ASSUME LedgerTypeOK, NEW r \in Requests, EnsureCycles(r)
    PROVE  Subsumes(txns, txns')
<1> DEFINE a == slow[r].acct
           b == slow[r].day
<1>1. /\ IsTable(txns) /\ cycles \in SUBSET Cycle /\ today \in FirstToday .. LastToday
      /\ slow[r] \in Request /\ slow[r].op = "read"
    BY TypeFacts DEF EnsureCycles
<1>2. a \in Accounts /\ b \in Days
    BY <1>1 DEF Request, Idle
<1>3. \/ txns' = Ensure([txns |-> txns, cycles |-> cycles], a, b).txns
      \/ txns' = txns
    BY DEF EnsureCycles, Tables, Write
<1> HIDE DEF a, b
<1>4. Subsumes(txns, Rewritten(txns, cycles, a, b))
    BY <1>1, <1>2, SubsumesRewritten
<1>5. Subsumes(txns, txns)
    BY DEF Subsumes
<1> QED
    BY <1>3, <1>4, <1>5 DEF Rewritten

(* A request that holds the lock of its account.                           *)
Holds(q) == q.op = "skip" /\ q.locked

(* The rows of T that an import wrote, of its account and on a day of its  *)
(* batch, are known to the request q.                                      *)
Covers(T, q) ==
    \A t \in DOMAIN T :
        /\ T[t].imported /\ T[t].acct = q.acct
        /\ \E i \in DOMAIN q.batch : q.batch[i].date = T[t].row.date
        => T[t].row \in q.known

LockInv ==
    /\ \A q, r \in Requests :
          Holds(slow[q]) /\ Holds(slow[r]) /\ slow[q].acct = slow[r].acct => q = r
    /\ \A q \in Requests : Holds(slow[q]) => Covers(txns, slow[q])

LEMMA CoversSubsumed ==
    ASSUME NEW T, NEW U, Subsumes(T, U), NEW q, Covers(T, q)
    PROVE  Covers(U, q)
BY DEF Subsumes, Covers

(* A step that takes no lock.                                              *)
NoNewLock == \A q \in Requests : Holds(slow'[q]) => slow'[q] = slow[q]

LEMMA LockKept ==
    ASSUME LockInv, NoNewLock, Subsumes(txns, txns')
    PROVE  LockInv'
<1>1. ASSUME NEW q \in Requests, Holds(slow'[q])
      PROVE  Holds(slow[q]) /\ slow'[q] = slow[q] /\ Covers(txns', slow'[q])
    BY <1>1, CoversSubsumed DEF NoNewLock, LockInv
<1>2. \A q, r \in Requests :
          Holds(slow'[q]) /\ Holds(slow'[r]) /\ slow'[q].acct = slow'[r].acct => q = r
    BY <1>1 DEF LockInv
<1>3. \A q \in Requests : Holds(slow'[q]) => Covers(txns', slow'[q])
    BY <1>1
<1> QED
    BY <1>2, <1>3 DEF LockInv, Holds, Covers

(* A request that writes what it loaded under its lock, and ends.          *)
Commits(r) ==
    /\ slow[r] \in Request /\ Holds(slow[r])
    /\ AddsRows(txns, txns', slow[r])
    /\ slow' = [slow EXCEPT ![r] = Idle]

LEMMA IdleHoldsNone == Idle \in Request /\ ~ Holds(Idle)
BY DEF Idle, Holds, Request

LEMMA SlotKept ==
    ASSUME slow \in [Requests -> Request], NEW r \in Requests, NEW q, ~ Holds(q),
           slow' = [slow EXCEPT ![r] = q]
    PROVE  NoNewLock
<1>1. ASSUME NEW p \in Requests
      PROVE  slow'[p] = IF p = r THEN q ELSE slow[p]
    OBVIOUS
<1> QED
    BY <1>1 DEF NoNewLock

LEMMA CommitKinds ==
    ASSUME LedgerTypeOK, NEW r \in Requests, CommitImport(r)
    PROVE  \/ NoNewLock /\ Subsumes(txns, txns')
           \/ Commits(r)
<1>1. slow \in [Requests -> Request] /\ slow[r] \in Request
    BY TypeFacts
<1>2. slow' = [slow EXCEPT ![r] = Idle] /\ (slow[r].op = "skip" => slow[r].locked)
    BY DEF CommitImport, Finish
<1>3. NoNewLock
    BY <1>1, <1>2, IdleHoldsNone, SlotKept
<1>4. CASE UNCHANGED <<txns, cycles>>
    BY <1>3, <1>4 DEF Subsumes
<1>5. CASE AddsRows(txns, txns', slow[r])
  <2>1. CASE slow[r].op = "skip"
      BY <1>1, <1>2, <1>5, <2>1 DEF Commits, Holds
  <2>2. CASE slow[r].op # "skip"
      BY <1>3, <1>5, <2>2 DEF AddsRows, Subsumes
  <2> QED
      BY <2>1, <2>2
<1> QED
    BY <1>4, <1>5, CommitWrites

(* A step adds rows that are imported only when it commits what a lock     *)
(* covers, and takes a lock only when it loads the rows there are.         *)
LEMMA StepKinds ==
    ASSUME LedgerTypeOK, [LedgerNext]_ledger
    PROVE  \/ NoNewLock /\ Subsumes(txns, txns')
           \/ \E r \in Requests : LockAndLoad(r)
           \/ \E r \in Requests : Commits(r)
<1>1. slow \in [Requests -> Request]
    BY TypeFacts
<1>2. UNCHANGED slow => NoNewLock
    BY DEF NoNewLock
<1>3. UNCHANGED txns => Subsumes(txns, txns')
    BY DEF Subsumes
<1>4. CASE TxnNext
  <2>1. ASSUME NEW a \in Accounts, NEW r \in Rows, NEW c, CreateTransaction(a, r, c)
        PROVE  Subsumes(txns, txns')
      BY <2>1, CreateSubsumes
  <2>2. ASSUME NEW t \in DOMAIN txns, NEW a \in Accounts \cup {Keep},
               NEW r \in Rows \cup {Keep}, NEW c, UpdateTransaction(t, a, r, c)
        PROVE  Subsumes(txns, txns')
      BY <2>2, UpdateSubsumes
  <2>3. ASSUME NEW ids, NEW c, BulkUpdateBillingCycle(ids, c)
        PROVE  Subsumes(txns, txns')
      BY <2>3, BulkUpdateSubsumes
  <2>4. ASSUME NEW ids, BulkDeleteTransactions(ids)
        PROVE  Subsumes(txns, txns')
      BY <2>4, DropSubsumes DEF BulkDeleteTransactions
  <2>5. Subsumes(txns, txns')
      BY <1>4, <2>1, <2>2, <2>3, <2>4 DEF TxnNext
  <2> QED
      BY <1>2, <1>4, <2>5, TxnNextLeaves
<1>5. CASE AccountNext
  <2>1. ASSUME NEW a \in Accounts, DeleteAccount(a)
        PROVE  Subsumes(txns, txns')
      BY <2>1, DropSubsumes DEF DeleteAccount
  <2>2. Subsumes(txns, txns')
      BY <1>3, <1>5, <2>1 DEF AccountNext, CreateAccount, UpdateAccount
  <2> QED
      BY <1>2, <1>5, <2>2, AccountNextLeaves
<1>6. ASSUME NEW r \in Requests, NEW a \in Accounts, ReadBillingDay(r, a)
      PROVE  NoNewLock /\ Subsumes(txns, txns')
  <2> DEFINE q == [op |-> "read", acct |-> a, day |-> accounts[a].day]
  <2>1. ~ Holds(q)
      BY DEF Holds
  <2>2. slow' = [slow EXCEPT ![r] = q] /\ UNCHANGED txns
      BY <1>6 DEF ReadBillingDay
  <2> HIDE DEF q
  <2> QED
      BY <1>1, <1>3, <2>1, <2>2, SlotKept
<1>7. ASSUME NEW r \in Requests, EnsureCycles(r)
      PROVE  NoNewLock /\ Subsumes(txns, txns')
  <2>1. slow' = [slow EXCEPT ![r] = Idle]
      BY <1>7 DEF EnsureCycles, Finish
  <2> QED
      BY <1>1, <1>7, <2>1, EnsureCyclesSubsumes, IdleHoldsNone, SlotKept
<1>8. ASSUME NEW r \in Requests, NEW i \in Imports,
             NEW c \in CyclesOf(cycles, i.acct) \cup {NoCycle}, CheckImport(r, i, c)
      PROVE  NoNewLock /\ Subsumes(txns, txns')
  <2>1. PICK q \in Request : /\ slow' = [slow EXCEPT ![r] = q]
                             /\ ~ q.locked
                             /\ txns' = txns
      BY <1>8, CheckImportFacts
  <2>2. ~ Holds(q)
      BY <2>1 DEF Holds
  <2> QED
      BY <1>1, <1>3, <2>1, <2>2, SlotKept
<1>9. CASE RequestNext
    BY <1>6, <1>7, <1>8, <1>9, CommitKinds DEF RequestNext
<1>10. CASE Tick \/ UNCHANGED ledger
    BY <1>2, <1>3, <1>10 DEF Tick, ledger
<1> QED
    BY <1>4, <1>5, <1>9, <1>10 DEF LedgerNext

LEMMA LockInit == Init => LockInv
<1> SUFFICES ASSUME Init
             PROVE  LockInv
    OBVIOUS
<1>1. \A q \in Requests : slow[q] = Idle
    BY DEF Init
<1> QED
    BY <1>1, IdleHoldsNone DEF LockInv

LEMMA LockLoads ==
    ASSUME LedgerTypeOK, LockInv, NEW r \in Requests, LockAndLoad(r)
    PROVE  LockInv'
<1> DEFINE q == slow[r]
           F == Fingerprints(q.acct, q.batch)
           l == Loaded(q, F)
<1>1. /\ q \in Request /\ q.op = "skip" /\ LockFree(q.acct)
      /\ slow' = [slow EXCEPT ![r] = l] /\ txns' = txns
    BY LockAndLoadFacts
<1>2. F \in SUBSET Rows
    BY FingerprintsFacts
<1>3. Covers(txns, l)
  <2>1. l.acct = q.acct /\ l.batch = q.batch /\ l.known = F
      BY <1>1, <1>2, LoadedFacts
  <2> HIDE DEF l
  <2>2. ASSUME NEW t \in DOMAIN txns, txns[t].acct = q.acct,
               NEW i \in DOMAIN q.batch, q.batch[i].date = txns[t].row.date
        PROVE  txns[t].row \in F
      BY <2>2 DEF Fingerprints, TxnsOf
  <2> QED
      BY <2>1, <2>2 DEF Covers
<1>4. l.acct = q.acct
    BY <1>1, <1>2, LoadedFacts
<1>5. slow \in [Requests -> Request]
    BY TypeFacts
<1> HIDE DEF l
<1>6. \A p \in Requests : slow'[p] = IF p = r THEN l ELSE slow[p]
    BY <1>1, <1>5
<1>7. ASSUME NEW p \in Requests, p # r, Holds(slow'[p])
      PROVE  Holds(slow[p]) /\ slow'[p] = slow[p] /\ slow[p].acct # q.acct
    BY <1>1, <1>6, <1>7 DEF LockFree, Holds
<1>8. ASSUME NEW p \in Requests, NEW o \in Requests, Holds(slow'[p]), Holds(slow'[o]),
             slow'[p].acct = slow'[o].acct
      PROVE  p = o
    BY <1>4, <1>6, <1>7, <1>8 DEF LockInv
<1>9. ASSUME NEW p \in Requests, Holds(slow'[p])
      PROVE  Covers(txns', slow'[p])
    BY <1>1, <1>3, <1>6, <1>7, <1>9 DEF LockInv
<1> QED
    BY <1>8, <1>9 DEF LockInv, Holds, Covers

LEMMA LockCommits ==
    ASSUME LedgerTypeOK, LockInv, NEW r \in Requests, Commits(r)
    PROVE  LockInv'
<1> DEFINE q == slow[r]
<1>1. /\ Holds(q) /\ AddsRows(txns, txns', q) /\ slow' = [slow EXCEPT ![r] = Idle]
      /\ slow \in [Requests -> Request]
    BY TypeFacts DEF Commits
<1>2. ASSUME NEW p \in Requests, Holds(slow'[p])
      PROVE  p # r /\ Holds(slow[p]) /\ slow'[p] = slow[p]
    BY <1>1, <1>2, IdleHoldsNone
<1>3. ASSUME NEW p \in Requests, Holds(slow'[p])
      PROVE  Covers(txns', slow'[p])
  <2>1. slow[p].acct # q.acct /\ Covers(txns, slow[p])
      BY <1>1, <1>2, <1>3 DEF LockInv
  <2> HIDE DEF q
  <2>2. ASSUME NEW t \in DOMAIN txns', txns'[t].acct = slow[p].acct
        PROVE  t \in DOMAIN txns
      BY <1>1, <2>1, <2>2 DEF AddsRows
  <2>3. Covers(txns', slow[p])
      BY <1>1, <2>1, <2>2 DEF AddsRows, Covers
  <2> QED
      BY <1>2, <1>3, <2>3
<1>4. ASSUME NEW p \in Requests, NEW o \in Requests, Holds(slow'[p]), Holds(slow'[o]),
             slow'[p].acct = slow'[o].acct
      PROVE  p = o
    BY <1>2, <1>4 DEF LockInv
<1> QED
    BY <1>3, <1>4 DEF LockInv, Holds, Covers

(* An import that skips duplicates loads what is there, and no other       *)
(* commits a row of its account until it has.                              *)
ImportInv == LedgerTypeOK /\ LockInv

LEMMA ImportStep ==
    ASSUME ImportInv, [LedgerNext]_ledger
    PROVE  ImportInv'
<1>1. LedgerTypeOK /\ LockInv
    BY DEF ImportInv
<1>2. LedgerTypeOK'
    BY <1>1, TypeStep
<1>3. LockInv'
    BY <1>1, StepKinds, LockKept, LockLoads, LockCommits
<1> QED
    BY <1>2, <1>3 DEF ImportInv

(* No row of U that T lacks was imported before.                           *)
Once(T, U) ==
    \A t \in DOMAIN U \ DOMAIN T : \A u \in DOMAIN U \ {t} :
       U[t].imported /\ U[u].imported /\ U[t].acct = U[u].acct => U[t].row # U[u].row

LEMMA CommitsOnce ==
    ASSUME LedgerTypeOK, LockInv, NEW r \in Requests, Commits(r)
    PROVE  Once(txns, txns')
<1> DEFINE q == slow[r]
           d == Writing(q)
<1>1. q \in Request /\ q.op = "skip" /\ AddsRows(txns, txns', q) /\ Covers(txns, q)
    BY DEF Commits, Holds, LockInv
<1>2. \A i \in 1..Len(d) :
         \E k \in 1..Len(q.batch) : d[i] = q.batch[k] /\ q.batch[k] \notin q.known
    BY <1>1, InsertedFacts
<1>3. DOMAIN q.batch = 1..Len(q.batch)
    BY <1>1, ImportFields
<1> HIDE DEF q
<1>4. ASSUME NEW t \in DOMAIN txns' \ DOMAIN txns, NEW u \in DOMAIN txns' \ {t},
             txns'[t].imported, txns'[u].imported, txns'[t].acct = txns'[u].acct,
             txns'[t].row = txns'[u].row
      PROVE  FALSE
  <2>1. u \in DOMAIN txns
      BY <1>1, <1>4 DEF AddsRows
  <2>2. txns[u].imported /\ txns[u].acct = q.acct /\ txns[u].row = txns'[t].row
      BY <1>1, <1>4, <2>1 DEF AddsRows
  <2>3. PICK i \in 1..Len(d) : txns'[t].row = d[i]
      BY <1>1 DEF AddsRows
  <2>4. PICK k \in 1..Len(q.batch) : d[i] = q.batch[k] /\ q.batch[k] \notin q.known
      BY <1>2
  <2>5. k \in DOMAIN q.batch /\ q.batch[k] = txns[u].row
      BY <1>3, <2>2, <2>3, <2>4
  <2> QED
      BY <1>1, <2>1, <2>2, <2>4, <2>5 DEF Covers
<1> QED
    BY <1>4 DEF Once

(* Two imports that skip duplicates never write the same row twice: what   *)
(* one inserts is in nothing it loaded, and under the advisory lock it     *)
(* loaded all that an earlier one had inserted.                            *)
THEOREM ImportsWriteOnce == LedgerSpec => SkipImportsOnce
<1>1. ImportInv /\ [LedgerNext]_ledger => ImportInv'
    BY ImportStep
<1>2. Init => ImportInv
    BY TypeInit, LockInit DEF ImportInv
<1>3. ImportInv /\ [LedgerNext]_ledger => Once(txns, txns')
  <2> SUFFICES ASSUME LedgerTypeOK, LockInv, [LedgerNext]_ledger
               PROVE  Once(txns, txns')
      BY DEF ImportInv
  <2>1. CASE Subsumes(txns, txns')
      BY <2>1 DEF Subsumes, Once
  <2>2. ASSUME NEW r \in Requests, LockAndLoad(r)
        PROVE  Once(txns, txns')
      BY <2>2, LockAndLoadFacts DEF Once
  <2> QED
      BY <2>1, <2>2, StepKinds, CommitsOnce
<1>4. LedgerSpec => [][Once(txns, txns')]_ledger
  <2>1. ImportInv /\ [LedgerNext]_ledger => [Once(txns, txns')]_ledger
      BY <1>3
  <2> QED
      BY <1>1, <1>2, <2>1, PTL DEF LedgerSpec
<1> QED
    BY <1>4 DEF SkipImportsOnce, Once

-----------------------------------------------------------------------------
(* The cycles of an account. *)

(* The cycles of a, if there are any, are those of one billing day, and    *)
(* two of them are of months in a row.                                     *)
Aligned(C, a, b) ==
    /\ \A c \in CyclesOf(C, a) : \E m \in 1..LastMonth : c = Made(a, m, b)
    /\ \E m \in 1..(LastMonth - 1) : Made(a, m, b) \in C /\ Made(a, m + 1, b) \in C

CyclesAligned(C) ==
    \A a \in Accounts : CyclesOf(C, a) = {} \/ \E b \in Days : Aligned(C, a, b)

(* Two months in a row that end on the same dates for two billing days     *)
(* tell that these are the same.                                           *)
LEMMA DayOfTwoMonths ==
    ASSUME LongMonths, NEW m \in 1..(LastMonth - 1), NEW b \in Days, NEW d \in Days,
           BillingDate(m, b) = BillingDate(m, d),
           BillingDate(m + 1, b) = BillingDate(m + 1, d)
    PROVE  b = d
<1>1. /\ LastMonth \in Nat /\ m \in 0..(LastMonth - 1)
      /\ m \in 0..(LastMonth + 1) /\ m + 1 \in 0..(LastMonth + 1)
    BY CalendarAssumption
<1>2. Start[m] \in Nat /\ Start[m + 1] \in Nat /\ b \in Nat /\ d \in Nat
    BY <1>1, StartIsNat, DaysAssumption
<1>3. CASE \A e \in Days : Start[m] + e - 1 <= MonthEnd(m)
  <2>1. BillingDate(m, b) = Start[m] + b - 1 /\ BillingDate(m, d) = Start[m] + d - 1
      BY <1>3 DEF BillingDate
  <2>2. Start[m] + b - 1 = Start[m] + d - 1
      BY <2>1
  <2> QED
      BY <1>2, <2>2
<1>4. CASE \A e \in Days : Start[m + 1] + e - 1 <= MonthEnd(m + 1)
  <2>1. /\ BillingDate(m + 1, b) = Start[m + 1] + b - 1
        /\ BillingDate(m + 1, d) = Start[m + 1] + d - 1
      BY <1>4 DEF BillingDate
  <2>2. Start[m + 1] + b - 1 = Start[m + 1] + d - 1
      BY <2>1
  <2> QED
      BY <1>2, <2>2
<1> QED
    BY <1>1, <1>3, <1>4 DEF LongMonths

(* So a billing day that leaves no cycle misaligned is the cycles' own.    *)
LEMMA AlignedIsOwn ==
    ASSUME LongMonths, NEW C, NEW a \in Accounts, NEW b \in Days, NEW d \in Days,
           Aligned(C, a, d), ~ Misaligned(C, a, b)
    PROVE  b = d
<1>1. PICK m \in 1..(LastMonth - 1) : Made(a, m, d) \in C /\ Made(a, m + 1, d) \in C
    BY DEF Aligned
<1>2. m \in 1..LastMonth /\ m + 1 \in 1..LastMonth
    BY CalendarAssumption
<1>3. ASSUME NEW n \in 1..LastMonth, Made(a, n, d) \in C
      PROVE  BillingDate(n, d) = BillingDate(n, b)
  <2> DEFINE c == Made(a, n, d)
  <2>1. c.acct = a /\ c.end = BillingDate(n, d) /\ MonthOf(c.end) = n
      BY MadeIsCycle
  <2> HIDE DEF c
  <2>2. c \in CyclesOf(C, a)
      BY <1>3, <2>1 DEF CyclesOf, c
  <2> QED
      BY <2>1, <2>2 DEF Misaligned
<1> QED
    BY <1>1, <1>2, <1>3, DayOfTwoMonths

(* From the cycles C, of which those in rest stay, to the cycles D: what   *)
(* comes is of the account a and of the months wanted for the rows K.      *)
Recycled(K, C, D, rest, a, b) ==
    /\ IsTable(K)
    /\ \A c \in CyclesOf(D, a) :
          c \in CyclesOf(rest, a) \/ \E m \in 1..LastMonth : c = Made(a, m, b)
    /\ \A m \in WantedMonths(K, a, b) : CyclesOf(rest, a) # {} \/ Made(a, m, b) \in D
    /\ rest \subseteq D
    /\ \A o \in Accounts \ {a} : CyclesOf(D, o) = CyclesOf(C, o)

LEMMA RegeneratedCycles ==
    ASSUME today \in FirstToday .. LastToday, NEW T, IsTable(T), NEW C \in SUBSET Cycle,
           NEW a \in Accounts, NEW b \in Days
    PROVE  \E K : /\ SameRows(T, K)
                  /\ Recycled(K, C, Regenerated(T, C, a, b), C \ Gone(C, a, b), a, b)
<1> DEFINE U == Rewritten(T, C, a, b)
           D == Regenerated(T, C, a, b)
           gone == Gone(C, a, b)
           rest == C \ gone
<1>1. /\ Ensure([txns |-> T, cycles |-> C], a, b) = [txns |-> U, cycles |-> D]
      /\ DOMAIN U = DOMAIN T
      /\ \A t \in DOMAIN T : Filled(Left(T[t], gone), U[t], a, D)
      /\ \E K : /\ IsTable(K) /\ SameRows(T, K)
                /\ D = (C \ gone) \cup Missing([txns |-> K, cycles |-> C \ gone], a, b)
    BY EnsureFacts DEF Rewritten, Regenerated
<1>2. gone \subseteq CyclesOf(C, a)
    BY DEF Gone
<1> HIDE DEF D, gone, rest
<1>3. PICK K : IsTable(K) /\ SameRows(T, K) /\ D = rest \cup Missing([txns |-> K, cycles |-> rest], a, b)
    BY <1>1 DEF rest
<1> DEFINE made == Missing([txns |-> K, cycles |-> rest], a, b)
<1>4. /\ \A c \in made : \E m \in 1..LastMonth : c = Made(a, m, b)
      /\ \A m \in WantedMonths(K, a, b) :
            \/ \E c \in CyclesOf(rest, a) : MonthOf(c.end) = m \/ c.start = CycleStart(m, b)
            \/ Made(a, m, b) \in made
    BY <1>3, MissingFacts
<1>5. D = rest \cup made
    BY <1>3
<1> HIDE DEF made
<1>6. \A c \in made : c.acct = a
    BY <1>4, MadeIsCycle
<1>7. \A c \in CyclesOf(D, a) :
         c \in CyclesOf(rest, a) \/ \E m \in 1..LastMonth : c = Made(a, m, b)
    BY <1>4, <1>5 DEF CyclesOf
<1>8. \A m \in WantedMonths(K, a, b) : CyclesOf(rest, a) # {} \/ Made(a, m, b) \in D
    BY <1>4, <1>5
<1>9. \A o \in Accounts \ {a} : CyclesOf(D, o) = CyclesOf(C, o)
    BY <1>2, <1>5, <1>6 DEF CyclesOf, rest
<1>10. SameRows(T, K) /\ Recycled(K, C, D, rest, a, b)
    BY <1>3, <1>5, <1>7, <1>8, <1>9 DEF Recycled
<1> QED
    BY <1>10 DEF D, rest, gone

LEMMA RegeneratedAligned ==
    ASSUME LongMonths, MaxCycles >= 2,
           today \in FirstToday .. LastToday, NEW T, IsTable(T), NEW C \in SUBSET Cycle,
           NEW a \in Accounts, NEW b \in Days, Early(T, a), CyclesAligned(C)
    PROVE  CyclesAligned(Regenerated(T, C, a, b))
<1> DEFINE D == Regenerated(T, C, a, b)
           rest == C \ Gone(C, a, b)
<1>1. \E K : SameRows(T, K) /\ Recycled(K, C, D, rest, a, b)
    BY RegeneratedCycles
<1>2. Misaligned(C, a, b) => CyclesOf(rest, a) = {}
    BY DEF Gone, CyclesOf
<1>3. ~ Misaligned(C, a, b) => rest = C
    BY DEF Gone
<1> HIDE DEF D, rest
<1>4. PICK K : SameRows(T, K) /\ Recycled(K, C, D, rest, a, b)
    BY <1>1
<1>11. Early(K, a)
    BY <1>4, EarlySame
<1>5. /\ IsTable(K)
      /\ \A c \in CyclesOf(D, a) :
            c \in CyclesOf(rest, a) \/ \E m \in 1..LastMonth : c = Made(a, m, b)
      /\ \A m \in WantedMonths(K, a, b) : CyclesOf(rest, a) # {} \/ Made(a, m, b) \in D
      /\ rest \subseteq D
      /\ \A o \in Accounts \ {a} : CyclesOf(D, o) = CyclesOf(C, o)
    BY <1>4 DEF Recycled
<1>6. ASSUME CyclesOf(rest, a) = {}
      PROVE  Aligned(D, a, b)
  <2>1. PICK m \in 1..(LastMonth - 1) : {m, m + 1} \subseteq WantedMonths(K, a, b)
      BY <1>5, <1>11, WantedFacts
  <2>2. \A c \in CyclesOf(D, a) : \E n \in 1..LastMonth : c = Made(a, n, b)
      BY <1>5, <1>6
  <2>3. Made(a, m, b) \in D /\ Made(a, m + 1, b) \in D
      BY <1>5, <1>6, <2>1
  <2> QED
      BY <2>2, <2>3 DEF Aligned
<1>7. ASSUME CyclesOf(rest, a) # {}
      PROVE  Aligned(D, a, b)
  <2>1. ~ Misaligned(C, a, b) /\ rest = C
      BY <1>2, <1>3, <1>7
  <2>2. PICK d \in Days : Aligned(C, a, d)
      BY <1>7, <2>1 DEF CyclesAligned
  <2>3. Aligned(C, a, b)
      BY <2>1, <2>2, AlignedIsOwn
  <2>4. \A c \in CyclesOf(D, a) : \E n \in 1..LastMonth : c = Made(a, n, b)
      BY <1>5, <2>1, <2>3 DEF Aligned
  <2>5. \E m \in 1..(LastMonth - 1) : Made(a, m, b) \in D /\ Made(a, m + 1, b) \in D
      BY <1>5, <2>1, <2>3 DEF Aligned
  <2> QED
      BY <2>4, <2>5 DEF Aligned
<1>8. Aligned(D, a, b)
    BY <1>6, <1>7
<1>9. ASSUME NEW o \in Accounts \ {a}, CyclesOf(C, o) # {}
      PROVE  \E d \in Days : Aligned(D, o, d)
  <2>1. PICK d \in Days : Aligned(C, o, d)
      BY <1>9 DEF CyclesAligned
  <2>2. CyclesOf(D, o) = CyclesOf(C, o)
      BY <1>5
  <2>3. ASSUME NEW m \in 1..LastMonth, Made(o, m, d) \in C
        PROVE  Made(o, m, d) \in D
    <3>1. Made(o, m, d) \in CyclesOf(C, o)
        BY <2>3, MadeIsCycle DEF CyclesOf
    <3> QED
        BY <2>2, <3>1 DEF CyclesOf
  <2>4. \A m \in 1..(LastMonth - 1) : m \in 1..LastMonth /\ m + 1 \in 1..LastMonth
      BY CalendarAssumption
  <2> QED
      BY <2>1, <2>2, <2>3, <2>4 DEF Aligned
<1>10. CyclesAligned(D)
    BY <1>5, <1>8, <1>9 DEF CyclesAligned
<1> QED
    BY <1>10 DEF D

(* The cycles of an account are regenerated, or go with it.                *)
Regenerates == \E T : \E a \in Accounts, b \in Days :
                  /\ IsTable(T) /\ SameRows(T, txns') /\ today' = today
                  /\ cycles' = Regenerated(T, cycles, a, b)

LEMMA EnsureRegenerates ==
    ASSUME LedgerTypeOK, NEW T, IsTable(T), NEW a \in Accounts, NEW b \in Days
    PROVE  /\ Ensure([txns |-> T, cycles |-> cycles], a, b)
                 = [txns |-> Rewritten(T, cycles, a, b), cycles |-> Regenerated(T, cycles, a, b)]
           /\ SameRows(T, Rewritten(T, cycles, a, b))
           /\ (/\ cycles' = Regenerated(T, cycles, a, b) /\ today' = today
               /\ SameRows(Rewritten(T, cycles, a, b), txns')) => Regenerates
<1>1. cycles \in SUBSET Cycle /\ today \in FirstToday .. LastToday
    BY TypeFacts
<1>2. Ensured(T, cycles, a, b)
    BY <1>1, EnsureKeeps
<1> DEFINE U == Rewritten(T, cycles, a, b)
           D == Regenerated(T, cycles, a, b)
<1>3. /\ Ensure([txns |-> T, cycles |-> cycles], a, b) = [txns |-> U, cycles |-> D]
      /\ DOMAIN U = DOMAIN T /\ \A t \in DOMAIN T : Keeps(T[t], U[t], cycles, D)
    BY <1>2 DEF Ensured
<1> HIDE DEF U, D
<1>4. SameRows(T, U)
    BY <1>3 DEF Keeps, SameRows
<1>5. ASSUME cycles' = D, today' = today, SameRows(U, txns')
      PROVE  Regenerates
  <2>1. SameRows(T, txns')
      BY <1>4, <1>5, SameTrans
  <2> QED
      BY <1>5, <2>1 DEF Regenerates, D
<1> QED
    BY <1>3, <1>4, <1>5 DEF U, D

LEMMA SameSelf ==
    ASSUME NEW T
    PROVE  SameRows(T, T)
BY DEF SameRows

LEMMA CreateCycles ==
    ASSUME LedgerTypeOK, NEW a \in Accounts, NEW r \in Rows, NEW c,
           CreateTransaction(a, r, c)
    PROVE  cycles' = cycles \/ Regenerates
<1> DEFINE b == accounts[a].day
           n == NextId(txns)
           X == Insert(txns, NewTxn(a, r))
           e == Ensure([txns |-> X, cycles |-> cycles], a, b)
           U == Rewritten(X, cycles, a, b)
           D == Regenerated(X, cycles, a, b)
<1>1. IsTable(txns) /\ b \in Days \cup {NoDay} /\ DOMAIN txns # TxnIds
    BY TypeFacts DEF Account, CreateTransaction
<1>2. IsTable(X)
  <2> DEFINE x == NewTxn(a, r)
  <2>1. x \in Txn
      BY NewTxnFacts
  <2> HIDE DEF x
  <2>2. IsTable(Insert(txns, x))
      BY <1>1, <2>1, InsertFacts
  <2> QED
      BY <2>2 DEF x
<1>3. \/ Write([txns |-> X, cycles |-> cycles])
      \/ b # NoDay /\ Write(e)
      \/ b # NoDay /\ Write([e EXCEPT !.txns[n] = Assign(@, c)])
    BY TablesAre DEF CreateTransaction
<1>8. today' = today
    BY DEF CreateTransaction
<1> HIDE DEF b, n, X
<1>4. b # NoDay => /\ e = [txns |-> U, cycles |-> D]
                   /\ cycles' = D /\ SameRows(U, txns') => Regenerates
    BY <1>1, <1>2, <1>8, EnsureRegenerates
<1> HIDE DEF e, U, D
<1>5. CASE Write([txns |-> X, cycles |-> cycles])
    BY <1>5 DEF Write
<1>6. CASE b # NoDay /\ Write(e)
  <2>1. cycles' = D /\ txns' = U
      BY <1>4, <1>6 DEF Write
  <2> QED
      BY <1>4, <1>6, <2>1, SameSelf
<1>7. CASE b # NoDay /\ Write([e EXCEPT !.txns[n] = Assign(@, c)])
  <2>1. e = [txns |-> U, cycles |-> D]
      BY <1>4, <1>7
  <2>2. cycles' = D /\ txns' = [U EXCEPT ![n] = Assign(@, c)]
      BY <1>7, <2>1 DEF Write
  <2>3. SameRows(U, txns')
      BY <2>2 DEF SameRows, Assign
  <2> QED
      BY <1>4, <1>7, <2>2, <2>3
<1> QED
    BY <1>3, <1>5, <1>6, <1>7

LEMMA EnsureCyclesCycles ==
    ASSUME LedgerTypeOK, NEW r \in Requests, EnsureCycles(r)
    PROVE  cycles' = cycles \/ Regenerates
<1> DEFINE a == slow[r].acct
           b == slow[r].day
<1>1. IsTable(txns) /\ slow[r] \in Request /\ slow[r].op = "read"
    BY TypeFacts DEF EnsureCycles
<1>2. a \in Accounts /\ b \in Days
    BY <1>1 DEF Request, Idle
<1>3. /\ \/ /\ cycles' = Ensure([txns |-> txns, cycles |-> cycles], a, b).cycles
            /\ txns' = Ensure([txns |-> txns, cycles |-> cycles], a, b).txns
         \/ cycles' = cycles
      /\ today' = today
    BY DEF EnsureCycles, Tables, Write
<1> HIDE DEF a, b
<1>4. cycles' = Regenerated(txns, cycles, a, b) /\ txns' = Rewritten(txns, cycles, a, b)
        => Regenerates
    BY <1>1, <1>2, <1>3, EnsureRegenerates, SameSelf
<1> QED
    BY <1>3, <1>4 DEF Regenerated, Rewritten

LEMMA CommitCycles ==
    ASSUME LedgerTypeOK, NEW r \in Requests, CommitImport(r)
    PROVE  cycles' = cycles \/ Regenerates
<1> DEFINE q == slow[r]
           rows == Writing(q)
           a == q.acct
           b == q.day
           e == Ensure([txns |-> Attached(q), cycles |-> cycles], a, b)
<1>1. /\ IsTable(txns) /\ q \in Request /\ q.op \in {"skip", "keep"}
      /\ Cardinality(DOMAIN txns) + Len(rows) <= Cardinality(TxnIds)
    BY TypeFacts DEF CommitImport, Writing
<1>2. a \in Accounts /\ b \in Days \cup {NoDay}
    BY <1>1, ImportFields
<1>3. IsTable(Attached(q))
    BY <1>1, AttachedFacts DEF Extends
<1>4. \/ cycles' = cycles
      \/ b = NoDay /\ Write([txns |-> AllRows(q), cycles |-> cycles])
      \/ b # NoDay /\ Write(e)
  <2>1. Imported(q, rows) = IF b = NoDay THEN [txns |-> AllRows(q), cycles |-> cycles]
                            ELSE e
      BY TablesAre DEF Imported, AllRows, Attached
  <2>2. UNCHANGED <<txns, cycles>> \/ Write(Imported(q, rows))
      BY DEF CommitImport, Writing
  <2> HIDE DEF e, q, rows, b
  <2> QED
      BY <2>1, <2>2
<1>7. today' = today
    BY DEF CommitImport
<1> DEFINE X == Attached(q)
<1> HIDE DEF q, a, b, X
<1>5. CASE b = NoDay /\ Write([txns |-> AllRows(q), cycles |-> cycles])
    BY <1>5 DEF Write
<1>6. CASE b # NoDay /\ Write(e)
  <2>1. /\ cycles' = Ensure([txns |-> X, cycles |-> cycles], a, b).cycles
        /\ txns' = Ensure([txns |-> X, cycles |-> cycles], a, b).txns
      BY <1>6 DEF Write, X
  <2>2. cycles' = Regenerated(X, cycles, a, b) /\ txns' = Rewritten(X, cycles, a, b)
          => Regenerates
      BY <1>2, <1>3, <1>6, <1>7, EnsureRegenerates, SameSelf DEF X
  <2> QED
      BY <2>1, <2>2 DEF Regenerated, Rewritten
<1> QED
    BY <1>4, <1>5, <1>6

LEMMA CycleKinds ==
    ASSUME LedgerTypeOK, [LedgerNext]_ledger
    PROVE  \/ cycles' = cycles
           \/ \E a \in Accounts : cycles' = cycles \ CyclesOf(cycles, a)
           \/ Regenerates
<1>1. CASE TxnNext
  <2>1. ASSUME NEW a \in Accounts, NEW r \in Rows, NEW c, CreateTransaction(a, r, c)
        PROVE  cycles' = cycles \/ Regenerates
      BY <2>1, CreateCycles
  <2>2. ASSUME NEW t, NEW a, NEW r, NEW c, UpdateTransaction(t, a, r, c)
        PROVE  cycles' = cycles
      BY <2>2 DEF UpdateTransaction
  <2>3. ASSUME NEW ids, NEW c, BulkUpdateBillingCycle(ids, c)
        PROVE  cycles' = cycles
      BY <2>3 DEF BulkUpdateBillingCycle
  <2>4. ASSUME NEW ids, BulkDeleteTransactions(ids)
        PROVE  cycles' = cycles
      BY <2>4 DEF BulkDeleteTransactions
  <2> QED
      BY <1>1, <2>1, <2>2, <2>3, <2>4 DEF TxnNext
<1>2. CASE AccountNext
    BY <1>2 DEF AccountNext, CreateAccount, UpdateAccount, DeleteAccount
<1>3. CASE RequestNext
    BY <1>3, EnsureCyclesCycles, CommitCycles
       DEF RequestNext, ReadBillingDay, CheckImport, LockAndLoad
<1>4. CASE Tick \/ UNCHANGED ledger
    BY <1>4 DEF Tick, ledger
<1> QED
    BY <1>1, <1>2, <1>3, <1>4 DEF LedgerNext

LEMMA AlignedStep ==
    ASSUME LongMonths, MaxCycles >= 2, NoneAhead',
           LedgerTypeOK, CyclesAligned(cycles), [LedgerNext]_ledger
    PROVE  CyclesAligned(cycles')
<1>1. cycles \in SUBSET Cycle /\ today \in FirstToday .. LastToday
    BY TypeFacts
<1>2. ASSUME NEW a \in Accounts, cycles' = cycles \ CyclesOf(cycles, a)
      PROVE  CyclesAligned(cycles')
  <2>1. CyclesOf(cycles', a) = {}
      BY <1>2 DEF CyclesOf
  <2>2. ASSUME NEW o \in Accounts \ {a}, CyclesOf(cycles', o) # {}
        PROVE  \E d \in Days : Aligned(cycles', o, d)
    <3>1. CyclesOf(cycles', o) = CyclesOf(cycles, o)
        BY <1>2 DEF CyclesOf
    <3>2. PICK d \in Days : Aligned(cycles, o, d)
        BY <2>2, <3>1 DEF CyclesAligned
    <3>3. PICK m \in 1..(LastMonth - 1) : /\ Made(o, m, d) \in cycles
                                         /\ Made(o, m + 1, d) \in cycles
        BY <3>2 DEF Aligned
    <3>4. m \in 1..LastMonth /\ m + 1 \in 1..LastMonth
        BY CalendarAssumption
    <3>5. Made(o, m, d).acct = o /\ Made(o, m + 1, d).acct = o
        BY <3>4, MadeIsCycle
    <3>6. Made(o, m, d) \in cycles' /\ Made(o, m + 1, d) \in cycles'
        BY <1>2, <3>3, <3>5 DEF CyclesOf
    <3> QED
        BY <3>1, <3>2, <3>6 DEF Aligned
  <2> QED
      BY <2>1, <2>2 DEF CyclesAligned
<1>3. CASE Regenerates
  <2>1. PICK T : \E a \in Accounts, b \in Days :
                    /\ IsTable(T) /\ SameRows(T, txns') /\ today' = today
                    /\ cycles' = Regenerated(T, cycles, a, b)
      BY <1>3 DEF Regenerates
  <2>2. PICK a \in Accounts, b \in Days :
                /\ IsTable(T) /\ SameRows(T, txns') /\ today' = today
                /\ cycles' = Regenerated(T, cycles, a, b)
      BY <2>1
  <2>4. Early(txns', a)
      BY <2>2 DEF NoneAhead, Early
  <2>5. Early(T, a)
      BY <2>2, <2>4, EarlySame
  <2>3. CyclesAligned(Regenerated(T, cycles, a, b))
      BY <1>1, <2>2, <2>5, RegeneratedAligned
  <2> QED
      BY <2>2, <2>3
<1> QED
    BY <1>2, <1>3, CycleKinds

LEMMA AlignedDisjoint ==
    ASSUME CyclesAligned(cycles)
    PROVE  CyclesDisjoint
<1>1. ASSUME NEW a \in Accounts, NEW c \in CyclesOf(cycles, a), NEW d \in CyclesOf(cycles, a),
             c # d
      PROVE  c.end < d.start \/ d.end < c.start
  <2>3. PICK b \in Days : Aligned(cycles, a, b)
      BY <1>1 DEF CyclesAligned
  <2>4. PICK m \in 1..LastMonth, n \in 1..LastMonth : c = Made(a, m, b) /\ d = Made(a, n, b)
      BY <1>1, <2>3 DEF Aligned
  <2>5. m < n \/ n < m
      BY <1>1, <2>4, CalendarAssumption
  <2>6. /\ c.start = CycleStart(m, b) /\ c.end = CycleEnd(m, b)
        /\ d.start = CycleStart(n, b) /\ d.end = CycleEnd(n, b)
      BY <2>4 DEF Made
  <2> QED
      BY <2>5, <2>6, MadeApart
<1> QED
    BY <1>1 DEF CyclesDisjoint, CyclesApart

(* The cycles of an account never share a day, whatever its billing day    *)
(* was changed to and however late a read that had the old day in hand     *)
(* came: two adjacent cycles betray a changed day, and all of them go.     *)
(* Adjacent ones are there as long as no account has rows that are all     *)
(* dated ahead of the current month, and the limit leaves room for two.    *)
THEOREM CyclesStayApart ==
    ASSUME LongMonths, MaxCycles >= 2
    PROVE  LedgerSpec /\ []NoneAhead => []CyclesDisjoint
<1> DEFINE Inv == LedgerTypeOK /\ CyclesAligned(cycles)
<1>1. Init => Inv
    BY TypeInit DEF Init, CyclesAligned, CyclesOf
<1>2. Inv /\ NoneAhead' /\ [LedgerNext]_ledger => Inv'
    BY TypeStep, AlignedStep
<1>3. Inv => CyclesDisjoint
    BY AlignedDisjoint
<1> QED
    BY <1>1, <1>2, <1>3, PTL DEF LedgerSpec

-----------------------------------------------------------------------------
(* The running totals. *)

(* The sum over disjoint parts, part by part.                              *)
LEMMA SumPartByPart ==
    ASSUME NEW D, IsFiniteSet(D), NEW P, \A d \in D : IsFiniteSet(P[d]),
           \A c, d \in D : c # d => P[c] \cap P[d] = {},
           NEW f, \A d \in D : \A x \in P[d] : f[x] \in Int,
           NEW g, \A d \in D : g[d] = SumFunctionOnSet(f, P[d])
    PROVE  SumFunctionOnSet(g, D) = SumFunctionOnSet(f, UNION {P[d] : d \in D})
<1> DEFINE All(A) == UNION {P[d] : d \in A}
           T == {A \in SUBSET D : /\ IsFiniteSet(All(A))
                                  /\ SumFunctionOnSet(g, A) = SumFunctionOnSet(f, All(A))}
<1>1. \A d \in D : g[d] \in Int
    BY SumUnfolds
<1>2. {} \in T
  <2>1. All({}) = {}
      OBVIOUS
  <2> HIDE DEF All
  <2> QED
      BY <2>1, SumEmpty, FS_EmptySet
<1>3. ASSUME NEW A \in SUBSET D, NEW d \in D \ A, A \in T
      PROVE  A \cup {d} \in T
  <2>1. All(A \cup {d}) = All(A) \cup P[d] /\ All(A) \cap P[d] = {}
    <3>1. \A c \in A : c \in D /\ c # d
        OBVIOUS
    <3>2. ASSUME NEW x \in All(A)
          PROVE  x \notin P[d]
      <4>1. PICK c \in A : x \in P[c]
          OBVIOUS
      <4>2. P[c] \cap P[d] = {}
          BY <3>1
      <4> QED
          BY <4>1, <4>2
    <3> QED
        BY <3>2
  <2>2. \A x \in All(A) \cup P[d] : f[x] \in Int
      OBVIOUS
  <2> HIDE DEF All
  <2>3. IsFiniteSet(A) /\ IsFiniteSet(All(A)) /\ IsFiniteSet(P[d])
      BY <1>3, FS_Subset
  <2>4. IsFiniteSet(All(A \cup {d}))
    <3> DEFINE X == All(A)
               Y == P[d]
    <3>1. IsFiniteSet(X) /\ IsFiniteSet(Y)
        BY <2>3
    <3> HIDE DEF X, Y
    <3>2. IsFiniteSet(X \cup Y)
        BY <3>1, FS_Union
    <3>3. X \cup Y = All(A \cup {d})
        BY <2>1 DEF X, Y
    <3> QED
        BY <3>2, <3>3
  <2>5. SumFunctionOnSet(f, All(A) \cup P[d])
           = SumFunctionOnSet(f, All(A)) + SumFunctionOnSet(f, P[d])
    <3> DEFINE X == All(A)
               Y == P[d]
    <3>1. IsFiniteSet(X) /\ IsFiniteSet(Y) /\ X \cap Y = {} /\ \A x \in X \cup Y : f[x] \in Int
        BY <2>1, <2>2, <2>3
    <3> HIDE DEF X, Y
    <3>2. SumFunctionOnSet(f, X \cup Y) = SumFunctionOnSet(f, X) + SumFunctionOnSet(f, Y)
        BY <3>1, SumOfUnion
    <3> QED
        BY <3>2 DEF X, Y
  <2>6. \A x \in A \cup {d} : g[x] \in Int
      BY <1>1
  <2>7. SumFunctionOnSet(g, A \cup {d}) = g[d] + SumFunctionOnSet(g, A)
      BY <2>3, <2>6, SumAdds
  <2>8. SumFunctionOnSet(g, A) = SumFunctionOnSet(f, All(A))
      BY <1>3
  <2>9. /\ SumFunctionOnSet(f, All(A)) \in Int /\ g[d] \in Int
        /\ g[d] = SumFunctionOnSet(f, P[d])
      BY <1>1, <2>2, <2>3, SumUnfolds
  <2> DEFINE p == SumFunctionOnSet(f, All(A))
  <2>10. SumFunctionOnSet(g, A \cup {d}) = g[d] + p
      BY <2>7, <2>8
  <2>11. SumFunctionOnSet(f, All(A \cup {d})) = p + g[d]
      BY <2>1, <2>5, <2>9
  <2>12. p \in Int
      BY <2>9
  <2> HIDE DEF p
  <2>13. g[d] + p = p + g[d]
      BY <2>9, <2>12
  <2> QED
      BY <2>4, <2>10, <2>11, <2>13
<1> HIDE DEF T
<1>4. D \in T
    BY <1>2, <1>3, InductSets
<1> QED
    BY <1>4 DEF T

(* A cycle was made for a month and a billing day.                         *)
AllMade(C) == \A c \in C : \E m \in 1..LastMonth, b \in Days : c = Made(c.acct, m, b)

LEMMA MadeStep ==
    ASSUME LedgerTypeOK, AllMade(cycles), [LedgerNext]_ledger
    PROVE  AllMade(cycles')
<1>1. cycles \in SUBSET Cycle /\ today \in FirstToday .. LastToday
    BY TypeFacts
<1>2. ASSUME NEW T, NEW a \in Accounts, NEW b \in Days, IsTable(T),
             cycles' = Regenerated(T, cycles, a, b)
      PROVE  AllMade(cycles')
  <2>1. PICK K : Recycled(K, cycles, cycles', cycles \ Gone(cycles, a, b), a, b)
      BY <1>1, <1>2, RegeneratedCycles
  <2>2. cycles' \in SUBSET Cycle
      BY <1>1, <1>2, EnsureKeeps DEF Ensured
  <2>3. ASSUME NEW c \in cycles', c.acct = a
        PROVE  c \in cycles \/ \E m \in 1..LastMonth : c = Made(a, m, b)
      BY <2>1, <2>3 DEF Recycled, CyclesOf
  <2>4. ASSUME NEW c \in cycles', c.acct # a
        PROVE  c \in cycles
    <3>1. c.acct \in Accounts \ {a} /\ c \in CyclesOf(cycles', c.acct)
        BY <2>2, <2>4 DEF Cycle, CyclesOf
    <3>2. CyclesOf(cycles', c.acct) = CyclesOf(cycles, c.acct)
        BY <2>1, <3>1 DEF Recycled
    <3> QED
        BY <3>1, <3>2 DEF CyclesOf
  <2> QED
      BY <2>3, <2>4 DEF AllMade
<1>3. CASE Regenerates
    BY <1>2, <1>3 DEF Regenerates
<1>4. CASE cycles' \subseteq cycles
    BY <1>4 DEF AllMade
<1> QED
    BY <1>3, <1>4, CycleKinds

(* A cycle is a period of days, and an account has finitely many.          *)
LEMMA CyclesAreDays ==
    ASSUME LedgerTypeOK, AllMade(cycles), NEW a \in Accounts
    PROVE  /\ IsFiniteSet(CyclesOf(cycles, a))
           /\ \A c \in CyclesOf(cycles, a) :
                 c.acct = a /\ c.start \in Int /\ c.end \in Int /\ c.start <= c.end
<1>1. LastMonth \in Nat
    BY CalendarAssumption
<1>2. ASSUME NEW c \in CyclesOf(cycles, a)
      PROVE  /\ c.acct = a /\ c.start \in Int /\ c.end \in Int /\ c.start <= c.end
             /\ c = [acct |-> a, start |-> c.start, end |-> c.end]
  <2>1. PICK m \in 1..LastMonth, b \in Days : c = Made(c.acct, m, b)
      BY <1>2 DEF AllMade, CyclesOf
  <2>2. c.acct = a /\ c = Made(a, m, b)
      BY <1>2, <2>1 DEF CyclesOf
  <2>3. c.start = BillingDate(m - 1, b) + 1 /\ c.end = BillingDate(m, b)
      BY <2>2 DEF Made, CycleStart, CycleEnd
  <2>4. m - 1 \in Months /\ m \in Months /\ m - 1 < m
      BY <1>1 DEF Months
  <2>5. /\ BillingDate(m - 1, b) \in Int /\ BillingDate(m, b) \in Int
        /\ BillingDate(m - 1, b) < BillingDate(m, b)
      BY <2>4, BillingDateIs, BillingDateGrows
  <2>6. c = [acct |-> a, start |-> c.start, end |-> c.end]
      BY <2>2 DEF Made
  <2> QED
      BY <2>2, <2>3, <2>5, <2>6
<1>3. IsFiniteSet(CyclesOf(cycles, a))
  <2> DEFINE S == Dates \X Dates
             f == [p \in S |-> [acct |-> a, start |-> p[1], end |-> p[2]]]
             K == {f[p] : p \in S}
  <2>1. f \in Surjection(S, K)
      BY DEF Surjection
  <2>2. IsFiniteSet(Dates)
    <3>1. 0 \in 0..(LastMonth + 1) /\ LastMonth + 1 \in 0..(LastMonth + 1)
        BY <1>1
    <3>2. Start[0] \in Nat /\ Start[LastMonth + 1] \in Nat
        BY <3>1, StartIsNat
    <3> QED
        BY <3>2, FS_Interval DEF Dates
  <2>3. IsFiniteSet(S)
      BY <2>2, FS_Product
  <2>4. ASSUME NEW c \in CyclesOf(cycles, a)
        PROVE  c \in K
    <3>1. <<c.start, c.end>> \in S
        BY TypeFacts DEF CyclesOf, Cycle
    <3>2. f[<<c.start, c.end>>] = [acct |-> a, start |-> c.start, end |-> c.end]
        BY <3>1
    <3> QED
        BY <1>2, <3>1, <3>2
  <2> HIDE DEF S, f, K
  <2> QED
      BY <2>1, <2>3, <2>4, FS_Surjection, FS_Subset
<1> QED
    BY <1>2, <1>3

(* The rows of the cycles up to one are the rows dated no later than its    *)
(* last day.                                                               *)
LEMMA AttachedUpTo ==
    ASSUME CycleInv, AllMade(cycles), NEW a \in Accounts, AttachedByDate(a), CyclesApart(a),
           NEW c \in CyclesOf(cycles, a)
    PROVE  UNION {AttachedTo(d) : d \in {e \in CyclesOf(cycles, a) : e.start <= c.start}}
              = UpTo(a, c.end)
<1>0. LedgerTypeOK /\ IsTable(txns) /\ cycles \in SUBSET Cycle
    BY TypeFacts DEF CycleInv
<1>1. /\ \A d, e \in CyclesOf(cycles, a) : d # e => d.end < e.start \/ e.end < d.start
      /\ \A d \in CyclesOf(cycles, a) :
            d.acct = a /\ d.start \in Int /\ d.end \in Int /\ d.start <= d.end
      /\ \A d \in CyclesOf(cycles, a) : d # NoCycle
    BY <1>0, CyclesAreDays, NoCycleAssumption DEF CyclesApart, CyclesOf
<1>2. ASSUME NEW t \in DOMAIN txns
      PROVE  /\ txns[t].cycle # NoCycle => txns[t].cycle \in CyclesOf(cycles, txns[t].acct)
             /\ txns[t].cycle # NoCycle /\ ~ txns[t].chosen =>
                   Within(txns[t].row.date, txns[t].cycle)
             /\ txns[t].row.date \in Int
    BY <1>0, MonthOfDate, RowDates DEF CycleInv, Sane, Placed, IsTable, Txn
<1>3. ASSUME NEW d \in CyclesOf(cycles, a), d.start <= c.start, NEW t \in AttachedTo(d)
      PROVE  t \in UpTo(a, c.end)
  <2>1. t \in DOMAIN txns /\ txns[t].cycle = d /\ d # NoCycle
      BY <1>1 DEF AttachedTo
  <2>2. d \in CyclesOf(cycles, txns[t].acct)
      BY <1>2, <2>1
  <2>3. txns[t].acct = a
      BY <2>2 DEF CyclesOf
  <2>4. t \in TxnsOf(txns, a)
      BY <2>1, <2>3 DEF TxnsOf
  <2>5. ~ txns[t].chosen
      BY <2>1, <2>4 DEF AttachedByDate
  <2>6. txns[t].row.date <= d.end /\ txns[t].row.date \in Int
      BY <1>2, <2>1, <2>5 DEF Within
  <2>7. d.end <= c.end
      BY <1>1, <1>3
  <2>8. d.end \in Int /\ c.end \in Int
      BY <1>1
  <2>9. txns[t].row.date <= c.end
      BY <2>6, <2>7, <2>8
  <2> QED
      BY <2>4, <2>9 DEF UpTo
<1>4. ASSUME NEW t \in UpTo(a, c.end)
      PROVE  \E d \in CyclesOf(cycles, a) : d.start <= c.start /\ t \in AttachedTo(d)
  <2>1. /\ t \in TxnsOf(txns, a) /\ t \in DOMAIN txns /\ txns[t].acct = a
        /\ txns[t].row.date <= c.end
      BY DEF UpTo, TxnsOf
  <2>2. txns[t].cycle # NoCycle /\ ~ txns[t].chosen
      BY <2>1 DEF AttachedByDate
  <2> DEFINE d == txns[t].cycle
             x == txns[t].row.date
  <2>3. d \in CyclesOf(cycles, a) /\ t \in AttachedTo(d)
      BY <1>2, <2>1, <2>2 DEF AttachedTo
  <2>4. d.start <= x /\ x <= c.end /\ x <= d.end /\ x \in Int
      BY <1>2, <2>1, <2>2 DEF Within
  <2> HIDE DEF d, x
  <2>5. d.start <= c.start
      BY <1>1, <2>3, <2>4
  <2> QED
      BY <2>3, <2>5
<1> QED
    BY <1>3, <1>4, Zenon

LEMMA TotalsAddUp ==
    ASSUME CycleInv, AllMade(cycles)
    PROVE  TotalsAreBalances
<1>0. LedgerTypeOK /\ IsTable(txns) /\ IsFiniteSet(DOMAIN txns)
    BY TypeFacts, TableIsFinite DEF CycleInv
<1> DEFINE f == [t \in DOMAIN txns |-> Debit(t)]
<1>1. ASSUME NEW S \in SUBSET DOMAIN txns
      PROVE  /\ IsFiniteSet(S) /\ \A t \in S : f[t] \in Int
             /\ Activity(S) = SumFunctionOnSet(f, S) /\ Activity(S) \in Int
  <2>1. \A t \in DOMAIN txns : Debit(t) \in Int
    <3>1. \A t \in DOMAIN txns : txns[t].row \in Rows
        BY <1>0 DEF IsTable, Txn
    <3>2. \A r \in Rows : r.amount \in Nat
        BY RowsAssumption
    <3> QED
        BY <3>1, <3>2 DEF Debit
  <2>2. IsFiniteSet(S)
      BY <1>0, FS_Subset
  <2> DEFINE h == [t \in S |-> Debit(t)]
  <2>3. \A t \in S : h[t] \in Int /\ f[t] = h[t]
      BY <2>1
  <2>4. Activity(S) = SumFunctionOnSet(h, S)
      BY DEF Activity
  <2> HIDE DEF f, h
  <2>5. SumFunctionOnSet(h, S) = SumFunctionOnSet(f, S) /\ SumFunctionOnSet(h, S) \in Int
      BY <2>2, <2>3, SumSame, SumUnfolds
  <2> QED
      BY <2>2, <2>3, <2>4, <2>5
<1> HIDE DEF f
<1>2. ASSUME NEW a \in Accounts, AttachedByDate(a), CyclesApart(a), NEW c \in CyclesOf(cycles, a)
      PROVE  RunningTotal(c) = -BalanceAsOf(a, c.end)
  <2> DEFINE D == {d \in CyclesOf(cycles, a) : d.start <= c.start}
             P == [d \in D |-> AttachedTo(d)]
             g == [d \in D |-> Activity(AttachedTo(d))]
  <2>1. c.acct = a
      BY DEF CyclesOf
  <2>2. RunningTotal(c) = SumFunctionOnSet(g, D)
      BY <2>1 DEF RunningTotal
  <2>3. IsFiniteSet(D)
      BY <1>0, CyclesAreDays, FS_Subset
  <2>4. \A d \in D : P[d] = AttachedTo(d) /\ P[d] \in SUBSET DOMAIN txns
      BY DEF AttachedTo
  <2>5. \A d, e \in D : d # e => P[d] \cap P[e] = {}
      BY DEF AttachedTo
  <2>6. UNION {P[d] : d \in D} = UpTo(a, c.end)
    <3>1. UNION {AttachedTo(d) : d \in D} = UpTo(a, c.end)
        BY <1>2, AttachedUpTo
    <3> QED
        BY <2>4, <3>1
  <2>7. \A d \in D : g[d] = Activity(P[d])
      BY <2>4
  <2>8. UpTo(a, c.end) \in SUBSET DOMAIN txns
      BY DEF UpTo, TxnsOf
  <2> HIDE DEF D, P, g
  <2>9. /\ \A d \in D : IsFiniteSet(P[d])
        /\ \A d \in D : \A t \in P[d] : f[t] \in Int
        /\ \A d \in D : g[d] = SumFunctionOnSet(f, P[d])
      BY <1>1, <2>4, <2>7
  <2>10. SumFunctionOnSet(g, D) = SumFunctionOnSet(f, UNION {P[d] : d \in D})
      BY <2>3, <2>5, <2>9, SumPartByPart
  <2>11. RunningTotal(c) = Activity(UpTo(a, c.end)) /\ Activity(UpTo(a, c.end)) \in Int
      BY <1>1, <2>2, <2>6, <2>8, <2>10
  <2> QED
      BY <2>11 DEF BalanceAsOf
<1> QED
    BY <1>2 DEF TotalsAreBalances, ListedCycles

(* Where every row is in the cycle of its date and in no other, the running *)
(* total through a cycle (listBillingCycles) is the balance on its last    *)
(* day (accountBalancesAsOf): no row is in a cycle that does not hold its  *)
(* date, so each row up to that day counts once.                           *)
THEOREM TotalsAgree == LedgerSpec => []TotalsAreBalances
<1> DEFINE Inv == CycleInv /\ AllMade(cycles)
<1>1. Init => Inv
    BY CycleInit DEF Init, AllMade
<1>2. Inv /\ [LedgerNext]_ledger => Inv'
    BY CycleStep, MadeStep DEF CycleInv
<1>3. Inv => TotalsAreBalances
    BY TotalsAddUp
<1> QED
    BY <1>1, <1>2, <1>3, PTL DEF LedgerSpec

-----------------------------------------------------------------------------
(* Sequences put together. *)

LEMMA RangeOf ==
    ASSUME NEW V, NEW s \in Seq(V)
    PROVE  /\ Len(s) \in Nat /\ DOMAIN s = 1..Len(s)
           /\ \A i \in 1..Len(s) : s[i] \in Range(s) /\ s[i] \in V
           /\ \A x \in Range(s) : \E i \in 1..Len(s) : s[i] = x
           /\ Range(s) \subseteq V
<1>1. Len(s) \in Nat /\ DOMAIN s = 1..Len(s) /\ \A i \in 1..Len(s) : s[i] \in V
    BY LenProperties, ElementOfSeq
<1> QED
    BY <1>1 DEF Range

(* No element of one is in the other.                                      *)
Apart(s, t) == Range(s) \cap Range(t) = {}

(* Every element of one may stand before every element of the other.       *)
Precedes(s, t, asc) == \A x \in Range(s), y \in Range(t) : Sooner(x, y, asc)

LEMMA ConcatIndex ==
    ASSUME NEW V, NEW s \in Seq(V), NEW t \in Seq(V)
    PROVE  /\ s \o t \in Seq(V)
           /\ DOMAIN (s \o t) = 1..(Len(s) + Len(t))
           /\ \A i \in 1..(Len(s) + Len(t)) :
                 \/ i \in 1..Len(s) /\ (s \o t)[i] = s[i]
                 \/ i - Len(s) \in 1..Len(t) /\ i > Len(s) /\ (s \o t)[i] = t[i - Len(s)]
           /\ \A i \in 1..Len(s) : i \in 1..(Len(s) + Len(t)) /\ (s \o t)[i] = s[i]
           /\ \A i \in 1..Len(t) : Len(s) + i \in 1..(Len(s) + Len(t)) /\ (s \o t)[Len(s) + i] = t[i]
<1>1. Len(s) \in Nat /\ Len(t) \in Nat
    BY LenProperties
<1>2. /\ s \o t \in Seq(V)
      /\ Len(s \o t) = Len(s) + Len(t)
      /\ \A i \in 1 .. Len(s) + Len(t) :
            (s \o t)[i] = IF i <= Len(s) THEN s[i] ELSE t[i - Len(s)]
    BY ConcatProperties
<1>3. DOMAIN (s \o t) = 1..(Len(s) + Len(t))
    BY <1>2, LenProperties
<1> DEFINE c == s \o t
<1>4. \A i \in 1..(Len(s) + Len(t)) : c[i] = IF i <= Len(s) THEN s[i] ELSE t[i - Len(s)]
    BY <1>2
<1>5. c \in Seq(V) /\ DOMAIN c = 1..(Len(s) + Len(t))
    BY <1>2, <1>3
<1> HIDE DEF c
<1>6. /\ \A i \in 1..(Len(s) + Len(t)) :
            \/ i \in 1..Len(s) /\ c[i] = s[i]
            \/ i - Len(s) \in 1..Len(t) /\ i > Len(s) /\ c[i] = t[i - Len(s)]
      /\ \A i \in 1..Len(s) : i \in 1..(Len(s) + Len(t)) /\ c[i] = s[i]
    BY <1>1, <1>4
<1>7. ASSUME NEW i \in 1..Len(t)
      PROVE  Len(s) + i \in 1..(Len(s) + Len(t)) /\ c[Len(s) + i] = t[i]
  <2>1. /\ Len(s) + i \in 1..(Len(s) + Len(t)) /\ ~ (Len(s) + i <= Len(s))
        /\ (Len(s) + i) - Len(s) = i
      BY <1>1
  <2> QED
      BY <1>4, <2>1
<1> QED
    BY <1>5, <1>6, <1>7 DEF c

LEMMA ConcatRange ==
    ASSUME NEW V, NEW s \in Seq(V), NEW t \in Seq(V)
    PROVE  Range(s \o t) = Range(s) \cup Range(t)
<1> DEFINE c == s \o t
<1>1. /\ DOMAIN c = 1..(Len(s) + Len(t)) /\ DOMAIN s = 1..Len(s) /\ DOMAIN t = 1..Len(t)
      /\ \A i \in 1..(Len(s) + Len(t)) :
            \/ i \in 1..Len(s) /\ c[i] = s[i]
            \/ i - Len(s) \in 1..Len(t) /\ c[i] = t[i - Len(s)]
      /\ \A i \in 1..Len(s) : i \in 1..(Len(s) + Len(t)) /\ c[i] = s[i]
      /\ \A i \in 1..Len(t) : Len(s) + i \in 1..(Len(s) + Len(t)) /\ c[Len(s) + i] = t[i]
    BY ConcatIndex, LenProperties
<1> HIDE DEF c
<1>2. ASSUME NEW x \in Range(c)
      PROVE  x \in Range(s) \cup Range(t)
  <2>1. PICK i \in 1..(Len(s) + Len(t)) : c[i] = x
      BY <1>1 DEF Range
  <2> QED
      BY <1>1, <2>1 DEF Range
<1>3. ASSUME NEW x \in Range(s)
      PROVE  x \in Range(c)
    BY <1>1 DEF Range
<1>4. ASSUME NEW x \in Range(t)
      PROVE  x \in Range(c)
    BY <1>1 DEF Range
<1> QED
    BY <1>2, <1>3, <1>4 DEF c

LEMMA ConcatInjective ==
    ASSUME NEW V, NEW s \in Seq(V), NEW t \in Seq(V),
           IsInjective(s), IsInjective(t), Apart(s, t)
    PROVE  IsInjective(s \o t)
<1> DEFINE c == s \o t
<1>1. /\ DOMAIN c = 1..(Len(s) + Len(t)) /\ DOMAIN s = 1..Len(s) /\ DOMAIN t = 1..Len(t)
      /\ \A i \in 1..(Len(s) + Len(t)) :
            \/ i \in 1..Len(s) /\ c[i] = s[i]
            \/ i - Len(s) \in 1..Len(t) /\ i > Len(s) /\ c[i] = t[i - Len(s)]
      /\ Len(s) \in Nat /\ Len(t) \in Nat
    BY ConcatIndex, LenProperties
<1>2. /\ \A i \in 1..Len(s) : s[i] \in Range(s)
      /\ \A i \in 1..Len(t) : t[i] \in Range(t)
    BY RangeOf
<1> HIDE DEF c
<1>3. ASSUME NEW i \in 1..(Len(s) + Len(t)), NEW j \in 1..(Len(s) + Len(t)), c[i] = c[j]
      PROVE  i = j
  <2>1. CASE i \in 1..Len(s) /\ c[i] = s[i] /\ j \in 1..Len(s) /\ c[j] = s[j]
      BY <1>1, <1>3, <2>1 DEF IsInjective
  <2>2. CASE /\ i - Len(s) \in 1..Len(t) /\ c[i] = t[i - Len(s)]
             /\ j - Len(s) \in 1..Len(t) /\ c[j] = t[j - Len(s)]
    <3>1. i - Len(s) = j - Len(s)
        BY <1>1, <1>3, <2>2 DEF IsInjective
    <3> QED
        BY <1>1, <3>1
  <2>3. CASE /\ i \in 1..Len(s) /\ c[i] = s[i]
             /\ j - Len(s) \in 1..Len(t) /\ c[j] = t[j - Len(s)]
    <3>1. c[i] \in Range(s) /\ c[i] \in Range(t)
        BY <1>2, <1>3, <2>3
    <3> QED
        BY <3>1 DEF Apart
  <2>4. CASE /\ j \in 1..Len(s) /\ c[j] = s[j]
             /\ i - Len(s) \in 1..Len(t) /\ c[i] = t[i - Len(s)]
    <3>1. c[i] \in Range(s) /\ c[i] \in Range(t)
        BY <1>2, <1>3, <2>4
    <3> QED
        BY <3>1 DEF Apart
  <2> QED
      BY <1>1, <2>1, <2>2, <2>3, <2>4
<1>4. IsInjective(c)
    BY <1>1, <1>3 DEF IsInjective
<1> QED
    BY <1>4 DEF c

LEMMA ConcatInOrder ==
    ASSUME NEW V, NEW s \in Seq(V), NEW t \in Seq(V), NEW asc,
           InOrder(s, asc), InOrder(t, asc), Precedes(s, t, asc)
    PROVE  InOrder(s \o t, asc)
<1> DEFINE c == s \o t
<1>1. /\ DOMAIN c = 1..(Len(s) + Len(t)) /\ DOMAIN s = 1..Len(s) /\ DOMAIN t = 1..Len(t)
      /\ \A i \in 1..(Len(s) + Len(t)) :
            \/ i \in 1..Len(s) /\ c[i] = s[i]
            \/ i - Len(s) \in 1..Len(t) /\ i > Len(s) /\ c[i] = t[i - Len(s)]
      /\ Len(s) \in Nat /\ Len(t) \in Nat
    BY ConcatIndex, LenProperties
<1>2. /\ \A i \in 1..Len(s) : s[i] \in Range(s)
      /\ \A i \in 1..Len(t) : t[i] \in Range(t)
    BY RangeOf
<1> HIDE DEF c
<1>3. ASSUME NEW i \in 1..(Len(s) + Len(t)), NEW j \in 1..(Len(s) + Len(t)), i < j
      PROVE  Sooner(c[i], c[j], asc)
  <2>1. CASE i \in 1..Len(s) /\ c[i] = s[i] /\ j \in 1..Len(s) /\ c[j] = s[j]
      BY <1>1, <1>3, <2>1 DEF InOrder
  <2>2. CASE /\ i - Len(s) \in 1..Len(t) /\ c[i] = t[i - Len(s)]
             /\ j - Len(s) \in 1..Len(t) /\ c[j] = t[j - Len(s)]
    <3>1. i - Len(s) < j - Len(s)
        BY <1>1, <1>3
    <3> QED
        BY <1>1, <2>2, <3>1 DEF InOrder
  <2>3. CASE /\ i \in 1..Len(s) /\ c[i] = s[i]
             /\ j - Len(s) \in 1..Len(t) /\ c[j] = t[j - Len(s)]
      BY <1>2, <2>3 DEF Precedes
  <2>4. ~ (j \in 1..Len(s) /\ i > Len(s))
      BY <1>1, <1>3
  <2> QED
      BY <1>1, <2>1, <2>2, <2>3, <2>4
<1>4. InOrder(c, asc)
    BY <1>1, <1>3 DEF InOrder
<1> QED
    BY <1>4 DEF c

(* What FlattenSeq computes, step by step.                                 *)
Joins(parts, f) ==
    \A i \in 1..Len(parts) : f[i] = IF i = 1 THEN parts[i] ELSE f[i - 1] \o parts[i]

LEMMA JoinExists ==
    ASSUME NEW V, NEW parts \in Seq(Seq(V))
    PROVE  \E f \in [1..Len(parts) -> Seq(V)] : Joins(parts, f)
<1> DEFINE N == Len(parts)
           Upto(f, n) == \A i \in 1..n : f[i] = IF i = 1 THEN parts[i] ELSE f[i - 1] \o parts[i]
           K == {n \in 0..N : \E f \in [1..n -> Seq(V)] : Upto(f, n)}
<1>1. N \in Nat /\ \A i \in 1..N : parts[i] \in Seq(V)
    BY LenProperties, ElementOfSeq
<1> HIDE DEF N
<1>2. 0 \in K
  <2> DEFINE f == [i \in 1..0 |-> << >>]
  <2>1. f \in [1..0 -> Seq(V)] /\ Upto(f, 0)
      OBVIOUS
  <2>2. 0 \in 0..N
      BY <1>1
  <2> HIDE DEF f, Upto
  <2> QED
      BY <2>1, <2>2
<1>3. ASSUME NEW n \in 0..(N - 1), n \in K
      PROVE  n + 1 \in K
  <2>1. PICK f \in [1..n -> Seq(V)] : Upto(f, n)
      BY <1>3
  <2>2. n \in Nat /\ n + 1 \in 0..N /\ n + 1 \in 1..N
      BY <1>1
  <2> DEFINE last == IF n = 0 THEN parts[1] ELSE f[n] \o parts[n + 1]
             g == [i \in 1..(n + 1) |-> IF i = n + 1 THEN last ELSE f[i]]
  <2>3. last \in Seq(V)
    <3>1. n # 0 => n \in 1..n
        BY <2>2
    <3>2. n # 0 => f[n] \in Seq(V)
        BY <3>1
    <3>3. parts[n + 1] \in Seq(V)
        BY <1>1, <2>2
    <3>4. n # 0 => f[n] \o parts[n + 1] \in Seq(V)
        BY <3>2, <3>3, ConcatProperties
    <3>5. n = 0 => parts[1] \in Seq(V)
        BY <3>3
    <3> QED
        BY <3>4, <3>5
  <2>4. \A i \in 1..(n + 1) : i = n + 1 \/ i \in 1..n
      BY <2>2
  <2>5. g \in [1..(n + 1) -> Seq(V)]
      BY <2>3, <2>4
  <2>6. ASSUME NEW i \in 1..(n + 1)
        PROVE  g[i] = IF i = 1 THEN parts[i] ELSE g[i - 1] \o parts[i]
    <3>1. CASE i = n + 1
      <4>1. g[i] = last
          BY <3>1
      <4>2. CASE n = 0
          BY <3>1, <4>1, <4>2
      <4>3. CASE n # 0
        <5>1. i # 1 /\ i - 1 = n /\ n \in 1..(n + 1) /\ n # n + 1
            BY <2>2, <3>1, <4>3
        <5>2. g[i - 1] = f[n]
            BY <5>1
        <5>3. last = f[n] \o parts[i]
            BY <3>1, <4>3
        <5> QED
            BY <4>1, <5>1, <5>2, <5>3
      <4> QED
          BY <4>2, <4>3
    <3>2. CASE i # n + 1
      <4>1. i \in 1..n /\ g[i] = f[i]
          BY <2>4, <3>2
      <4>2. f[i] = IF i = 1 THEN parts[i] ELSE f[i - 1] \o parts[i]
          BY <2>1, <4>1
      <4>3. i # 1 => i - 1 \in 1..(n + 1) /\ i - 1 # n + 1
          BY <2>2, <4>1
      <4>4. i # 1 => g[i - 1] = f[i - 1]
          BY <4>3
      <4> QED
          BY <4>1, <4>2, <4>4
    <3> QED
        BY <3>1, <3>2
  <2> HIDE DEF g, last
  <2>7. Upto(g, n + 1)
      BY <2>6
  <2> HIDE DEF Upto
  <2> QED
      BY <2>2, <2>5, <2>7
<1> HIDE DEF K
<1>4. N \in K
  <2>1. N \in 0..N
      BY <1>1
  <2> QED
      BY <1>1, <1>2, <1>3, <2>1, Induct
<1> QED
    BY <1>4 DEF K, N, Joins

LEMMA FlattenIsJoin ==
    ASSUME NEW V, NEW parts \in Seq(Seq(V))
    PROVE  \E f : /\ Joins(parts, f)
                  /\ FlattenSeq(parts) = IF Len(parts) = 0 THEN << >> ELSE f[Len(parts)]
<1> DEFINE N == Len(parts)
           IsIt(f) == f = [i \in 1..N |-> IF i = 1 THEN parts[i] ELSE f[i - 1] \o parts[i]]
           it == CHOOSE f : IsIt(f)
<1>1. PICK f \in [1..N -> Seq(V)] : Joins(parts, f)
    BY JoinExists
<1>2. IsIt(f)
    BY <1>1 DEF Joins
<1>3. IsIt(it)
    BY <1>2
<1>4. FlattenSeq(parts) = IF N = 0 THEN parts ELSE it[N]
    BY DEF FlattenSeq
<1> HIDE DEF it
<1>5. Joins(parts, it)
    BY <1>3 DEF Joins
<1>6. N = 0 => parts = << >>
    BY EmptySeq
<1> QED
    BY <1>4, <1>5, <1>6

(* A step of Joins.                                                        *)
LEMMA JoinStep ==
    ASSUME NEW parts, Len(parts) \in Nat, NEW f, Joins(parts, f), NEW n \in 0..(Len(parts) - 1)
    PROVE  /\ n + 1 \in 1..Len(parts) /\ n + 1 \in 0..Len(parts)
           /\ f[n + 1] = IF n = 0 THEN parts[1] ELSE f[n] \o parts[n + 1]
           /\ \A k : k \in 1..(n + 1) <=> k \in 1..n \/ k = n + 1
           /\ n = 0 => \A k : k \in 1..(n + 1) <=> k = 1
           /\ \A k \in 1..n : k < n + 1 /\ k \in 1..Len(parts)
<1>1. n + 1 \in 1..Len(parts) /\ n + 1 \in 0..Len(parts) /\ n \in Nat /\ (n + 1) - 1 = n
    OBVIOUS
<1>2. f[n + 1] = IF n + 1 = 1 THEN parts[n + 1] ELSE f[(n + 1) - 1] \o parts[n + 1]
    BY <1>1 DEF Joins
<1>3. CASE n = 0
    BY <1>1, <1>2, <1>3
<1>4. CASE n # 0
  <2>1. f[n + 1] = f[n] \o parts[n + 1]
    <3>1. n + 1 # 1
        BY <1>1, <1>4
    <3> QED
        BY <1>1, <1>2, <3>1
  <2>2. /\ \A k : k \in 1..(n + 1) <=> k \in 1..n \/ k = n + 1
        /\ \A k \in 1..n : k < n + 1 /\ k \in 1..Len(parts)
      BY <1>1
  <2> QED
      BY <1>1, <1>4, <2>1, <2>2
<1> QED
    BY <1>3, <1>4

LEMMA JoinRange ==
    ASSUME NEW V, NEW parts \in Seq(Seq(V)), NEW f, Joins(parts, f)
    PROVE  \A n \in 1..Len(parts) :
              /\ f[n] \in Seq(V)
              /\ \A x : x \in Range(f[n]) <=> \E k \in 1..n : x \in Range(parts[k])
<1> DEFINE N == Len(parts)
           Good(n) == /\ f[n] \in Seq(V)
                      /\ \A x : x \in Range(f[n]) <=> \E k \in 1..n : x \in Range(parts[k])
           K == {n \in 0..N : n # 0 => Good(n)}
<1>1. N \in Nat /\ \A i \in 1..N : parts[i] \in Seq(V)
    BY LenProperties, ElementOfSeq
<1>2. 0 \in K
  <2>1. 0 \in 0..N
      BY <1>1
  <2> QED
      BY <2>1
<1>3. ASSUME NEW n \in 0..(N - 1), n \in K
      PROVE  n + 1 \in K
  <2>1. /\ n + 1 \in 1..N /\ n + 1 \in 0..N
        /\ f[n + 1] = IF n = 0 THEN parts[1] ELSE f[n] \o parts[n + 1]
        /\ \A k : k \in 1..(n + 1) <=> k \in 1..n \/ k = n + 1
        /\ n = 0 => \A k : k \in 1..(n + 1) <=> k = 1
      BY <1>1, JoinStep
  <2>2. CASE n = 0
    <3>1. 1 \in 1..N /\ n + 1 = 1
        BY <2>1, <2>2
    <3>2. f[n + 1] = parts[1] /\ parts[1] \in Seq(V)
        BY <1>1, <2>1, <2>2, <3>1
    <3>3. Good(n + 1)
        BY <2>1, <2>2, <3>2
    <3> HIDE DEF Good
    <3> QED
        BY <2>1, <3>3
  <2>3. CASE n # 0
    <3>1. f[n] \in Seq(V) /\ parts[n + 1] \in Seq(V) /\ f[n + 1] = f[n] \o parts[n + 1]
        BY <1>1, <1>3, <2>1, <2>3
    <3>2. \A x : x \in Range(f[n]) <=> \E k \in 1..n : x \in Range(parts[k])
        BY <1>3, <2>3
    <3>3. f[n + 1] \in Seq(V) /\ Range(f[n + 1]) = Range(f[n]) \cup Range(parts[n + 1])
        BY <3>1, ConcatRange, ConcatProperties
    <3>4. Good(n + 1)
        BY <2>1, <3>2, <3>3
    <3> HIDE DEF Good
    <3> QED
        BY <2>1, <3>4
  <2> QED
      BY <2>2, <2>3
<1> HIDE DEF K, N
<1>4. \A n \in 0..N : n \in K
    BY <1>1, <1>2, <1>3, Induct
<1>5. ASSUME NEW n \in 1..N
      PROVE  Good(n)
  <2>1. n \in 0..N /\ n # 0
      BY <1>1
  <2> QED
      BY <1>4, <2>1 DEF K
<1> QED
    BY <1>5 DEF N

LEMMA EmptyFacts ==
    ASSUME NEW V, NEW asc
    PROVE  /\ << >> \in Seq(V) /\ Range(<< >>) = {} /\ IsInjective(<< >>)
           /\ InOrder(<< >>, asc)
<1>1. << >> \in Seq(V) /\ Len(<< >>) = 0
    BY EmptySeq
<1>2. DOMAIN << >> = {}
    OBVIOUS
<1> QED
    BY <1>1, <1>2 DEF Range, IsInjective, InOrder

LEMMA FlattenRange ==
    ASSUME NEW V, NEW parts \in Seq(Seq(V))
    PROVE  /\ FlattenSeq(parts) \in Seq(V)
           /\ \A x : x \in Range(FlattenSeq(parts)) <=>
                        \E k \in 1..Len(parts) : x \in Range(parts[k])
<1>1. PICK f : /\ Joins(parts, f)
               /\ FlattenSeq(parts) = IF Len(parts) = 0 THEN << >> ELSE f[Len(parts)]
    BY FlattenIsJoin
<1>2. Len(parts) \in Nat
    BY LenProperties
<1>3. CASE Len(parts) = 0
  <2>1. FlattenSeq(parts) = << >> /\ \A k : k \notin 1..Len(parts)
      BY <1>1, <1>3
  <2> QED
      BY <2>1, EmptyFacts
<1>4. CASE Len(parts) # 0
  <2>1. Len(parts) \in 1..Len(parts)
      BY <1>2, <1>4
  <2>2. FlattenSeq(parts) = f[Len(parts)]
      BY <1>1, <1>4
  <2>3. /\ f[Len(parts)] \in Seq(V)
        /\ \A x : x \in Range(f[Len(parts)]) <=>
                     \E k \in 1..Len(parts) : x \in Range(parts[k])
      BY <1>1, <2>1, JoinRange
  <2> QED
      BY <2>2, <2>3
<1> QED
    BY <1>3, <1>4

LEMMA FlattenInjective ==
    ASSUME NEW V, NEW parts \in Seq(Seq(V)),
           \A k \in 1..Len(parts) : IsInjective(parts[k]),
           \A k, l \in 1..Len(parts) : k < l => Apart(parts[k], parts[l])
    PROVE  IsInjective(FlattenSeq(parts))
<1> DEFINE N == Len(parts)
<1>1. PICK f : /\ Joins(parts, f)
               /\ FlattenSeq(parts) = IF Len(parts) = 0 THEN << >> ELSE f[Len(parts)]
    BY FlattenIsJoin
<1>2. N \in Nat /\ \A i \in 1..N : parts[i] \in Seq(V)
    BY LenProperties, ElementOfSeq
<1> DEFINE K == {n \in 0..N : n # 0 => IsInjective(f[n])}
<1>3. 0 \in K
  <2>1. 0 \in 0..N
      BY <1>2
  <2> QED
      BY <2>1
<1>4. ASSUME NEW n \in 0..(N - 1), n \in K
      PROVE  n + 1 \in K
  <2>1. /\ n + 1 \in 1..N /\ n + 1 \in 0..N
        /\ f[n + 1] = IF n = 0 THEN parts[1] ELSE f[n] \o parts[n + 1]
        /\ \A k \in 1..n : k < n + 1 /\ k \in 1..N
      BY <1>1, <1>2, JoinStep
  <2>2. CASE n = 0
    <3>1. f[n + 1] = parts[n + 1]
        BY <2>1, <2>2
    <3> QED
        BY <2>1, <3>1
  <2>3. CASE n # 0
    <3>1. n \in 1..N
        BY <1>2, <2>3
    <3>2. /\ f[n] \in Seq(V) /\ parts[n + 1] \in Seq(V)
          /\ \A x : x \in Range(f[n]) <=> \E k \in 1..n : x \in Range(parts[k])
      <4>1. \A i \in 1..N : /\ f[i] \in Seq(V)
                            /\ \A x : x \in Range(f[i]) <=> \E k \in 1..i : x \in Range(parts[k])
        <5> HIDE DEF K
        <5> QED
            BY <1>1, JoinRange
      <4> QED
          BY <1>2, <2>1, <3>1, <4>1
    <3>3. Apart(f[n], parts[n + 1])
      <4>1. \A k \in 1..n : Range(parts[k]) \cap Range(parts[n + 1]) = {}
          BY <2>1 DEF Apart
      <4> QED
          BY <3>2, <4>1 DEF Apart
    <3>4. IsInjective(f[n]) /\ IsInjective(parts[n + 1])
        BY <1>4, <2>1, <2>3
    <3>5. IsInjective(f[n] \o parts[n + 1])
        BY <3>2, <3>3, <3>4, ConcatInjective
    <3> QED
        BY <2>1, <2>3, <3>5
  <2> QED
      BY <2>2, <2>3
<1> HIDE DEF K, N
<1>5. \A n \in 0..N : n \in K
    BY <1>2, <1>3, <1>4, Induct
<1>6. CASE N = 0
    BY <1>1, <1>6, EmptyFacts DEF N
<1>7. CASE N # 0
  <2>1. N \in 0..N
      BY <1>2
  <2>2. IsInjective(f[N])
      BY <1>5, <1>7, <2>1 DEF K
  <2> QED
      BY <1>1, <1>7, <2>2 DEF N
<1> QED
    BY <1>6, <1>7

LEMMA FlattenInOrder ==
    ASSUME NEW V, NEW parts \in Seq(Seq(V)), NEW asc,
           \A k \in 1..Len(parts) : InOrder(parts[k], asc),
           \A k, l \in 1..Len(parts) : k < l => Precedes(parts[k], parts[l], asc)
    PROVE  InOrder(FlattenSeq(parts), asc)
<1> DEFINE N == Len(parts)
<1>1. PICK f : /\ Joins(parts, f)
               /\ FlattenSeq(parts) = IF Len(parts) = 0 THEN << >> ELSE f[Len(parts)]
    BY FlattenIsJoin
<1>2. N \in Nat /\ \A i \in 1..N : parts[i] \in Seq(V)
    BY LenProperties, ElementOfSeq
<1> DEFINE K == {n \in 0..N : n # 0 => InOrder(f[n], asc)}
<1>3. 0 \in K
  <2>1. 0 \in 0..N
      BY <1>2
  <2> QED
      BY <2>1
<1>4. ASSUME NEW n \in 0..(N - 1), n \in K
      PROVE  n + 1 \in K
  <2>1. /\ n + 1 \in 1..N /\ n + 1 \in 0..N
        /\ f[n + 1] = IF n = 0 THEN parts[1] ELSE f[n] \o parts[n + 1]
        /\ \A k \in 1..n : k < n + 1 /\ k \in 1..N
      BY <1>1, <1>2, JoinStep
  <2>2. CASE n = 0
    <3>1. f[n + 1] = parts[n + 1]
        BY <2>1, <2>2
    <3> QED
        BY <2>1, <3>1
  <2>3. CASE n # 0
    <3>1. n \in 1..N
        BY <1>2, <2>3
    <3>2. /\ f[n] \in Seq(V) /\ parts[n + 1] \in Seq(V)
          /\ \A x : x \in Range(f[n]) <=> \E k \in 1..n : x \in Range(parts[k])
      <4>1. \A i \in 1..N : /\ f[i] \in Seq(V)
                            /\ \A x : x \in Range(f[i]) <=> \E k \in 1..i : x \in Range(parts[k])
        <5> HIDE DEF K
        <5> QED
            BY <1>1, JoinRange
      <4> QED
          BY <1>2, <2>1, <3>1, <4>1
    <3>3. Precedes(f[n], parts[n + 1], asc)
      <4>1. \A k \in 1..n : Precedes(parts[k], parts[n + 1], asc)
          BY <2>1
      <4> QED
          BY <3>2, <4>1 DEF Precedes
    <3>4. InOrder(f[n], asc) /\ InOrder(parts[n + 1], asc)
        BY <1>4, <2>1, <2>3
    <3>5. InOrder(f[n] \o parts[n + 1], asc)
        BY <3>2, <3>3, <3>4, ConcatInOrder
    <3> QED
        BY <2>1, <2>3, <3>5
  <2> QED
      BY <2>2, <2>3
<1> HIDE DEF K, N
<1>5. \A n \in 0..N : n \in K
    BY <1>2, <1>3, <1>4, Induct
<1>6. CASE N = 0
    BY <1>1, <1>6, EmptyFacts DEF N
<1>7. CASE N # 0
  <2>1. N \in 0..N
      BY <1>2
  <2>2. InOrder(f[N], asc)
      BY <1>5, <1>7, <2>1 DEF K
  <2> QED
      BY <1>1, <1>7, <2>2 DEF N
<1> QED
    BY <1>6, <1>7

LEMMA SingleFacts ==
    ASSUME NEW V, NEW x \in V, NEW asc
    PROVE  /\ <<x>> \in Seq(V) /\ Range(<<x>>) = {x} /\ IsInjective(<<x>>)
           /\ InOrder(<<x>>, asc)
<1>1. <<x>> \in Seq(V) /\ DOMAIN <<x>> = {1} /\ <<x>>[1] = x
    OBVIOUS
<1> HIDE DEF Sooner
<1> DEFINE s == <<x>>
<1>2. DOMAIN s = {1} /\ s[1] = x
    BY <1>1
<1> HIDE DEF s
<1>3. Range(s) = {x} /\ IsInjective(s) /\ InOrder(s, asc)
    BY <1>2 DEF Range, IsInjective, InOrder
<1> QED
    BY <1>1, <1>3 DEF s

(* A page of T is what the page and T share, in the order of the page.     *)
LEMMA OfFacts ==
    ASSUME NEW V, NEW page \in Seq(V), NEW T
    PROVE  /\ Of(page, T) \in Seq(V)
           /\ Range(Of(page, T)) = Range(page) \cap T
           /\ IsInjective(page) => IsInjective(Of(page, T))
           /\ \A asc : InOrder(page, asc) => InOrder(Of(page, T), asc)
<1> DEFINE N == Len(page)
           parts == [i \in 1..N |-> IF page[i] \in T THEN <<page[i]>> ELSE << >>]
<1>1. /\ N \in Nat /\ DOMAIN page = 1..N
      /\ \A i \in 1..N : page[i] \in V /\ page[i] \in Range(page)
      /\ \A x \in Range(page) : \E i \in 1..N : page[i] = x
    BY RangeOf
<1>2. Of(page, T) = FlattenSeq(parts)
    BY <1>1 DEF Of
<1>3. \A i \in 1..N : parts[i] \in Seq(V)
    BY <1>1, SingleFacts, EmptyFacts
<1>4. parts \in Seq(Seq(V)) /\ Len(parts) = N
    BY <1>1, <1>3
<1>5. ASSUME NEW i \in 1..N
      PROVE  /\ \A x : x \in Range(parts[i]) <=> x = page[i] /\ x \in T
             /\ IsInjective(parts[i])
             /\ \A asc : InOrder(parts[i], asc)
  <2>1. CASE page[i] \in T
    <3>1. parts[i] = <<page[i]>> /\ page[i] \in V
        BY <1>1, <2>1
    <3>2. /\ Range(<<page[i]>>) = {page[i]} /\ IsInjective(<<page[i]>>)
          /\ \A asc : InOrder(<<page[i]>>, asc)
        BY <3>1, SingleFacts
    <3> HIDE DEF parts
    <3> QED
        BY <2>1, <3>1, <3>2
  <2>2. CASE page[i] \notin T
    <3>1. parts[i] = << >>
        BY <2>2
    <3> HIDE DEF parts
    <3> QED
        BY <2>2, <3>1, EmptyFacts
  <2> QED
      BY <2>1, <2>2
<1> HIDE DEF parts, N
<1>6. /\ FlattenSeq(parts) \in Seq(V)
      /\ \A x : x \in Range(FlattenSeq(parts)) <=> \E k \in 1..N : x \in Range(parts[k])
    BY <1>4, FlattenRange
<1>7. Range(FlattenSeq(parts)) = Range(page) \cap T
  <2>1. ASSUME NEW x \in Range(FlattenSeq(parts))
        PROVE  x \in Range(page) /\ x \in T
    <3>1. PICK i \in 1..N : x \in Range(parts[i])
        BY <1>6
    <3> QED
        BY <1>1, <1>5, <3>1
  <2>2. ASSUME NEW x \in Range(page), x \in T
        PROVE  x \in Range(FlattenSeq(parts))
    <3>1. PICK i \in 1..N : page[i] = x
        BY <1>1
    <3> QED
        BY <1>5, <1>6, <2>2, <3>1
  <2> QED
      BY <2>1, <2>2
<1>8. ASSUME IsInjective(page)
      PROVE  IsInjective(FlattenSeq(parts))
  <2>1. \A k, l \in 1..N : k < l => page[k] # page[l]
      BY <1>1, <1>8 DEF IsInjective
  <2>2. \A k, l \in 1..N : k < l => Apart(parts[k], parts[l])
      BY <1>5, <2>1 DEF Apart
  <2> QED
      BY <1>4, <1>5, <2>2, FlattenInjective
<1>9. ASSUME NEW asc, InOrder(page, asc)
      PROVE  InOrder(FlattenSeq(parts), asc)
  <2>1. \A k, l \in 1..N : k < l => Sooner(page[k], page[l], asc)
      BY <1>1, <1>9 DEF InOrder
  <2>2. \A k, l \in 1..N : k < l => Precedes(parts[k], parts[l], asc)
      BY <1>5, <2>1 DEF Precedes
  <2> QED
      BY <1>4, <1>5, <2>2, FlattenInOrder
<1> QED
    BY <1>2, <1>6, <1>7, <1>8, <1>9

-----------------------------------------------------------------------------
(* Sorting by date. *)

OnDays(S) == \A x \in S : x.date \in Int

LEMMA LastByDate ==
    ASSUME NEW A, IsFiniteSet(A), A # {}, OnDays(A), NEW asc
    PROVE  \E m \in A : \A x \in A : Sooner(x, m, asc)
<1> DEFINE key == [x \in A |-> IF asc THEN -x.date ELSE x.date]
           M == {key[x] : x \in A}
<1>1. \A x \in A : x.date \in Int /\ key[x] \in Int
    BY DEF OnDays
<1>2. \A x, y \in A : key[y] <= key[x] => Sooner(x, y, asc)
  <2>1. CASE asc
      BY <1>1, <2>1 DEF Sooner
  <2>2. CASE ~ asc
      BY <1>1, <2>2 DEF Sooner
  <2> QED
      BY <2>1, <2>2
<1>3. key \in Surjection(A, M)
    BY DEF Surjection
<1> HIDE DEF key
<1>4. M \subseteq Int /\ M # {}
    BY <1>1
<1>5. IsFiniteSet(M)
    BY <1>3, FS_Surjection
<1> HIDE DEF M
<1>6. PICK i \in M : \A j \in M : i <= j
    BY <1>4, <1>5, LeastInteger
<1> USE DEF M
<1>7. PICK m \in A : key[m] = i
    BY <1>6
<1>8. \A x \in A : key[m] <= key[x]
    BY <1>6, <1>7
<1> QED
    BY <1>2, <1>8

LEMMA SortingExtended ==
    ASSUME NEW A, IsFiniteSet(A), NEW m \in A, NEW asc,
           \A x \in A : Sooner(x, m, asc),
           NEW s \in Sortings(A \ {m}, asc)
    PROVE  \E r : r \in Sortings(A, asc)
<1> DEFINE n == Cardinality(A)
           r == [i \in 1..n |-> IF i = n THEN m ELSE s[i]]
<1>1. n \in Nat /\ n # 0 /\ Cardinality(A \ {m}) = n - 1
    BY FS_CardinalityType, FS_RemoveElement, FS_EmptySet
<1>2. s \in [1..(n - 1) -> A \ {m}] /\ IsInjective(s) /\ InOrder(s, asc)
    BY <1>1 DEF Sortings
<1> HIDE DEF n
<1>3. \A i \in 1..n : i = n \/ (i # n /\ i \in 1..(n - 1))
    BY <1>1
<1>4. \A i \in 1..n : i # n => r[i] = s[i] /\ s[i] \in A /\ s[i] # m
    BY <1>2, <1>3
<1>5. \A i \in 1..n : i = n => r[i] = m
    OBVIOUS
<1>6. DOMAIN r = 1..n /\ r \in [1..n -> A]
    BY <1>4
<1> HIDE DEF r
<1>7. IsInjective(r)
  <2>1. ASSUME NEW i \in 1..n, NEW j \in 1..n, r[i] = r[j]
        PROVE  i = j
    <3>1. CASE i = n /\ j = n
        BY <3>1
    <3>2. CASE i = n /\ j # n
        BY <1>4, <1>5, <2>1, <3>2
    <3>3. CASE i # n /\ j = n
        BY <1>4, <1>5, <2>1, <3>3
    <3>4. CASE i # n /\ j # n
      <4>1. s[i] = s[j] /\ i \in 1..(n - 1) /\ j \in 1..(n - 1)
          BY <1>3, <1>4, <2>1, <3>4
      <4>2. DOMAIN s = 1..(n - 1)
          BY <1>2
      <4> QED
          BY <1>2, <4>1, <4>2 DEF IsInjective
    <3> QED
        BY <3>1, <3>2, <3>3, <3>4
  <2> QED
      BY <1>6, <2>1 DEF IsInjective
<1>8. InOrder(r, asc)
  <2>1. ASSUME NEW i \in 1..n, NEW j \in 1..n, i < j
        PROVE  Sooner(r[i], r[j], asc)
    <3>1. i # n /\ i \in 1..(n - 1)
        BY <1>1, <1>3, <2>1
    <3>2. CASE j = n
        BY <1>4, <1>5, <3>1, <3>2
    <3>3. CASE j # n
      <4>1. /\ r[i] = s[i] /\ r[j] = s[j] /\ i \in 1..(n - 1) /\ j \in 1..(n - 1)
            /\ DOMAIN s = 1..(n - 1)
          BY <1>2, <1>3, <1>4, <3>1, <3>3
      <4> QED
          BY <1>2, <2>1, <4>1 DEF InOrder
    <3> QED
        BY <3>2, <3>3
  <2> QED
      BY <1>6, <2>1 DEF InOrder
<1> QED
    BY <1>6, <1>7, <1>8 DEF Sortings, n

LEMMA SortingExists ==
    ASSUME NEW S, IsFiniteSet(S), OnDays(S), NEW asc
    PROVE  ByDate(S, asc) \in Sortings(S, asc)
<1> DEFINE N == Cardinality(S)
           K == {n \in 0..N : \A A \in SUBSET S : Cardinality(A) = n =>
                                 \E s : s \in Sortings(A, asc)}
<1>1. N \in Nat /\ \A A \in SUBSET S : IsFiniteSet(A)
    BY FS_CardinalityType, FS_Subset
<1> HIDE DEF N
<1>2. 0 \in K
  <2>1. ASSUME NEW A \in SUBSET S, Cardinality(A) = 0
        PROVE  << >> \in Sortings(A, asc)
    <3>1. << >> \in [1..0 -> A] /\ DOMAIN << >> = {}
        OBVIOUS
    <3> QED
        BY <2>1, <3>1 DEF Sortings, IsInjective, InOrder
  <2>2. 0 \in 0..N
      BY <1>1
  <2> QED
      BY <2>1, <2>2
<1>3. ASSUME NEW n \in 0..(N - 1), n \in K
      PROVE  n + 1 \in K
  <2>1. n \in Nat /\ n + 1 \in 0..N
      BY <1>1
  <2>2. ASSUME NEW A \in SUBSET S, Cardinality(A) = n + 1
        PROVE  \E s : s \in Sortings(A, asc)
    <3>1. IsFiniteSet(A) /\ A # {} /\ OnDays(A)
        BY <1>1, <2>1, <2>2, FS_EmptySet DEF OnDays
    <3>2. PICK m \in A : \A x \in A : Sooner(x, m, asc)
        BY <3>1, LastByDate
    <3>3. Cardinality(A \ {m}) = n /\ A \ {m} \in SUBSET S
        BY <2>1, <2>2, <3>1, FS_RemoveElement
    <3>4. PICK s : s \in Sortings(A \ {m}, asc)
        BY <1>3, <3>3
    <3> QED
        BY <3>1, <3>2, <3>4, SortingExtended
  <2> QED
      BY <2>1, <2>2
<1> HIDE DEF K
<1>4. N \in K
  <2>1. N \in 0..N
      BY <1>1
  <2> QED
      BY <1>1, <1>2, <1>3, <2>1, Induct
<1>5. \E s : s \in Sortings(S, asc)
    BY <1>4 DEF K, N
<1> QED
    BY <1>5 DEF ByDate

LEMMA SortingFacts ==
    ASSUME NEW V, NEW S \in SUBSET V, IsFiniteSet(S), NEW asc, NEW s \in Sortings(S, asc)
    PROVE  /\ s \in Seq(V) /\ Len(s) = Cardinality(S) /\ Cardinality(S) \in Nat
           /\ Range(s) = S /\ IsInjective(s) /\ InOrder(s, asc)
<1> DEFINE n == Cardinality(S)
<1>1. n \in Nat
    BY FS_CardinalityType
<1>2. s \in [1..n -> S] /\ IsInjective(s) /\ InOrder(s, asc)
    BY DEF Sortings
<1>3. IsFiniteSet(1..n) /\ Cardinality(1..n) = n
    BY <1>1, FS_Interval
<1>4. s \in Injection(1..n, S)
    BY <1>2 DEF Injection
<1>5. s \in Surjection(1..n, S)
    BY <1>3, <1>4, FS_Injection
<1> HIDE DEF n
<1>6. \A x \in S : \E i \in 1..n : s[i] = x
    BY <1>5 DEF Surjection
<1>7. DOMAIN s = 1..n /\ \A i \in 1..n : s[i] \in S /\ s[i] \in V
    BY <1>2
<1>8. Range(s) = S
    BY <1>6, <1>7 DEF Range
<1>9. s \in Seq(V) /\ Len(s) = n
    BY <1>1, <1>2, <1>7
<1> QED
    BY <1>1, <1>2, <1>8, <1>9 DEF n

-----------------------------------------------------------------------------
(* Total rows merged into a page. *)

LEMMA StretchFacts ==
    ASSUME NEW V, NEW s \in Seq(V), NEW i \in 1..Len(s), NEW j \in 1..Len(s)
    PROVE  /\ SubSeq(s, i, j) \in Seq(V) /\ Range(SubSeq(s, i, j)) \subseteq Range(s)
           /\ IsInjective(s) => IsInjective(SubSeq(s, i, j))
           /\ \A asc : InOrder(s, asc) => InOrder(SubSeq(s, i, j), asc)
<1> DEFINE t == SubSeq(s, i, j)
           n == IF i <= j THEN j - i + 1 ELSE 0
<1>1. /\ Len(s) \in Nat /\ DOMAIN s = 1..Len(s)
      /\ \A k \in 1..Len(s) : s[k] \in Range(s) /\ s[k] \in V
    BY RangeOf
<1>2. \A k \in i..j : s[k] \in V
    BY <1>1
<1>3. t \in Seq(V) /\ Len(t) = n /\ \A k \in 1..(j - i + 1) : t[k] = s[i + k - 1]
    BY <1>1, <1>2, SubSeqProperties
<1>4. DOMAIN t = 1..n
    BY <1>3, LenProperties
<1>5. \A k \in 1..n : k \in 1..(j - i + 1) /\ i + k - 1 \in 1..Len(s)
    BY <1>1
<1> HIDE DEF t, n
<1>6. \A k \in 1..n : t[k] = s[i + k - 1] /\ i + k - 1 \in 1..Len(s)
    BY <1>3, <1>5
<1>7. Range(t) \subseteq Range(s)
    BY <1>1, <1>4, <1>6 DEF Range
<1>8. ASSUME IsInjective(s)
      PROVE  IsInjective(t)
  <2>1. ASSUME NEW k \in 1..n, NEW l \in 1..n, t[k] = t[l]
        PROVE  k = l
    <3>1. i + k - 1 = i + l - 1
        BY <1>1, <1>6, <1>8, <2>1 DEF IsInjective
    <3> QED
        BY <1>1, <3>1
  <2> QED
      BY <1>4, <2>1 DEF IsInjective
<1>9. ASSUME NEW asc, InOrder(s, asc)
      PROVE  InOrder(t, asc)
  <2>1. ASSUME NEW k \in 1..n, NEW l \in 1..n, k < l
        PROVE  Sooner(t[k], t[l], asc)
    <3>1. i + k - 1 < i + l - 1
        BY <1>1, <2>1
    <3> QED
        BY <1>1, <1>6, <1>9, <3>1 DEF InOrder
  <2> QED
      BY <1>4, <2>1 DEF InOrder
<1> QED
    BY <1>3, <1>7, <1>8, <1>9 DEF t

LEMMA RowsOfPage ==
    ASSUME NEW V, NEW rows \in SUBSET V, IsFiniteSet(rows), OnDays(rows), NEW page
    PROVE  RowsForPage(page, rows) \subseteq rows
<1> DEFINE sorted == ByDate(rows, TRUE)
<1>1. sorted \in Sortings(rows, TRUE)
    BY SortingExists
<1> HIDE DEF sorted
<1>2. Range(sorted) = rows
    BY <1>1, SortingFacts
<1>3. \A k \in DOMAIN sorted : sorted[k] \in rows
    BY <1>2 DEF Range
<1> QED
    BY <1>3 DEF RowsForPage, sorted

(* The transactions of the cycle of a row, and the row.                    *)
LEMMA BlockFacts ==
    ASSUME NEW V, NEW g \in Seq(V), NEW row \in V, row \notin Range(g), IsInjective(g), NEW asc
    PROVE  LET b == IF asc THEN g \o <<row>> ELSE <<row>> \o g
           IN  b \in Seq(V) /\ Range(b) = Range(g) \cup {row} /\ IsInjective(b)
<1>1. <<row>> \in Seq(V) /\ Range(<<row>>) = {row} /\ IsInjective(<<row>>)
    BY SingleFacts
<1> DEFINE r == <<row>>
<1>2. r \in Seq(V) /\ Range(r) = {row} /\ IsInjective(r)
    BY <1>1
<1> HIDE DEF r
<1>3. Apart(g, r) /\ Apart(r, g)
    BY <1>2 DEF Apart
<1>4. /\ g \o r \in Seq(V) /\ Range(g \o r) = Range(g) \cup {row} /\ IsInjective(g \o r)
      /\ r \o g \in Seq(V) /\ Range(r \o g) = Range(g) \cup {row} /\ IsInjective(r \o g)
    BY <1>2, <1>3, ConcatProperties, ConcatRange, ConcatInjective
<1> QED
    BY <1>4 DEF r

(* mergeByDate keeps the page and shows each row once: the cycles of the   *)
(* rows part the transactions, and what is in none of them is held aside.  *)
LEMMA MergedByCycle ==
    ASSUME NEW V, NEW page \in Seq(V), IsInjective(page),
           NEW rows \in SUBSET V, IsFiniteSet(rows), OnDays(rows),
           \A q, r \in rows : q.cycle = r.cycle => q = r,
           \A r \in rows : r \notin Range(page), NEW asc
    PROVE  /\ Range(MergeByCycle(page, rows, asc)) = Range(page) \cup rows
           /\ IsInjective(MergeByCycle(page, rows, asc))
<1> DEFINE kept == ByDate(rows, asc)
           grouped(row) == Of(page, {e \in Range(page) : e.cycle = row.cycle})
           block(row) == IF asc THEN grouped(row) \o <<row>> ELSE <<row>> \o grouped(row)
           parts == [k \in DOMAIN kept |-> block(kept[k])]
           blocks == FlattenSeq(parts)
           rest == Rest(page, rows)
           n == Len(kept)
<1>1. CASE rows = {}
  <2>1. MergeByCycle(page, rows, asc) = page
      BY <1>1 DEF MergeByCycle
  <2> QED
      BY <1>1, <2>1
<1>2. CASE rows # {}
  <2>1. MergeByCycle(page, rows, asc) = IF asc THEN blocks \o rest ELSE rest \o blocks
      BY <1>2 DEF MergeByCycle
  <2>2. kept \in Sortings(rows, asc)
      BY SortingExists
  <2>3. /\ kept \in Seq(V) /\ Range(kept) = rows /\ IsInjective(kept)
        /\ n \in Nat /\ DOMAIN kept = 1..n
    <3> HIDE DEF kept
    <3> QED
        BY <2>2, SortingFacts, LenProperties
  <2>4. parts = [k \in 1..n |-> block(kept[k])]
      BY <2>3
  <2> HIDE DEF kept, n
  <2>5. /\ \A k \in 1..n : kept[k] \in rows
        /\ \A r \in rows : \E k \in 1..n : kept[k] = r
        /\ \A k, l \in 1..n : k # l => kept[k].cycle # kept[l].cycle
    <3>1. /\ \A k \in 1..n : kept[k] \in rows
          /\ \A r \in rows : \E k \in 1..n : kept[k] = r
        BY <2>3 DEF Range
    <3>2. \A k, l \in 1..n : k # l => kept[k] # kept[l]
        BY <2>3 DEF IsInjective
    <3> QED
        BY <3>1, <3>2
  <2>6. ASSUME NEW row \in rows
        PROVE  /\ block(row) \in Seq(V) /\ IsInjective(block(row))
               /\ Range(block(row)) = {e \in Range(page) : e.cycle = row.cycle} \cup {row}
    <3> DEFINE g == grouped(row)
    <3>1. /\ g \in Seq(V) /\ IsInjective(g)
          /\ Range(g) = {e \in Range(page) : e.cycle = row.cycle}
        BY OfFacts
    <3> HIDE DEF g
    <3>2. row \notin Range(g) /\ row \in V
        BY <3>1
    <3> DEFINE b == IF asc THEN g \o <<row>> ELSE <<row>> \o g
    <3>3. b \in Seq(V) /\ Range(b) = Range(g) \cup {row} /\ IsInjective(b)
        BY <3>1, <3>2, BlockFacts
    <3> HIDE DEF b
    <3>4. block(row) = b
        BY DEF b, g
    <3> HIDE DEF block
    <3> QED
        BY <3>1, <3>3, <3>4
  <2> HIDE DEF block
  <2>7. parts \in Seq(Seq(V)) /\ Len(parts) = n /\ \A k \in 1..n : parts[k] = block(kept[k])
    <3>1. \A k \in 1..n : block(kept[k]) \in Seq(V)
        BY <2>5, <2>6
    <3> QED
        BY <2>3, <2>4, <3>1
  <2> HIDE DEF parts
  <2>8. /\ blocks \in Seq(V)
        /\ \A x : x \in Range(blocks) <=> \E k \in 1..n : x \in Range(parts[k])
      BY <2>7, FlattenRange
  <2>9. IsInjective(blocks)
    <3>1. \A k \in 1..n : IsInjective(parts[k])
        BY <2>5, <2>6, <2>7
    <3>2. \A k, l \in 1..n : k < l => Apart(parts[k], parts[l])
      <4>1. ASSUME NEW k \in 1..n, NEW l \in 1..n, k < l
            PROVE  Apart(parts[k], parts[l])
        <5>1. /\ kept[k] \in rows /\ kept[l] \in rows /\ kept[k].cycle # kept[l].cycle
              /\ kept[k] # kept[l]
            BY <2>3, <2>5, <4>1
        <5>2. /\ Range(parts[k]) = {e \in Range(page) : e.cycle = kept[k].cycle} \cup {kept[k]}
              /\ Range(parts[l]) = {e \in Range(page) : e.cycle = kept[l].cycle} \cup {kept[l]}
            BY <2>6, <2>7, <5>1
        <5> QED
            BY <5>1, <5>2 DEF Apart
      <4> QED
          BY <4>1
    <3> QED
        BY <2>7, <3>1, <3>2, FlattenInjective
  <2> HIDE DEF blocks
  <2>10. /\ rest \in Seq(V) /\ IsInjective(rest)
         /\ Range(rest) = {e \in Range(page) : \A row \in rows : e.cycle # row.cycle}
      BY OfFacts DEF Rest
  <2> HIDE DEF rest
  <2>11. Range(blocks) = {e \in Range(page) : \E row \in rows : e.cycle = row.cycle} \cup rows
    <3>1. ASSUME NEW x \in Range(blocks)
          PROVE  x \in {e \in Range(page) : \E row \in rows : e.cycle = row.cycle} \cup rows
      <4>1. PICK k \in 1..n : x \in Range(parts[k])
          BY <2>8
      <4>2. kept[k] \in rows /\ x \in Range(block(kept[k]))
          BY <2>5, <2>7, <4>1
      <4> QED
          BY <2>6, <4>2
    <3>2. ASSUME NEW row \in rows, NEW x \in Range(block(row))
          PROVE  x \in Range(blocks)
      <4>1. PICK k \in 1..n : kept[k] = row
          BY <2>5
      <4>2. parts[k] = block(row)
          BY <2>7, <4>1
      <4> QED
          BY <2>8, <3>2, <4>2
    <3>3. ASSUME NEW row \in rows
          PROVE  /\ row \in Range(blocks)
                 /\ \A e \in Range(page) : e.cycle = row.cycle => e \in Range(blocks)
        BY <2>6, <3>2
    <3> QED
        BY <3>1, <3>3
  <2>12. Apart(blocks, rest) /\ Apart(rest, blocks)
      BY <2>10, <2>11 DEF Apart
  <2>13. /\ Range(blocks \o rest) = Range(blocks) \cup Range(rest)
         /\ Range(rest \o blocks) = Range(blocks) \cup Range(rest)
         /\ IsInjective(blocks \o rest) /\ IsInjective(rest \o blocks)
      BY <2>8, <2>9, <2>10, <2>12, ConcatRange, ConcatInjective
  <2>14. Range(blocks) \cup Range(rest) = Range(page) \cup rows
      BY <2>10, <2>11
  <2>15. CASE asc
      BY <2>1, <2>13, <2>14, <2>15
  <2>16. CASE ~ asc
      BY <2>1, <2>13, <2>14, <2>16
  <2> QED
      BY <2>15, <2>16
<1> QED
    BY <1>1, <1>2

LEMMA SoonerFacts ==
    ASSUME NEW asc, NEW x, NEW y, x.date \in Int, y.date \in Int
    PROVE  /\ Sooner(x, x, asc)
           /\ Leads(x, y, asc) => Sooner(x, y, asc)
           /\ ~ Leads(x, y, asc) => Sooner(y, x, asc)
           /\ \A z : z.date \in Int =>
                 /\ Sooner(x, y, asc) /\ Sooner(y, z, asc) => Sooner(x, z, asc)
                 /\ Leads(x, y, asc) /\ Sooner(y, z, asc) => Leads(x, z, asc)
<1>1. CASE asc
    BY <1>1 DEF Sooner, Leads
<1>2. CASE ~ asc
    BY <1>2 DEF Sooner, Leads
<1> QED
    BY <1>1, <1>2

(* mergeMonthEndRows keeps the page, shows each row once, and keeps the    *)
(* order of dates: every transaction is between the row before it and the  *)
(* one after.                                                              *)
LEMMA MergedByMonth ==
    ASSUME NEW V, NEW page \in Seq(V), IsInjective(page), NEW asc, InOrder(page, asc),
           OnDays(Range(page)),
           NEW rows \in SUBSET V, IsFiniteSet(rows), OnDays(rows),
           \A r \in rows : r \notin Range(page)
    PROVE  /\ Range(MergeByMonth(page, rows, asc)) = Range(page) \cup rows
           /\ IsInjective(MergeByMonth(page, rows, asc))
           /\ InOrder(MergeByMonth(page, rows, asc), asc)
<1> DEFINE kept == ByDate(rows, asc)
           n == Len(kept)
           Here(k) == {e \in Range(page) : /\ k <= n => Leads(e, kept[k], asc)
                                           /\ k > 1 => ~Leads(e, kept[k - 1], asc)}
           between(k) == Of(page, Here(k))
           end(k) == IF k <= n THEN <<kept[k]>> ELSE << >>
           parts == [k \in 1..(n + 1) |-> between(k) \o end(k)]
           shown == FlattenSeq(parts)
<1>1. MergeByMonth(page, rows, asc) = shown
    BY DEF MergeByMonth
<1>2. kept \in Sortings(rows, asc)
    BY SortingExists
<1>3. /\ kept \in Seq(V) /\ Range(kept) = rows /\ IsInjective(kept) /\ InOrder(kept, asc)
      /\ n \in Nat /\ DOMAIN kept = 1..n
  <2> HIDE DEF kept
  <2> QED
      BY <1>2, SortingFacts, LenProperties
<1> HIDE DEF kept, n
<1>4. /\ \A k \in 1..n : kept[k] \in rows /\ kept[k] \in V /\ kept[k].date \in Int
      /\ \A r \in rows : \E k \in 1..n : kept[k] = r
    BY <1>3 DEF Range, OnDays
<1>5. \A e \in Range(page) : e.date \in Int
    BY DEF OnDays
<1>6. \A k, l \in 1..n : k <= l => Sooner(kept[k], kept[l], asc)
  <2>1. ASSUME NEW k \in 1..n, NEW l \in 1..n, k <= l
        PROVE  Sooner(kept[k], kept[l], asc)
    <3>1. CASE k = l
        BY <1>4, <3>1, SoonerFacts
    <3>2. CASE k < l
        BY <1>3, <3>2 DEF InOrder
    <3> QED
        BY <1>3, <2>1, <3>1, <3>2
  <2> QED
      BY <2>1
<1>7. ASSUME NEW k \in 1..(n + 1)
      PROVE  /\ between(k) \in Seq(V) /\ Range(between(k)) = Here(k)
             /\ IsInjective(between(k)) /\ InOrder(between(k), asc)
  <2> HIDE DEF Here
  <2>1. Here(k) \subseteq Range(page)
      BY DEF Here
  <2>2. Range(page) \cap Here(k) = Here(k)
      BY <2>1
  <2>3. /\ Of(page, Here(k)) \in Seq(V)
        /\ Range(Of(page, Here(k))) = Range(page) \cap Here(k)
        /\ IsInjective(Of(page, Here(k))) /\ InOrder(Of(page, Here(k)), asc)
      BY OfFacts
  <2> QED
      BY <2>2, <2>3
<1> HIDE DEF between
<1>8. ASSUME NEW k \in 1..(n + 1)
      PROVE  /\ end(k) \in Seq(V) /\ IsInjective(end(k)) /\ InOrder(end(k), asc)
             /\ \A x : x \in Range(end(k)) <=> k <= n /\ x = kept[k]
  <2>1. CASE k <= n
    <3>1. k \in 1..n /\ end(k) = <<kept[k]>> /\ kept[k] \in V
        BY <1>3, <1>4, <2>1
    <3>2. /\ <<kept[k]>> \in Seq(V) /\ Range(<<kept[k]>>) = {kept[k]}
          /\ IsInjective(<<kept[k]>>) /\ InOrder(<<kept[k]>>, asc)
        BY <3>1, SingleFacts
    <3> HIDE DEF end
    <3> QED
        BY <2>1, <3>1, <3>2
  <2>2. CASE ~ (k <= n)
    <3>1. end(k) = << >>
        BY <2>2
    <3> HIDE DEF end
    <3> QED
        BY <2>2, <3>1, EmptyFacts
  <2> QED
      BY <2>1, <2>2
<1> HIDE DEF end
<1>9. ASSUME NEW k \in 1..(n + 1)
      PROVE  /\ parts[k] \in Seq(V) /\ parts[k] = between(k) \o end(k)
             /\ \A x : x \in Range(parts[k]) <=> x \in Here(k) \/ (k <= n /\ x = kept[k])
  <2>1. parts[k] = between(k) \o end(k)
      OBVIOUS
  <2> HIDE DEF parts, Here
  <2>2. between(k) \o end(k) \in Seq(V)
      BY <1>7, <1>8, ConcatProperties
  <2>3. Range(between(k) \o end(k)) = Range(between(k)) \cup Range(end(k))
      BY <1>7, <1>8, ConcatRange
  <2> QED
      BY <1>7, <1>8, <2>1, <2>2, <2>3
<1>10. parts \in Seq(Seq(V)) /\ Len(parts) = n + 1
  <2>1. \A k \in 1..(n + 1) : between(k) \o end(k) \in Seq(V)
      BY <1>9
  <2> HIDE DEF Here
  <2> QED
      BY <1>3, <2>1
<1> HIDE DEF parts
<1>11. ASSUME NEW k \in 1..(n + 1), NEW x \in Range(parts[k]), k <= n
       PROVE  k \in 1..n /\ x.date \in Int /\ Sooner(x, kept[k], asc)
  <2>1. k \in 1..n
      BY <1>3, <1>11
  <2>2. CASE x = kept[k]
      BY <1>4, <2>1, <2>2, SoonerFacts
  <2>3. CASE x \in Here(k)
    <3>1. x \in Range(page) /\ Leads(x, kept[k], asc)
        BY <1>11, <2>3
    <3> QED
        BY <1>4, <1>5, <2>1, <3>1, SoonerFacts
  <2> QED
      BY <1>9, <1>11, <2>2, <2>3
<1>12. ASSUME NEW l \in 1..(n + 1), NEW y \in Range(parts[l]), l > 1
       PROVE  l - 1 \in 1..n /\ y.date \in Int /\ Sooner(kept[l - 1], y, asc)
  <2>1. l - 1 \in 1..n
      BY <1>3, <1>12
  <2>2. CASE l <= n /\ y = kept[l]
    <3>1. l \in 1..n /\ l - 1 <= l
        BY <1>3, <2>2
    <3> QED
        BY <1>4, <1>6, <2>1, <2>2, <3>1
  <2>3. CASE y \in Here(l)
    <3>1. y \in Range(page) /\ ~ Leads(y, kept[l - 1], asc)
        BY <1>12, <2>3
    <3> QED
        BY <1>4, <1>5, <2>1, <3>1, SoonerFacts
  <2> QED
      BY <1>9, <1>12, <2>2, <2>3
<1>13. ASSUME NEW k \in 1..(n + 1), NEW l \in 1..(n + 1), k < l
       PROVE  k <= n /\ l > 1 /\ k \in 1..n /\ l - 1 \in 1..n /\ k <= l - 1
    BY <1>3, <1>13
<1>14. \A k \in 1..(n + 1) : InOrder(parts[k], asc)
  <2>1. ASSUME NEW k \in 1..(n + 1)
        PROVE  InOrder(parts[k], asc)
    <3>1. Precedes(between(k), end(k), asc)
      <4>1. ASSUME NEW x \in Range(between(k)), NEW y \in Range(end(k))
            PROVE  Sooner(x, y, asc)
        <5>1. y = kept[k] /\ k <= n /\ x \in Here(k)
            BY <1>7, <1>8
        <5> QED
            BY <1>9, <1>11, <5>1
      <4> QED
          BY <4>1 DEF Precedes
    <3> HIDE DEF Here
    <3>2. /\ between(k) \in Seq(V) /\ end(k) \in Seq(V)
          /\ InOrder(between(k), asc) /\ InOrder(end(k), asc)
        BY <1>7, <1>8
    <3>3. InOrder(between(k) \o end(k), asc)
        BY <3>1, <3>2, ConcatInOrder
    <3> QED
        BY <1>9, <3>3
  <2> QED
      BY <2>1
<1>15. \A k \in 1..(n + 1) : IsInjective(parts[k])
  <2>1. ASSUME NEW k \in 1..(n + 1)
        PROVE  IsInjective(parts[k])
    <3>1. Apart(between(k), end(k))
      <4>1. ASSUME NEW x \in Range(between(k)), x \in Range(end(k))
            PROVE  FALSE
        <5>1. x \in Range(page) /\ k <= n /\ x = kept[k]
            BY <1>7, <1>8, <4>1
        <5>2. k \in 1..n
            BY <1>3, <5>1
        <5> QED
            BY <1>4, <5>1, <5>2
      <4> QED
          BY <4>1 DEF Apart
    <3> HIDE DEF Here
    <3>2. /\ between(k) \in Seq(V) /\ end(k) \in Seq(V)
          /\ IsInjective(between(k)) /\ IsInjective(end(k))
        BY <1>7, <1>8
    <3>3. IsInjective(between(k) \o end(k))
        BY <3>1, <3>2, ConcatInjective
    <3> QED
        BY <1>9, <3>3
  <2> QED
      BY <2>1
<1>16. \A k, l \in 1..(n + 1) : k < l => Precedes(parts[k], parts[l], asc)
  <2>1. ASSUME NEW k \in 1..(n + 1), NEW l \in 1..(n + 1), k < l,
               NEW x \in Range(parts[k]), NEW y \in Range(parts[l])
        PROVE  Sooner(x, y, asc)
    <3>1. k <= n /\ l > 1 /\ k \in 1..n /\ l - 1 \in 1..n /\ k <= l - 1
        BY <1>13, <2>1
    <3>2. x.date \in Int /\ Sooner(x, kept[k], asc)
        BY <1>11, <3>1
    <3>3. y.date \in Int /\ Sooner(kept[l - 1], y, asc)
        BY <1>12, <3>1
    <3>4. /\ Sooner(kept[k], kept[l - 1], asc)
          /\ kept[k].date \in Int /\ kept[l - 1].date \in Int
        BY <1>4, <1>6, <3>1
    <3>5. Sooner(x, kept[l - 1], asc)
        BY <3>2, <3>4, SoonerFacts
    <3> QED
        BY <3>2, <3>3, <3>4, <3>5, SoonerFacts
  <2> QED
      BY <2>1 DEF Precedes
<1>17. \A k, l \in 1..(n + 1) : k < l => Apart(parts[k], parts[l])
  <2>1. ASSUME NEW k \in 1..(n + 1), NEW l \in 1..(n + 1), k < l,
               NEW x \in Range(parts[k]), x \in Range(parts[l])
        PROVE  FALSE
    <3>1. k <= n /\ l > 1 /\ k \in 1..n /\ l - 1 \in 1..n /\ k <= l - 1
        BY <1>13, <2>1
    <3>2. x \in Here(k) \/ x = kept[k]
        BY <1>9, <2>1
    <3>3. x \in Here(l) \/ (l <= n /\ x = kept[l])
        BY <1>9, <2>1
    <3>4. l <= n => l \in 1..n
        BY <1>3, <3>1
    <3>5. x \in Here(k) => x \in Range(page) /\ Leads(x, kept[k], asc)
        BY <3>1
    <3>6. x \in Here(l) => x \in Range(page) /\ ~ Leads(x, kept[l - 1], asc)
        BY <3>1
    <3> HIDE DEF Here
    <3>7. CASE x \in Here(k) /\ x \in Here(l)
      <4>1. /\ Leads(x, kept[k], asc) /\ ~ Leads(x, kept[l - 1], asc) /\ x.date \in Int
            /\ Sooner(kept[k], kept[l - 1], asc)
            /\ kept[k].date \in Int /\ kept[l - 1].date \in Int
          BY <1>4, <1>5, <1>6, <3>1, <3>5, <3>6, <3>7
      <4> QED
          BY <4>1, SoonerFacts
    <3>8. CASE x \in Range(page) /\ (x = kept[k] \/ (l <= n /\ x = kept[l]))
        BY <1>4, <3>1, <3>4, <3>8
    <3>9. CASE x = kept[k] /\ l <= n /\ x = kept[l]
      <4>1. k = l
          BY <1>3, <3>1, <3>4, <3>9 DEF IsInjective
      <4> QED
          BY <1>3, <2>1, <4>1
    <3> QED
        BY <3>2, <3>3, <3>5, <3>6, <3>7, <3>8, <3>9
  <2> QED
      BY <2>1 DEF Apart
<1>18. ASSUME NEW e \in Range(page)
       PROVE  \E k \in 1..(n + 1) : e \in Here(k)
  <2> DEFINE T == {k \in 1..(n + 1) : k <= n => Leads(e, kept[k], asc)}
  <2>1. n + 1 \in T /\ T \subseteq Nat
      BY <1>3
  <2>2. PICK k \in T : \A m \in T : k <= m
      BY <2>1, LeastOf
  <2>3. k \in 1..(n + 1) /\ k \in Nat
      BY <1>3
  <2>4. k > 1 => ~ Leads(e, kept[k - 1], asc)
    <3>1. ASSUME k > 1
          PROVE  k - 1 \in 1..(n + 1) /\ k - 1 <= n /\ ~ (k <= k - 1)
        BY <1>3, <2>3, <3>1
    <3> QED
        BY <2>2, <3>1
  <2>5. k <= n => Leads(e, kept[k], asc)
      BY <2>2
  <2> QED
      BY <2>3, <2>4, <2>5
<1> HIDE DEF Here
<1>19. /\ \A x : x \in Range(shown) <=> \E k \in 1..(n + 1) : x \in Range(parts[k])
       /\ IsInjective(shown) /\ InOrder(shown, asc)
    BY <1>10, <1>14, <1>15, <1>16, <1>17, FlattenRange, FlattenInjective, FlattenInOrder
<1> HIDE DEF shown
<1>20. ASSUME NEW x \in Range(shown)
       PROVE  x \in Range(page) \cup rows
  <2>1. PICK k \in 1..(n + 1) : x \in Range(parts[k])
      BY <1>19
  <2>2. CASE x \in Here(k)
      BY <2>2 DEF Here
  <2>3. CASE k <= n /\ x = kept[k]
    <3>1. k \in 1..n
        BY <1>3, <2>3
    <3> QED
        BY <1>4, <2>3, <3>1
  <2> QED
      BY <1>9, <2>1, <2>2, <2>3
<1>21. ASSUME NEW x \in Range(page)
       PROVE  x \in Range(shown)
    BY <1>9, <1>18, <1>19
<1>22. ASSUME NEW x \in rows
       PROVE  x \in Range(shown)
  <2>1. PICK k \in 1..n : kept[k] = x
      BY <1>4
  <2>2. k \in 1..(n + 1) /\ k <= n
      BY <1>3
  <2> QED
      BY <1>9, <1>19, <2>1, <2>2
<1> QED
    BY <1>1, <1>19, <1>20, <1>21, <1>22

-----------------------------------------------------------------------------
(* The rows and pages of a state. *)

LEMMA ImageIsFinite ==
    ASSUME NEW S, IsFiniteSet(S), NEW f, DOMAIN f = S
    PROVE  IsFiniteSet({f[x] : x \in S})
<1> DEFINE T == {f[x] : x \in S}
           g == [x \in S |-> f[x]]
<1>1. g \in Surjection(S, T)
    BY DEF Surjection
<1> QED
    BY <1>1, FS_Surjection

LEMMA DatesAreFinite == IsFiniteSet(Dates) /\ Dates \subseteq Int
<1>1. LastMonth \in Nat /\ 0 \in 0..(LastMonth + 1) /\ LastMonth + 1 \in 0..(LastMonth + 1)
    BY CalendarAssumption
<1>2. Start[0] \in Nat /\ Start[LastMonth + 1] \in Nat
    BY <1>1, StartIsNat
<1> QED
    BY <1>2, FS_Interval DEF Dates

LEMMA CyclesAreFinite ==
    ASSUME cycles \in SUBSET Cycle, NEW a
    PROVE  IsFiniteSet(CyclesOf(cycles, a))
<1> DEFINE C == CyclesOf(cycles, a)
           f == [c \in C |-> <<c.start, c.end>>]
<1>1. \A c \in C : c \in Cycle /\ c.acct = a /\ c.start \in Dates /\ c.end \in Dates
    BY DEF CyclesOf, Cycle
<1>2. ASSUME NEW c \in C, NEW d \in C, f[c] = f[d]
      PROVE  c = d
  <2>1. c.acct = d.acct /\ c.start = d.start /\ c.end = d.end
      BY <1>1, <1>2
  <2>2. c \in Cycle /\ d \in Cycle
      BY <1>1
  <2> QED
      BY <2>1, <2>2 DEF Cycle
<1>3. f \in [C -> Dates \X Dates]
    BY <1>1
<1>4. f \in Injection(C, Dates \X Dates)
    BY <1>2, <1>3 DEF Injection, IsInjective
<1>5. IsFiniteSet(Dates \X Dates)
    BY DatesAreFinite, FS_Product
<1> QED
    BY <1>4, <1>5, FS_Injection

(* The rows of an account are of days, and no two are of one cycle.        *)
LEMMA CycleRowsFacts ==
    ASSUME LedgerTypeOK, NEW a, NEW from, NEW to \in Int
    PROVE  LET rows == CycleRows(a, from, to)
           IN  /\ IsFiniteSet(rows) /\ OnDays(rows)
               /\ \A q, r \in rows : q.cycle = r.cycle => q = r
<1> DEFINE C == CyclesOf(cycles, a)
           F == [c \in C |-> [cycle |-> c, count |-> Cardinality(AttachedTo(c)),
                              total |-> RunningTotal(c)]]
           listed == ListedCycles(a)
           ended == {l \in listed : l.count > 0 /\ from <= l.cycle.end /\ l.cycle.end <= to}
           current == {l \in listed : Within(to, l.cycle) /\ l.cycle.end > to}
           open == {l \in current : UpTo(a, to) # {}}
           G == [l \in ended |-> [date |-> l.cycle.end, cycle |-> l.cycle, total |-> l.total]]
           H == [l \in open |-> [date |-> to, cycle |-> l.cycle, total |-> Activity(UpTo(a, to))]]
<1>1. IsFiniteSet(C) /\ \A c \in C : c.end \in Int
  <2>1. \A c \in C : c.end \in Dates
      BY TypeFacts DEF CyclesOf, Cycle
  <2> QED
      BY <2>1, TypeFacts, CyclesAreFinite, DatesAreFinite
<1>2. listed = {F[c] : c \in C}
    BY DEF ListedCycles
<1>3. \A c \in C : F[c].cycle = c
    OBVIOUS
<1>4. DOMAIN F = C
    OBVIOUS
<1> HIDE DEF F, C, listed
<1>5. IsFiniteSet(listed)
    BY <1>1, <1>2, <1>4, ImageIsFinite
<1>6. \A l \in listed : l.cycle \in C /\ l = F[l.cycle] /\ l.cycle.end \in Int
    BY <1>1, <1>2, <1>3
<1>7. CycleRows(a, from, to) = {G[l] : l \in ended} \cup {H[l] : l \in open}
    BY DEF CycleRows, listed
<1>8. /\ \A l \in ended : /\ l \in listed /\ l.cycle.end <= to
                          /\ G[l].cycle = l.cycle /\ G[l].date = l.cycle.end
      /\ \A l \in open : /\ l \in listed /\ l.cycle.end > to
                         /\ H[l].cycle = l.cycle /\ H[l].date = to
    OBVIOUS
<1>9. IsFiniteSet(ended) /\ IsFiniteSet(open) /\ DOMAIN G = ended /\ DOMAIN H = open
    BY <1>5, FS_Subset
<1> HIDE DEF ended, open, G, H
<1> DEFINE R == {G[l] : l \in ended} \cup {H[l] : l \in open}
<1>10. IsFiniteSet(R)
  <2>1. IsFiniteSet({G[l] : l \in ended}) /\ IsFiniteSet({H[l] : l \in open})
      BY <1>9, ImageIsFinite
  <2> QED
      BY <2>1, FS_Union
<1>11. OnDays(R)
    BY <1>6, <1>8 DEF OnDays
<1>12. ASSUME NEW q \in R, NEW r \in R, q.cycle = r.cycle
       PROVE  q = r
  <2>1. ASSUME NEW l \in listed, NEW m \in listed, l.cycle = m.cycle
        PROVE  l = m
      BY <1>6, <2>1
  <2>2. CASE q \in {G[l] : l \in ended} /\ r \in {G[l] : l \in ended}
    <3>1. PICK l \in ended, m \in ended : q = G[l] /\ r = G[m]
        BY <2>2
    <3> QED
        BY <1>8, <1>12, <2>1, <3>1
  <2>3. CASE q \in {H[l] : l \in open} /\ r \in {H[l] : l \in open}
    <3>1. PICK l \in open, m \in open : q = H[l] /\ r = H[m]
        BY <2>3
    <3> QED
        BY <1>8, <1>12, <2>1, <3>1
  <2>4. ASSUME NEW l \in ended, NEW m \in open, G[l].cycle = H[m].cycle
        PROVE  FALSE
    <3>1. l.cycle = m.cycle /\ l.cycle.end <= to /\ m.cycle.end > to /\ l.cycle.end \in Int
        BY <1>6, <1>8, <2>4
    <3> QED
        BY <3>1
  <2>5. CASE q \in {G[l] : l \in ended} /\ r \in {H[l] : l \in open}
      BY <1>12, <2>4, <2>5
  <2>6. CASE q \in {H[l] : l \in open} /\ r \in {G[l] : l \in ended}
      BY <1>12, <2>4, <2>6
  <2> QED
      BY <2>2, <2>3, <2>5, <2>6
<1> HIDE DEF R
<1>13. CycleRows(a, from, to) = R
    BY <1>7 DEF R
<1> QED
    BY <1>10, <1>11, <1>12, <1>13

LEMMA MonthRowsFacts ==
    ASSUME LedgerTypeOK, NEW a, NEW from, NEW to \in Int
    PROVE  IsFiniteSet(MonthRows(a, from, to)) /\ OnDays(MonthRows(a, from, to))
<1> DEFINE months == {MonthOf(txns[t].row.date) : t \in TxnsOf(txns, a)}
           open == {m \in months : m = MonthOf(to) /\ MonthEnd(m) > to}
           ended == {m \in months \ open : from <= MonthEnd(m) /\ MonthEnd(m) <= to}
           now == {m \in open : UpTo(a, to) # {}}
           G == [m \in ended |-> [date |-> MonthEnd(m), cycle |-> NoCycle,
                                  total |-> BalanceAsOf(a, MonthEnd(m))]]
           H == [m \in now |-> [date |-> to, cycle |-> NoCycle, total |-> BalanceAsOf(a, to)]]
<1>1. \A m \in months : m \in Months
  <2>1. \A t \in DOMAIN txns : txns[t].row.date \in Dates
      BY TypeFacts, RowDates DEF IsTable, Txn
  <2> QED
      BY <2>1, MonthOfDate DEF TxnsOf
<1>2. IsFiniteSet(Months) /\ \A m \in Months : MonthEnd(m) \in Int
  <2>1. LastMonth \in Nat
      BY CalendarAssumption
  <2>2. \A m \in Months : m + 1 \in 0..(LastMonth + 1)
      BY <2>1 DEF Months
  <2> QED
      BY <2>1, <2>2, StartIsNat, FS_Interval DEF Months, MonthEnd
<1>3. IsFiniteSet(months)
    BY <1>1, <1>2, FS_Subset
<1> HIDE DEF months
<1>4. IsFiniteSet(ended) /\ IsFiniteSet(now) /\ DOMAIN G = ended /\ DOMAIN H = now
    BY <1>3, FS_Subset
<1>5. /\ \A m \in ended : m \in months /\ G[m].date = MonthEnd(m)
      /\ \A m \in now : H[m].date = to
    OBVIOUS
<1>6. MonthRows(a, from, to) = {G[m] : m \in ended} \cup {H[m] : m \in now}
    BY DEF MonthRows, months
<1> HIDE DEF ended, now, G, H
<1>7. IsFiniteSet({G[m] : m \in ended} \cup {H[m] : m \in now})
  <2>1. IsFiniteSet({G[m] : m \in ended}) /\ IsFiniteSet({H[m] : m \in now})
      BY <1>4, ImageIsFinite
  <2> QED
      BY <2>1, FS_Union
<1>8. OnDays({G[m] : m \in ended} \cup {H[m] : m \in now})
    BY <1>1, <1>2, <1>5 DEF OnDays
<1> QED
    BY <1>6, <1>7, <1>8

IsTotal(r) == \E x, y, z : r = [date |-> x, cycle |-> y, total |-> z]

LEMMA TotalIsNoEntry ==
    ASSUME NEW r, IsTotal(r), NEW t
    PROVE  r # Entry(t)
<1>1. PICK x, y, z : r = [date |-> x, cycle |-> y, total |-> z]
    BY DEF IsTotal
<1>2. "total" \in DOMAIN r
    BY <1>1
<1>3. "total" \notin DOMAIN Entry(t)
    BY DEF Entry
<1> QED
    BY <1>2, <1>3

LEMMA RowsAreTotals ==
    ASSUME NEW a, NEW from, NEW to
    PROVE  /\ \A r \in CycleRows(a, from, to) : IsTotal(r)
           /\ \A r \in MonthRows(a, from, to) : IsTotal(r)
<1>1. \A x, y, z : IsTotal([date |-> x, cycle |-> y, total |-> z])
    BY DEF IsTotal
<1> HIDE DEF IsTotal
<1> QED
    BY <1>1 DEF CycleRows, MonthRows

LEMMA PageFacts ==
    ASSUME LedgerTypeOK, NEW a, NEW asc, NEW page \in Pages(a, asc),
           NEW V, Entries(a) \subseteq V
    PROVE  /\ page \in Seq(V) /\ IsInjective(page) /\ InOrder(page, asc)
           /\ Range(page) \subseteq Entries(a)
           /\ OnDays(Range(page))
<1> DEFINE S == TxnsOf(txns, a)
           f == [t \in S |-> Entry(t)]
           E == Entries(a)
<1>1. S \in SUBSET DOMAIN txns /\ IsFiniteSet(S)
  <2>1. S \in SUBSET DOMAIN txns
      BY DEF TxnsOf
  <2> QED
      BY <2>1, TypeFacts, TableIsFinite, FS_Subset
<1>2. \A t \in S : Entry(t).date \in Int
  <2>1. \A t \in DOMAIN txns : txns[t].row.date \in Int
      BY TypeFacts, RowDates, DatesAreFinite DEF IsTable, Txn
  <2> QED
      BY <1>1, <2>1 DEF Entry
<1>3. IsFiniteSet(E) /\ OnDays(E)
  <2>1. E = {f[t] : t \in S} /\ DOMAIN f = S
      BY DEF Entries
  <2> HIDE DEF f, S, E
  <2>2. IsFiniteSet({f[t] : t \in S})
      BY <1>1, <2>1, ImageIsFinite
  <2> QED
      BY <1>2, <2>1, <2>2 DEF OnDays, E, Entries, S
<1> HIDE DEF f, S
<1>4. PICK all \in Sortings(E, asc) : page \in {SubSeq(all, i, j) : i, j \in DOMAIN all}
    BY DEF Pages
<1> HIDE DEF E
<1>5. PICK i \in DOMAIN all, j \in DOMAIN all : page = SubSeq(all, i, j)
    BY <1>4
<1>6. E \in SUBSET V
    BY DEF E
<1>7. /\ all \in Seq(V) /\ Len(all) = Cardinality(E) /\ Range(all) = E
      /\ IsInjective(all) /\ InOrder(all, asc)
    BY <1>3, <1>6, SortingFacts
<1>8. /\ page \in Seq(V) /\ Range(page) \subseteq E /\ IsInjective(page) /\ InOrder(page, asc)
  <2>1. i \in 1..Len(all) /\ j \in 1..Len(all)
      BY <1>5, <1>7, LenProperties
  <2> QED
      BY <1>5, <1>7, <2>1, StretchFacts
<1> QED
    BY <1>3, <1>8 DEF OnDays, E

LEMMA PagesAreComplete ==
    ASSUME LedgerTypeOK
    PROVE  PageComplete
<1> SUFFICES ASSUME NEW a \in Accounts, NEW asc \in BOOLEAN, NEW page \in Pages(a, asc)
             PROVE  LET totals == TotalRows(a, today)
                        shown == ShownPage(a, page, totals, asc)
                    IN  /\ Range(shown) = Range(page) \cup RowsForPage(page, totals)
                        /\ IsInjective(shown)
                        /\ accounts[a].day = NoDay => InOrder(shown, asc)
    BY DEF PageComplete
<1> DEFINE totals == TotalRows(a, today)
           shown == ShownPage(a, page, totals, asc)
           rows == RowsForPage(page, totals)
           E == Entries(a)
           V == E \cup totals
<1>1. today \in Int
    BY TypeFacts, TodayAssumption
<1>2. /\ accounts[a].day = NoDay => totals = MonthRows(a, Start[0], today)
      /\ accounts[a].day # NoDay => totals = CycleRows(a, Start[0], today)
    BY DEF TotalRows
<1>3. /\ accounts[a].day = NoDay => shown = MergeByMonth(page, rows, asc)
      /\ accounts[a].day # NoDay => shown = MergeByCycle(page, rows, asc)
    BY DEF ShownPage
<1> HIDE DEF totals, shown
<1>4. IsFiniteSet(totals) /\ OnDays(totals)
    BY <1>1, <1>2, MonthRowsFacts, CycleRowsFacts
<1>5. accounts[a].day # NoDay => \A q, r \in totals : q.cycle = r.cycle => q = r
    BY <1>1, <1>2, CycleRowsFacts
<1>6. \A r \in totals : IsTotal(r)
    BY <1>2, RowsAreTotals
<1>7. \A r \in totals : r \notin E
    BY <1>6, TotalIsNoEntry DEF Entries
<1>8. /\ page \in Seq(V) /\ IsInjective(page) /\ InOrder(page, asc)
      /\ Range(page) \subseteq E /\ OnDays(Range(page))
  <2>1. E \subseteq V
      OBVIOUS
  <2> HIDE DEF V
  <2> QED
      BY <2>1, PageFacts
<1>9. rows \subseteq totals
    BY <1>4, RowsOfPage
<1> HIDE DEF rows, E
<1>10. rows \in SUBSET V /\ \A r \in rows : r \notin Range(page)
    BY <1>7, <1>8, <1>9
<1>11. IsFiniteSet(rows) /\ OnDays(rows)
    BY <1>4, <1>9, FS_Subset DEF OnDays
<1> HIDE DEF V
<1>12. CASE accounts[a].day = NoDay
  <2>1. /\ Range(MergeByMonth(page, rows, asc)) = Range(page) \cup rows
        /\ IsInjective(MergeByMonth(page, rows, asc))
        /\ InOrder(MergeByMonth(page, rows, asc), asc)
      BY <1>8, <1>10, <1>11, MergedByMonth
  <2> QED
      BY <1>3, <1>12, <2>1 DEF rows, shown, totals
<1>13. CASE accounts[a].day # NoDay
  <2>1. \A q, r \in rows : q.cycle = r.cycle => q = r
      BY <1>5, <1>9, <1>13
  <2>2. /\ Range(MergeByCycle(page, rows, asc)) = Range(page) \cup rows
        /\ IsInjective(MergeByCycle(page, rows, asc))
      BY <1>8, <1>10, <1>11, <2>1, MergedByCycle
  <2> QED
      BY <1>3, <1>13, <2>2 DEF rows, shown, totals
<1> QED
    BY <1>12, <1>13

(* A page of the transaction list shows its transactions and the total     *)
(* rows that belong on it, each once (mergeByDate, mergeMonthEndRows): the *)
(* rows shown are of different cycles, and what is in none of those cycles *)
(* stands apart; without cycles, each transaction is between two rows.     *)
THEOREM PagesShowAll == LedgerSpec => []PageComplete
<1>1. LedgerTypeOK => PageComplete
    BY PagesAreComplete
<1> QED
    BY <1>1, TypeCorrect, PTL
=============================================================================
