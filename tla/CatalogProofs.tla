---------------------------- MODULE CatalogProofs ----------------------------
(***************************************************************************)
(* Everything in Catalog refers to what exists, an apply of the rules      *)
(* gives each row what the first rule that matches it sets, and a row's    *)
(* description changes for a cause: for any rows, rules, links, batches    *)
(* and number of requests.  Of the reports over it: the nodes and edges of *)
(* the graph and the other reports come to the same sums, and the walk that*)
(* removes loops from the graph leaves none and accounts for each.         *)
(***************************************************************************)
EXTENDS Reports, WellFoundedInduction, FiniteSetTheorems, TLAPS

-----------------------------------------------------------------------------
(* Runs of a step over a sequence. *)

LEMMA LeastOf ==
    ASSUME NEW T, T \subseteq Nat, T # {}
    PROVE  \E n \in T : \A m \in T : n <= m
<1> DEFINE R == OpToRel(<, Nat)
<1>1. IsWellFoundedOn(R, Nat)
    BY NatLessThanWellFounded
<1>2. \A x, y \in Nat : x < y => <<x, y>> \in R
    BY DEF OpToRel
<1> HIDE DEF R
<1>3. PICK n \in T : \A y \in T : ~ (<<y, n>> \in R)
    BY <1>1, WFMin
<1>4. ASSUME NEW m \in T
      PROVE  n <= m
  <2>1. n \in Nat /\ m \in Nat
      OBVIOUS
  <2>2. ~ (m < n)
      BY <1>2, <1>3, <2>1
  <2> QED
      BY <2>1, <2>2
<1> QED
    BY <1>4

(* Induction up to a bound, over a set.                                    *)
LEMMA Induct ==
    ASSUME NEW N \in Nat, NEW T,
           0 \in T,
           \A n \in 0..(N - 1) : n \in T => n + 1 \in T
    PROVE  \A n \in 0..N : n \in T
<1> DEFINE Missed == {n \in 0..N : n \notin T}
<1>1. SUFFICES ASSUME Missed # {}
               PROVE  FALSE
    OBVIOUS
<1>2. Missed \subseteq Nat
    OBVIOUS
<1>3. PICK n \in Missed : \A m \in Missed : n <= m
    BY <1>1, <1>2, LeastOf
<1>4. n # 0 /\ n \in 0..N /\ n \notin T
    BY <1>3
<1>5. n - 1 \in 0..(N - 1) /\ n - 1 \in 0..N /\ ~ (n <= n - 1)
    BY <1>4
<1>6. n - 1 \in T
    BY <1>3, <1>5
<1>7. (n - 1) + 1 \in T
    BY <1>5, <1>6
<1> QED
    BY <1>4, <1>7

(* A step that stays in V can be taken N times.                            *)
CanRun(V, a, N, F) ==
    \E g \in [0..N -> V] : g[0] = a /\ \A k \in 1..N : g[k] = F[<<g[k - 1], k>>]

LEMMA RunExists ==
    ASSUME NEW V, NEW a \in V, NEW N \in Nat, NEW F \in [V \X (1..N) -> V]
    PROVE  CanRun(V, a, N, F)
<1> DEFINE Runs(g, n) == g[0] = a /\ \A k \in 1..n : g[k] = F[<<g[k - 1], k>>]
           S == {n \in 0..N : \E g \in [0..n -> V] : Runs(g, n)}
<1>1. 0 \in S
  <2> DEFINE g == [k \in 0..0 |-> a]
  <2>1. g \in [0..0 -> V] /\ Runs(g, 0)
      OBVIOUS
  <2> HIDE DEF g, Runs
  <2>2. 0 \in 0..N
      OBVIOUS
  <2> QED
      BY <2>1, <2>2
<1>2. ASSUME NEW n \in 0..(N - 1), n \in S
      PROVE  n + 1 \in S
  <2>1. PICK g \in [0..n -> V] : Runs(g, n)
      BY <1>2
  <2> DEFINE h == [k \in 0..(n + 1) |-> IF k <= n THEN g[k] ELSE F[<<g[n], n + 1>>]]
  <2>2. n \in Nat /\ n + 1 \in 0..N /\ n + 1 \in 1..N
      OBVIOUS
  <2>3. F[<<g[n], n + 1>>] \in V
    <3>1. g[n] \in V
        BY <2>2
    <3>2. <<g[n], n + 1>> \in V \X (1..N)
        BY <2>2, <3>1
    <3> QED
        BY <3>2
  <2>4. h \in [0..(n + 1) -> V]
    <3>1. \A k \in 0..(n + 1) : k <= n => g[k] \in V
        BY <2>2
    <3> QED
        BY <2>3, <3>1
  <2>5. \A k \in 0..n : h[k] = g[k]
      BY <2>2
  <2>6. h[n + 1] = F[<<g[n], n + 1>>]
      BY <2>2
  <2> HIDE DEF h
  <2>7. ASSUME NEW k \in 1..(n + 1)
        PROVE  h[k] = F[<<h[k - 1], k>>]
    <3>1. CASE k = n + 1
      <4>1. k - 1 = n /\ n \in 0..n
          BY <2>2, <3>1
      <4> QED
          BY <2>5, <2>6, <3>1, <4>1
    <3>2. CASE k # n + 1
      <4>1. k \in 1..n /\ k \in 0..n /\ k - 1 \in 0..n
          BY <2>2, <3>2
      <4> QED
          BY <2>1, <2>5, <4>1
    <3> QED
        BY <3>1, <3>2
  <2>8. h[0] = a
      BY <2>1, <2>2, <2>5
  <2> QED
      BY <2>2, <2>4, <2>7, <2>8
<1> HIDE DEF S
<1>3. \A n \in 0..N : n \in S
    BY <1>1, <1>2, Induct
<1>4. N \in S
    BY <1>3
<1> QED
    BY <1>4 DEF S, CanRun

-----------------------------------------------------------------------------
(* The order of the rules. *)

(* Every rule is in the list, once, behind those of higher priority.       *)
LEMMA RulesInOrder ==
    ASSUME IsFiniteSet(DOMAIN rules), DOMAIN rules \subseteq Nat,
           \A i \in DOMAIN rules : rules[i].priority \in Nat
    PROVE  /\ Cardinality(DOMAIN rules) \in Nat
           /\ SortedRules \in [1 .. Cardinality(DOMAIN rules) -> {rules[i] : i \in DOMAIN rules}]
           /\ \A i \in DOMAIN rules : \E k \in DOMAIN SortedRules : SortedRules[k] = rules[i]
           /\ \A j, k \in DOMAIN SortedRules :
                 j < k => SortedRules[j].priority >= SortedRules[k].priority
<1> DEFINE D == DOMAIN rules
           n == Cardinality(D)
           before(i) == Cardinality(RulesBefore(i))
           rank == [i \in D |-> before(i)]
           id(k) == CHOOSE i \in D : before(i) = k - 1
<1>1. n \in Nat
    BY FS_CardinalityType
<1>2. ASSUME NEW i \in D
      PROVE  IsFiniteSet(RulesBefore(i)) /\ before(i) \in 0..(n - 1)
  <2>1. RulesBefore(i) \in SUBSET (D \ {i})
      BY DEF RulesBefore
  <2>2. IsFiniteSet(D \ {i}) /\ Cardinality(D \ {i}) = n - 1
      BY FS_RemoveElement
  <2>3. IsFiniteSet(RulesBefore(i)) /\ before(i) <= Cardinality(D \ {i})
      BY <2>1, <2>2, FS_Subset
  <2> QED
      BY <1>1, <2>2, <2>3, FS_CardinalityType
<1>3. ASSUME NEW i \in D, NEW j \in RulesBefore(i)
      PROVE  before(j) < before(i)
  <2>1. j \in D /\ j \notin RulesBefore(j)
      BY DEF RulesBefore
  <2>2. RulesBefore(j) \in SUBSET RulesBefore(i)
      BY <2>1 DEF RulesBefore
  <2>3. before(j) <= before(i) /\ before(j) # before(i)
      BY <1>2, <1>3, <2>1, <2>2, FS_Subset
  <2> QED
      BY <1>1, <1>2, <2>1, <2>3
<1>4. ASSUME NEW i \in D, NEW j \in D, i # j
      PROVE  before(i) # before(j)
  <2>1. i \in RulesBefore(j) \/ j \in RulesBefore(i)
      BY <1>4 DEF RulesBefore
  <2>2. before(i) < before(j) \/ before(j) < before(i)
      BY <1>3, <2>1
  <2> QED
      BY <1>1, <1>2, <2>2
<1>5. rank \in Surjection(D, 0..(n - 1))
  <2>1. rank \in Injection(D, 0..(n - 1))
      BY <1>2, <1>4 DEF Injection, IsInjective
  <2>2. IsFiniteSet(0..(n - 1)) /\ Cardinality(0..(n - 1)) = n
      BY <1>1, FS_Interval
  <2> HIDE DEF rank, D
  <2> QED
      BY <2>1, <2>2, FS_Injection
<1>6. ASSUME NEW k \in 1..n
      PROVE  \E i \in D : before(i) = k - 1
  <2>1. k - 1 \in 0..(n - 1)
      BY <1>1
  <2>2. \E i \in D : rank[i] = k - 1
    <3> HIDE DEF rank
    <3> QED
        BY <1>5, <2>1 DEF Surjection
  <2> QED
      BY <2>2
<1>7. SortedRules = [k \in 1..n |-> rules[id(k)]]
    BY DEF SortedRules
<1> HIDE DEF rank, D, n
<1>8. \A k \in 1..n : id(k) \in D /\ before(id(k)) = k - 1
    BY <1>6
<1>9. ASSUME NEW i \in D
      PROVE  \E k \in 1..n : id(k) = i
  <2>1. before(i) + 1 \in 1..n /\ (before(i) + 1) - 1 = before(i)
      BY <1>1, <1>2
  <2>2. id(before(i) + 1) \in D /\ before(id(before(i) + 1)) = before(i)
      BY <1>8, <2>1
  <2>3. id(before(i) + 1) = i
    <3> DEFINE j == id(before(i) + 1)
    <3> HIDE DEF j
    <3> QED
        BY <1>4, <2>2 DEF j
  <2> QED
      BY <2>1, <2>3
<1>10. ASSUME NEW j \in 1..n, NEW k \in 1..n, j < k
       PROVE  rules[id(j)].priority >= rules[id(k)].priority
  <2>1. id(j) \in D /\ id(k) \in D /\ before(id(j)) = j - 1 /\ before(id(k)) = k - 1
      BY <1>8
  <2>2. id(k) \notin RulesBefore(id(j))
      BY <1>1, <1>3, <1>10, <2>1
  <2>3. rules[id(j)].priority \in Nat /\ rules[id(k)].priority \in Nat
      BY <2>1 DEF D
  <2>4. ~ (rules[id(k)].priority > rules[id(j)].priority)
      BY <2>1, <2>2 DEF RulesBefore, D
  <2> HIDE DEF id
  <2> QED
      BY <2>3, <2>4
<1> HIDE DEF id, before
<1> QED
    BY <1>1, <1>7, <1>8, <1>9, <1>10 DEF D, n

-----------------------------------------------------------------------------
(* The parts of the type invariant; a rule refers to what exists, and the  *)
(* rules are finitely many, so that they can be put in order.              *)

AccountsOK == accounts \in [Accounts -> {"open", "closed", "gone"}]

RowsOK ==
    /\ DOMAIN rows \subseteq TxnIds /\ rows \in [DOMAIN rows -> Described]
    /\ \A t \in DOMAIN rows : accounts[Fact[t].account] # "gone"

LinksOK == links \subseteq Link /\ \A l \in links : {l.from, l.to} \subseteq DOMAIN rows

CategoriesOK ==
    DOMAIN categories \subseteq Categories /\ categories \in [DOMAIN categories -> Names]

PayeesOK ==
    /\ DOMAIN payees \subseteq Payees
    /\ payees \in [DOMAIN payees -> {a \in Accounts : accounts[a] # "gone"} \cup {None}]
    /\ \A p, q \in DOMAIN payees : payees[p] = payees[q] /\ payees[p] # None => p = q

RulesOK ==
    /\ DOMAIN rules \subseteq RuleIds /\ IsFiniteSet(DOMAIN rules)
    /\ rules \in [DOMAIN rules -> Rule]
    /\ \A i \in DOMAIN rules : MayRefer(rules[i])

LoadedOK == loaded = NoRules \/ loaded \in Seq(Rule)

RequestsOK == requests \in 0 .. MaxRequests

CatalogInv ==
    /\ AccountsOK /\ RowsOK /\ LinksOK /\ CategoriesOK /\ PayeesOK /\ RulesOK
    /\ LoadedOK /\ RequestsOK

LEMMA InvIsTyped == CatalogInv => CatalogTypeOK
<1> SUFFICES ASSUME CatalogInv PROVE CatalogTypeOK
    OBVIOUS
<1>1. \A r \in Range(rules) : MayRefer(r)
    BY DEF CatalogInv, RulesOK, Range
<1> QED
    BY <1>1 DEF CatalogInv, AccountsOK, RowsOK, LinksOK, CategoriesOK, PayeesOK, RulesOK,
                LoadedOK, RequestsOK, CatalogTypeOK, MayRefer

LEMMA InitTyped == CatalogInit => CatalogInv
<1> SUFFICES ASSUME CatalogInit PROVE CatalogInv
    OBVIOUS
<1> USE FirstAssumption, CatalogAssumption
<1>1. AccountsOK /\ LinksOK /\ CategoriesOK /\ LoadedOK /\ RequestsOK
    BY DEF CatalogInit, AccountsOK, LinksOK, CategoriesOK, LoadedOK, RequestsOK
<1>2. RowsOK
    BY DEF CatalogInit, RowsOK, Described
<1>3. PayeesOK
    BY DEF CatalogInit, PayeesOK
<1>4. RulesOK
    BY DEF CatalogInit, RulesOK, MayRefer, Rule
<1> QED
    BY <1>1, <1>2, <1>3, <1>4 DEF CatalogInv

-----------------------------------------------------------------------------
(* Requests that edit rows.                                                *)

(* Nothing but the rows changes, and of those only some of open accounts.  *)
Editing ==
    /\ requests' \in 0 .. MaxRequests
    /\ rows' \in [DOMAIN rows -> Described]
    /\ \A t \in DOMAIN rows : rows'[t] # rows[t] => Open(t)
    /\ UNCHANGED <<accounts, links, categories, payees, rules, loaded>>

LEMMA RequestCounts == ASSUME RequestsOK, Request PROVE requests' \in 0 .. MaxRequests
BY CatalogAssumption DEF RequestsOK, Request

LEMMA EditingTyped == ASSUME CatalogInv, Editing PROVE CatalogInv'
<1>1. DOMAIN rows' = DOMAIN rows
    BY DEF Editing
<1>2. RowsOK'
    BY <1>1 DEF CatalogInv, RowsOK, Editing, Described
<1>3. LinksOK'
    BY <1>1 DEF CatalogInv, LinksOK, Editing
<1> QED
    BY <1>2, <1>3 DEF CatalogInv, Editing, AccountsOK, CategoriesOK, PayeesOK, RulesOK, MayRefer,
                      LoadedOK, RequestsOK

(* What a row may be edited to.                                            *)
LEMMA EditsDescribe ==
    ASSUME NEW r \in Described
    PROVE  /\ \A c \in DOMAIN categories \cup {None} : [r EXCEPT !.category = c] \in Described
           /\ \A p \in DOMAIN payees \cup {None} : [r EXCEPT !.payee = p] \in Described
           /\ \A c \in DOMAIN categories \cup {None}, p \in DOMAIN payees \cup {None} :
                 [r EXCEPT !.category = c, !.payee = p] \in Described
           /\ \A T \in SUBSET Tags : [r EXCEPT !.tags = T] \in Described
BY DEF Described

LEMMA EditsEdit ==
    ASSUME CatalogInv, NEW S \in SUBSET DOMAIN rows,
           \/ \E c \in Categories \cup {None} : BulkCategorize(S, c)
           \/ \E p \in Payees : BulkUpdatePayee(S, p)
           \/ \E add, remove \in SUBSET Tags : BulkUpdateTags(S, add, remove)
    PROVE  Editing
<1>0. \A t \in DOMAIN rows : rows[t] \in Described
    BY DEF CatalogInv, RowsOK
<1>1. ASSUME NEW c \in Categories \cup {None}, BulkCategorize(S, c)
      PROVE  Editing
  <2>1. c \in DOMAIN categories \cup {None}
      BY <1>1 DEF BulkCategorize
  <2>2. /\ Request /\ UNCHANGED <<accounts, links, categories, payees, rules, loaded>>
        /\ rows' = [t \in DOMAIN rows |->
                      IF t \in S /\ Open(t) THEN [rows[t] EXCEPT !.category = c] ELSE rows[t]]
      BY <1>1 DEF BulkCategorize, Edited
  <2>3. requests' \in 0 .. MaxRequests
      BY <2>2, RequestCounts DEF CatalogInv
  <2>4. \A t \in DOMAIN rows : [rows[t] EXCEPT !.category = c] \in Described
      BY <1>0, <2>1, EditsDescribe
  <2> QED
      BY <1>0, <2>2, <2>3, <2>4 DEF Editing
<1>2. ASSUME NEW p \in Payees, BulkUpdatePayee(S, p)
      PROVE  Editing
  <2>1. p \in DOMAIN payees \cup {None}
      BY <1>2 DEF BulkUpdatePayee
  <2>2. /\ Request /\ UNCHANGED <<accounts, links, categories, payees, rules, loaded>>
        /\ rows' = [t \in DOMAIN rows |->
                      IF t \in S /\ Open(t) THEN [rows[t] EXCEPT !.payee = p] ELSE rows[t]]
      BY <1>2 DEF BulkUpdatePayee, Edited
  <2>3. requests' \in 0 .. MaxRequests
      BY <2>2, RequestCounts DEF CatalogInv
  <2>4. \A t \in DOMAIN rows : [rows[t] EXCEPT !.payee = p] \in Described
      BY <1>0, <2>1, EditsDescribe
  <2> QED
      BY <1>0, <2>2, <2>3, <2>4 DEF Editing
<1>3. ASSUME NEW add \in SUBSET Tags, NEW remove \in SUBSET Tags, BulkUpdateTags(S, add, remove)
      PROVE  Editing
  <2>2. /\ Request /\ UNCHANGED <<accounts, links, categories, payees, rules, loaded>>
        /\ rows' = [t \in DOMAIN rows |->
                      IF t \in S /\ Open(t)
                        THEN [rows[t] EXCEPT !.tags = (rows[t].tags \cup add) \ remove]
                        ELSE rows[t]]
      BY <1>3 DEF BulkUpdateTags, Edited
  <2>3. requests' \in 0 .. MaxRequests
      BY <2>2, RequestCounts DEF CatalogInv
  <2>4. \A t \in DOMAIN rows : [rows[t] EXCEPT !.tags = (rows[t].tags \cup add) \ remove] \in Described
    <3>1. \A t \in DOMAIN rows : (rows[t].tags \cup add) \ remove \in SUBSET Tags
        BY <1>0 DEF Described
    <3> QED
        BY <1>0, <3>1, EditsDescribe
  <2> QED
      BY <1>0, <2>2, <2>3, <2>4 DEF Editing
<1> QED
    BY <1>1, <1>2, <1>3

LEMMA UpdateEdits ==
    ASSUME CatalogInv, NEW t \in TxnIds, NEW c, NEW p, UpdateTransaction(t, c, p)
    PROVE  Editing
<1>0. \A u \in DOMAIN rows : rows[u] \in Described
    BY DEF CatalogInv, RowsOK
<1>1. c \in DOMAIN categories \cup {None} /\ p \in DOMAIN payees \cup {None}
    BY DEF UpdateTransaction
<1>2. /\ Request /\ UNCHANGED <<accounts, links, categories, payees, rules, loaded>>
      /\ rows' = [u \in DOMAIN rows |->
                    IF u \in {t} /\ Open(u) THEN [rows[u] EXCEPT !.category = c, !.payee = p]
                                           ELSE rows[u]]
    BY DEF UpdateTransaction, Edited
<1>3. requests' \in 0 .. MaxRequests
    BY <1>2, RequestCounts DEF CatalogInv
<1>4. \A u \in DOMAIN rows : [rows[u] EXCEPT !.category = c, !.payee = p] \in Described
    BY <1>0, <1>1, EditsDescribe
<1> QED
    BY <1>0, <1>2, <1>3, <1>4 DEF Editing

LEMMA RenameEdits ==
    ASSUME CatalogInv, NEW from \in Tags, NEW to \in Tags, RenameTag(from, to)
    PROVE  Editing
<1>0. \A u \in DOMAIN rows : rows[u] \in Described
    BY DEF CatalogInv, RowsOK
<1>2. /\ Request /\ UNCHANGED <<accounts, links, categories, payees, rules, loaded>>
      /\ rows' = [u \in DOMAIN rows |->
                    IF u \in DOMAIN rows /\ Open(u) THEN RenamedTag(from, to, rows[u])
                                                   ELSE rows[u]]
    BY DEF RenameTag, Edited
<1>3. requests' \in 0 .. MaxRequests
    BY <1>2, RequestCounts DEF CatalogInv
<1>4. \A r \in Described : RenamedTag(from, to, r) \in Described
  <2>1. \A r \in Described : (r.tags \ {from}) \cup {to} \in SUBSET Tags
      BY DEF Described
  <2> QED
      BY <2>1, EditsDescribe DEF RenamedTag
<1> QED
    BY <1>0, <1>2, <1>3, <1>4 DEF Editing

-----------------------------------------------------------------------------
(* Requests that make, delete and refuse rows. *)

(* What an edit is explained by.                                           *)
Explained(t) ==
    \/ Linking(t) \/ Unlinking(t) \/ Losing(t)
    \/ Open(t) /\ rows[t].category = None /\ loaded # NoRules /\ loaded' = NoRules
    \/ Open(t) /\ UNCHANGED <<accounts, links, categories, payees, rules, loaded>>

AllExplained == \A t \in DOMAIN rows \cap DOMAIN rows' : rows'[t] # rows[t] => Explained(t)

LEMMA EditingExplained == ASSUME Editing PROVE AllExplained
BY DEF Editing, AllExplained, Explained

(* The place AutoCategorize finds is that of the first rule that matches.  *)
LEMMA FirstMatch ==
    ASSUME NEW rs, Len(rs) \in Nat, NEW c
    PROVE  /\ AutoCategorize(rs, c) \in 0 .. Len(rs)
           /\ AutoCategorize(rs, c) # 0 =>
                 /\ RuleMatches(rs[AutoCategorize(rs, c)], c)
                 /\ \A j \in 1 .. (AutoCategorize(rs, c) - 1) : ~ RuleMatches(rs[j], c)
           /\ AutoCategorize(rs, c) = 0 => \A j \in 1 .. Len(rs) : ~ RuleMatches(rs[j], c)
<1> DEFINE I == {i \in 1 .. Len(rs) : RuleMatches(rs[i], c)}
           k == AutoCategorize(rs, c)
<1>1. k = IF I # {} THEN CHOOSE x \in I : \A y \in I : x <= y ELSE 0
    BY DEF AutoCategorize, SelectInSeq, Min
<1>2. CASE I = {}
    BY <1>1, <1>2
<1>3. CASE I # {}
  <2>1. I \subseteq Nat
      OBVIOUS
  <2>2. k \in I /\ \A y \in I : k <= y
    <3> HIDE DEF I, k
    <3>1. \E x \in I : \A y \in I : x <= y
        BY <1>3, <2>1, LeastOf
    <3> QED
        BY <1>1, <1>3, <3>1
  <2> HIDE DEF k
  <2>3. k \in 1 .. Len(rs) /\ RuleMatches(rs[k], c)
      BY <2>2
  <2>4. ASSUME NEW j \in 1 .. (k - 1)
        PROVE  ~ RuleMatches(rs[j], c)
    <3>1. j \in 1 .. Len(rs) /\ ~ (k <= j)
        BY <2>3
    <3>2. j \notin I
        BY <2>2, <3>1
    <3> QED
        BY <3>1, <3>2
  <2> QED
      BY <2>3, <2>4 DEF k
<1> QED
    BY <1>2, <1>3

LEMMA SortedRulesTyped ==
    ASSUME CatalogInv
    PROVE  /\ SortedRules \in Seq(Rule)
           /\ \A k \in 1 .. Len(SortedRules) : SortedRules[k] \in Rule /\ MayRefer(SortedRules[k])
<1>1. /\ DOMAIN rules \subseteq Nat /\ IsFiniteSet(DOMAIN rules)
      /\ \A i \in DOMAIN rules : rules[i] \in Rule /\ MayRefer(rules[i])
    BY CatalogAssumption DEF CatalogInv, RulesOK
<1>2. \A i \in DOMAIN rules : rules[i].priority \in Nat
    BY <1>1 DEF Rule
<1> DEFINE n == Cardinality(DOMAIN rules)
           R == {rules[i] : i \in DOMAIN rules}
<1>3. n \in Nat /\ SortedRules \in [1 .. n -> R]
    BY <1>1, <1>2, RulesInOrder
<1>4. \A r \in R : r \in Rule /\ MayRefer(r)
    BY <1>1
<1> HIDE DEF n, R
<1>5. SortedRules \in [1 .. n -> Rule] /\ \A k \in 1 .. n : SortedRules[k] \in R
    BY <1>3, <1>4
<1>6. SortedRules \in Seq(Rule) /\ Len(SortedRules) = n
    BY <1>3, <1>5
<1> QED
    BY <1>4, <1>5, <1>6

LEMMA CreateStep ==
    ASSUME CatalogInv, NEW t \in TxnIds, NEW c, NEW p, CreateTransaction(t, c, p)
    PROVE  CatalogInv' /\ AllExplained
<1> DEFINE rs == SortedRules
           k == IF c # None THEN 0 ELSE AutoCategorize(rs, Context(t, None, p, FALSE))
           x == [category |-> IF k = 0 THEN c ELSE rs[k].category,
                 payee |-> IF k = 0 \/ p # None THEN p ELSE rs[k].payee,
                 tags |-> IF k = 0 THEN {} ELSE rs[k].tags]
<1>1. /\ Request /\ t \notin DOMAIN rows /\ Open(t)
      /\ c \in DOMAIN categories \cup {None} /\ p \in DOMAIN payees \cup {None}
      /\ rows' = Adding(rows, t, x)
      /\ UNCHANGED <<accounts, links, categories, payees, rules, loaded>>
    BY DEF CreateTransaction
<1>2. /\ rs \in Seq(Rule) /\ Len(rs) \in Nat
      /\ \A j \in 1 .. Len(rs) : rs[j] \in Rule /\ MayRefer(rs[j])
    BY SortedRulesTyped
<1> HIDE DEF rs
<1> DEFINE found == AutoCategorize(rs, Context(t, None, p, FALSE))
<1>3. k \in 0 .. Len(rs)
  <2>1. found \in 0 .. Len(rs)
      BY <1>2, FirstMatch
  <2> HIDE DEF found
  <2>2. k = IF c # None THEN 0 ELSE found
      BY DEF found
  <2> HIDE DEF k
  <2> QED
      BY <1>2, <2>1, <2>2
<1>4. k # 0 => rs[k] \in Rule /\ MayRefer(rs[k])
  <2> HIDE DEF k
  <2> QED
      BY <1>2, <1>3
<1>5. x \in Described
  <2> HIDE DEF k, rs
  <2> QED
      BY <1>1, <1>4 DEF Described, Rule, MayRefer
<1> HIDE DEF x
<1>6. DOMAIN rows' = DOMAIN rows \cup {t} /\ rows'[t] = x
      /\ \A u \in DOMAIN rows : rows'[u] = rows[u]
    BY <1>1 DEF Adding
<1>7. rows' = [u \in DOMAIN rows' |-> rows'[u]]
    BY <1>1 DEF Adding
<1>8. \A u \in DOMAIN rows' : rows'[u] \in Described
    BY <1>5, <1>6 DEF CatalogInv, RowsOK
<1>9. RowsOK'
  <2>1. rows' \in [DOMAIN rows' -> Described] /\ Described' = Described
      BY <1>1, <1>7, <1>8 DEF Described
  <2>2. \A u \in DOMAIN rows' : accounts'[Fact[u].account] # "gone"
      BY <1>1, <1>6 DEF CatalogInv, RowsOK, Open
  <2>3. DOMAIN rows' \subseteq TxnIds
      BY <1>6 DEF CatalogInv, RowsOK
  <2> QED
      BY <2>1, <2>2, <2>3 DEF RowsOK
<1>10. LinksOK'
    BY <1>1, <1>6 DEF CatalogInv, LinksOK
<1>11. RequestsOK'
    BY <1>1, RequestCounts DEF CatalogInv, RequestsOK
<1>12. CatalogInv'
    BY <1>1, <1>9, <1>10, <1>11
    DEF CatalogInv, AccountsOK, CategoriesOK, PayeesOK, RulesOK, MayRefer, LoadedOK
<1>13. AllExplained
    BY <1>1, <1>6 DEF AllExplained
<1> QED
    BY <1>12, <1>13

LEMMA DeleteRowStep ==
    ASSUME CatalogInv, NEW t, DeleteTransaction(t)
    PROVE  CatalogInv' /\ AllExplained
<1>1. /\ Request /\ UNCHANGED <<accounts, categories, payees, rules, loaded>>
      /\ rows' = [u \in DOMAIN rows \ {t} |-> rows[u]]
      /\ links' = {l \in links : Ends(l) \cap {t} = {}}
    BY DEF DeleteTransaction, Without
<1>2. RowsOK'
    BY <1>1 DEF CatalogInv, RowsOK, Described
<1>3. LinksOK'
    BY <1>1 DEF CatalogInv, LinksOK, Ends
<1>4. RequestsOK'
    BY <1>1, RequestCounts DEF CatalogInv, RequestsOK
<1>5. CatalogInv'
    BY <1>1, <1>2, <1>3, <1>4
    DEF CatalogInv, AccountsOK, CategoriesOK, PayeesOK, RulesOK, MayRefer, LoadedOK
<1>6. AllExplained
    BY <1>1 DEF AllExplained
<1> QED
    BY <1>5, <1>6

LEMMA UnlinkStep ==
    ASSUME CatalogInv, NEW gone \in SUBSET links, Unlink(gone)
    PROVE  CatalogInv' /\ AllExplained
<1>1. /\ Request /\ UNCHANGED <<accounts, categories, payees, rules, loaded>>
      /\ links' = links \ gone
      /\ rows' = [t \in DOMAIN rows |->
                    IF t \in Undone(gone) THEN [rows[t] EXCEPT !.category = None, !.payee = None]
                                          ELSE rows[t]]
    BY DEF Unlink, Undescribed
<1>2. \A t \in DOMAIN rows : /\ rows[t] \in Described
                             /\ [rows[t] EXCEPT !.category = None, !.payee = None] \in Described
    BY EditsDescribe DEF CatalogInv, RowsOK
<1>3. RowsOK'
  <2>1. rows' \in [DOMAIN rows -> Described]
      BY <1>1, <1>2
  <2> QED
      BY <1>1, <2>1 DEF CatalogInv, RowsOK, Described
<1>4. LinksOK'
    BY <1>1 DEF CatalogInv, LinksOK
<1>5. RequestsOK'
    BY <1>1, RequestCounts DEF CatalogInv, RequestsOK
<1>6. CatalogInv'
    BY <1>1, <1>3, <1>4, <1>5
    DEF CatalogInv, AccountsOK, CategoriesOK, PayeesOK, RulesOK, MayRefer, LoadedOK
<1>7. ASSUME NEW t \in DOMAIN rows, rows'[t] # rows[t]
      PROVE  Unlinking(t)
  <2>1. /\ t \in Undone(gone)
        /\ rows'[t] = [rows[t] EXCEPT !.category = None, !.payee = None]
      BY <1>1, <1>7
  <2>2. rows'[t].category = None /\ rows'[t].payee = None
      BY <1>2, <2>1 DEF Described
  <2>3. links \ links' = gone /\ links' = links \ gone
      BY <1>1
  <2> QED
      BY <2>1, <2>2, <2>3 DEF Unlinking, Undone
<1>8. AllExplained
    BY <1>7 DEF AllExplained, Explained
<1> QED
    BY <1>6, <1>8

-----------------------------------------------------------------------------
(* Requests about accounts, payees, categories and rules. *)

(* What refers to what exists still does when more exists.                 *)
LEMMA MoreExists ==
    ASSUME CatalogInv, DOMAIN categories \subseteq DOMAIN categories',
           DOMAIN payees \subseteq DOMAIN payees',
           \A a \in Accounts : accounts[a] # "gone" => accounts'[a] # "gone",
           UNCHANGED <<rows, links, rules, loaded>>
    PROVE  RowsOK' /\ LinksOK' /\ RulesOK' /\ LoadedOK' /\ AllExplained
<1>1. \A t \in TxnIds : Fact[t].account \in Accounts
    BY CatalogAssumption
<1>2. RowsOK'
    BY <1>1 DEF CatalogInv, RowsOK, Described
<1>3. \A i \in DOMAIN rules : rules[i].account \in Accounts \cup {None}
    BY DEF CatalogInv, RulesOK, Rule
<1>4. RulesOK'
    BY <1>3 DEF CatalogInv, RulesOK, MayRefer
<1> QED
    BY <1>2, <1>4 DEF CatalogInv, LinksOK, LoadedOK, AllExplained

LEMMA UpdateAccountStep ==
    ASSUME CatalogInv, NEW a \in Accounts, NEW closed \in BOOLEAN, UpdateAccount(a, closed)
    PROVE  CatalogInv' /\ AllExplained
<1>1. /\ Request /\ UNCHANGED <<rows, links, categories, payees, rules, loaded>>
      /\ accounts[a] # "gone"
      /\ accounts' = [accounts EXCEPT ![a] = IF closed THEN "closed" ELSE "open"]
    BY DEF UpdateAccount
<1>2. /\ AccountsOK'
      /\ \A b \in Accounts : accounts[b] # "gone" <=> accounts'[b] # "gone"
    BY <1>1 DEF CatalogInv, AccountsOK
<1>3. RowsOK' /\ LinksOK' /\ RulesOK' /\ LoadedOK' /\ AllExplained
    BY <1>1, <1>2, MoreExists
<1>4. PayeesOK'
    BY <1>1, <1>2 DEF CatalogInv, PayeesOK
<1>5. RequestsOK'
    BY <1>1, RequestCounts DEF CatalogInv, RequestsOK
<1> QED
    BY <1>1, <1>2, <1>3, <1>4, <1>5 DEF CatalogInv, CategoriesOK

LEMMA PayeeStep ==
    ASSUME CatalogInv, NEW p \in Payees, NEW a \in Accounts \cup {None},
           CreatePayee(p, a) \/ UpdatePayee(p, a)
    PROVE  CatalogInv' /\ AllExplained
<1>1. /\ Request /\ UNCHANGED <<accounts, rows, links, categories, rules, loaded>>
      /\ MayStandFor(p, a)
    BY DEF CreatePayee, UpdatePayee
<1>2. /\ DOMAIN payees' = DOMAIN payees \cup {p} /\ payees' = [q \in DOMAIN payees' |-> payees'[q]]
      /\ payees'[p] = a /\ \A q \in DOMAIN payees \ {p} : payees'[q] = payees[q]
    BY DEF CreatePayee, UpdatePayee, Adding, CatalogInv, PayeesOK
<1>3. PayeesOK'
  <2> DEFINE V == {b \in Accounts : accounts[b] # "gone"} \cup {None}
  <2>1. a \in V /\ \A q \in DOMAIN payees \ {p} : payees[q] \in V
      BY <1>1 DEF CatalogInv, PayeesOK, MayStandFor
  <2>2. payees' \in [DOMAIN payees' -> V]
      BY <1>2, <2>1
  <2>3. ASSUME NEW q \in DOMAIN payees', NEW r \in DOMAIN payees',
               payees'[q] = payees'[r], payees'[q] # None
        PROVE  q = r
      BY <1>1, <1>2, <2>3 DEF CatalogInv, PayeesOK, MayStandFor
  <2>4. DOMAIN payees' \subseteq Payees
      BY <1>2 DEF CatalogInv, PayeesOK
  <2> QED
      BY <1>1, <2>2, <2>3, <2>4 DEF PayeesOK
<1>4. RowsOK' /\ LinksOK' /\ RulesOK' /\ LoadedOK' /\ AllExplained
    BY <1>1, <1>2, MoreExists
<1>5. RequestsOK'
    BY <1>1, RequestCounts DEF CatalogInv, RequestsOK
<1> QED
    BY <1>1, <1>3, <1>4, <1>5 DEF CatalogInv, AccountsOK, CategoriesOK

LEMMA CategoryStep ==
    ASSUME CatalogInv, NEW c \in Categories, NEW n \in Names,
           CreateCategory(c, n) \/ UpdateCategory(c, n)
    PROVE  CatalogInv' /\ AllExplained
<1>1. /\ Request /\ UNCHANGED <<accounts, rows, links, payees, rules, loaded>>
    BY DEF CreateCategory, UpdateCategory
<1>2. /\ DOMAIN categories' = DOMAIN categories \cup {c}
      /\ categories' \in [DOMAIN categories' -> Names]
    BY DEF CreateCategory, UpdateCategory, Adding, CatalogInv, CategoriesOK
<1>3. CategoriesOK'
    BY <1>2 DEF CatalogInv, CategoriesOK
<1>4. RowsOK' /\ LinksOK' /\ RulesOK' /\ LoadedOK' /\ AllExplained
    BY <1>1, <1>2, MoreExists
<1>5. RequestsOK'
    BY <1>1, RequestCounts DEF CatalogInv, RequestsOK
<1> QED
    BY <1>1, <1>3, <1>4, <1>5 DEF CatalogInv, AccountsOK, PayeesOK

LEMMA RuleStep ==
    ASSUME CatalogInv, NEW i \in RuleIds,
           DeleteRule(i) \/ \E r \in RulesSent : CreateRule(i, r) \/ UpdateRule(i, r)
    PROVE  CatalogInv' /\ AllExplained
<1>1. Request /\ UNCHANGED <<accounts, rows, links, categories, payees, loaded>>
    BY DEF DeleteRule, CreateRule, UpdateRule
<1>2. RulesOK'
  <2>1. CASE DeleteRule(i)
    <3>1. rules' = [j \in DOMAIN rules \ {i} |-> rules[j]]
        BY <2>1 DEF DeleteRule
    <3>2. IsFiniteSet(DOMAIN rules')
        BY <3>1, FS_Subset DEF CatalogInv, RulesOK
    <3> QED
        BY <1>1, <3>1, <3>2 DEF CatalogInv, RulesOK, MayRefer
  <2>2. ASSUME NEW r \in RulesSent, CreateRule(i, r) \/ UpdateRule(i, r)
        PROVE  RulesOK'
    <3>1. r \in Rule /\ MayRefer(r)
        BY <2>2, CatalogAssumption DEF CreateRule, UpdateRule
    <3>2. /\ DOMAIN rules' = DOMAIN rules \cup {i} /\ rules' = [j \in DOMAIN rules' |-> rules'[j]]
          /\ rules'[i] = r /\ \A j \in DOMAIN rules \ {i} : rules'[j] = rules[j]
        BY <2>2 DEF CreateRule, UpdateRule, Adding, CatalogInv, RulesOK
    <3>3. IsFiniteSet(DOMAIN rules')
        BY <3>2, FS_AddElement DEF CatalogInv, RulesOK
    <3>4. \A j \in DOMAIN rules' : rules'[j] \in Rule /\ MayRefer(rules'[j])
        BY <3>1, <3>2 DEF CatalogInv, RulesOK
    <3>5. rules' \in [DOMAIN rules' -> Rule] /\ \A j \in DOMAIN rules' : MayRefer(rules[j])'
        BY <1>1, <3>2, <3>4 DEF MayRefer
    <3> QED
        BY <3>2, <3>3, <3>5 DEF CatalogInv, RulesOK
  <2> QED
      BY <2>1, <2>2
<1>3. RequestsOK'
    BY <1>1, RequestCounts DEF CatalogInv, RequestsOK
<1>4. RowsOK' /\ LinksOK' /\ LoadedOK' /\ AllExplained
    BY <1>1 DEF CatalogInv, RowsOK, Described, LinksOK, LoadedOK, AllExplained
<1> QED
    BY <1>1, <1>2, <1>3, <1>4 DEF CatalogInv, AccountsOK, CategoriesOK, PayeesOK

LEMMA LoadStep ==
    ASSUME CatalogInv, LoadRules
    PROVE  CatalogInv' /\ AllExplained
<1>1. /\ Request /\ UNCHANGED <<accounts, rows, links, categories, payees, rules>>
      /\ loaded' = SortedRules
    BY DEF LoadRules
<1>2. LoadedOK'
    BY <1>1, SortedRulesTyped DEF LoadedOK
<1>3. RequestsOK'
    BY <1>1, RequestCounts DEF CatalogInv, RequestsOK
<1> QED
    BY <1>1, <1>2, <1>3 DEF CatalogInv, AccountsOK, RowsOK, Described, LinksOK, CategoriesOK,
                            PayeesOK, RulesOK, MayRefer, AllExplained

(* What a category, a payee or an account that goes is replaced by: NULL.  *)
LEMMA DeleteCategoryStep ==
    ASSUME CatalogInv, NEW c \in Categories, DeleteCategory(c)
    PROVE  CatalogInv' /\ AllExplained
<1> DEFINE kept(d) == IF d = c THEN None ELSE d
<1>1. /\ Request /\ UNCHANGED <<accounts, links, payees, loaded>>
      /\ categories' = [d \in DOMAIN categories \ {c} |-> categories[d]]
      /\ rows' = [t \in DOMAIN rows |-> [rows[t] EXCEPT !.category = kept(rows[t].category)]]
      /\ rules' = [i \in {j \in DOMAIN rules : rules[j].category # c} |->
                     [rules[i] EXCEPT !.filterCategory = kept(rules[i].filterCategory)]]
    BY DEF DeleteCategory
<1>2. CategoriesOK' /\ DOMAIN categories' = DOMAIN categories \ {c}
    BY <1>1 DEF CatalogInv, CategoriesOK
<1>3. \A t \in DOMAIN rows : rows[t] \in Described
    BY DEF CatalogInv, RowsOK
<1>4. ASSUME NEW t \in DOMAIN rows
      PROVE  /\ rows'[t] \in Described'
             /\ rows'[t].tags = rows[t].tags /\ rows'[t].payee = rows[t].payee
             /\ rows'[t].category = kept(rows[t].category)
    BY <1>1, <1>2, <1>3 DEF Described
<1>5. RowsOK'
  <2>1. DOMAIN rows' = DOMAIN rows /\ rows' = [t \in DOMAIN rows' |-> rows'[t]]
      BY <1>1
  <2>2. rows' \in [DOMAIN rows' -> Described']
      BY <1>4, <2>1
  <2> QED
      BY <1>1, <2>1, <2>2 DEF CatalogInv, RowsOK
<1>6. RulesOK'
  <2>1. DOMAIN rules' = {j \in DOMAIN rules : rules[j].category # c}
        /\ rules' = [i \in DOMAIN rules' |-> rules'[i]]
      BY <1>1
  <2>2. IsFiniteSet(DOMAIN rules')
      BY <2>1, FS_Subset DEF CatalogInv, RulesOK
  <2>3. ASSUME NEW i \in DOMAIN rules'
        PROVE  rules'[i] \in Rule /\ MayRefer(rules[i])'
    <3>1. i \in DOMAIN rules /\ rules[i] \in Rule /\ MayRefer(rules[i]) /\ rules[i].category # c
        BY <2>1 DEF CatalogInv, RulesOK
    <3>2. rules'[i] = [rules[i] EXCEPT !.filterCategory = kept(rules[i].filterCategory)]
        BY <1>1, <2>1
    <3>3. /\ rules'[i] \in Rule /\ rules'[i].filterCategory = kept(rules[i].filterCategory)
          /\ rules'[i].category = rules[i].category /\ rules'[i].payee = rules[i].payee
          /\ rules'[i].filterPayee = rules[i].filterPayee
          /\ rules'[i].account = rules[i].account
        BY <3>1, <3>2 DEF Rule
    <3> QED
        BY <1>1, <1>2, <3>1, <3>3 DEF MayRefer
  <2> QED
      BY <2>1, <2>2, <2>3 DEF CatalogInv, RulesOK
<1>7. RequestsOK'
    BY <1>1, RequestCounts DEF CatalogInv, RequestsOK
<1>8. LinksOK'
    BY <1>1 DEF CatalogInv, LinksOK
<1>9. \A t \in DOMAIN rows : Losing(t)
    BY <1>2, <1>4 DEF Losing
<1> QED
    BY <1>1, <1>2, <1>5, <1>6, <1>7, <1>8, <1>9
    DEF CatalogInv, AccountsOK, PayeesOK, LoadedOK, AllExplained, Explained

Rewritten(r, p, q, a) == [r EXCEPT !.payee = p, !.filterPayee = q, !.account = a]

LEMMA RewrittenRule ==
    ASSUME NEW r \in Rule, NEW p \in Payees \cup {None}, NEW q \in Payees \cup {None},
           NEW a \in Accounts \cup {None}
    PROVE  Rewritten(r, p, q, a) \in Rule
<1> DEFINE y == [r EXCEPT !.payee = p]
           z == [y EXCEPT !.filterPayee = q]
<1>1. Rewritten(r, p, q, a) = [z EXCEPT !.account = a]
    BY Zenon DEF Rewritten
<1>2. y \in Rule
    BY DEF Rule
<1> HIDE DEF y
<1>3. z \in Rule
    BY <1>2 DEF Rule
<1> HIDE DEF z
<1> QED
    BY <1>1, <1>3 DEF Rule

LEMMA ForgottenStep ==
    ASSUME CatalogInv, NEW gonePayees, NEW goneAccounts, Forgotten(gonePayees, goneAccounts),
           accounts' = [a \in Accounts |-> IF a \in goneAccounts THEN "gone" ELSE accounts[a]],
           UNCHANGED categories
    PROVE  /\ AccountsOK' /\ RowsOK' /\ PayeesOK' /\ RulesOK'
           /\ DOMAIN rows' = {t \in DOMAIN rows : Fact[t].account \notin goneAccounts}
           /\ \A t \in DOMAIN rows' : Losing(t)
<1> DEFINE kept(p) == IF p \in gonePayees THEN None ELSE p
           left(a) == IF a \in goneAccounts THEN None ELSE a
<1>1. /\ payees' = [p \in DOMAIN payees \ gonePayees |-> left(payees[p])]
      /\ rules' = [i \in DOMAIN rules |->
                     [rules[i] EXCEPT !.payee = kept(rules[i].payee),
                                      !.filterPayee = kept(rules[i].filterPayee),
                                      !.account = left(rules[i].account)]]
      /\ rows' = [t \in {u \in DOMAIN rows : Fact[u].account \notin goneAccounts} |->
                    [rows[t] EXCEPT !.payee = kept(rows[t].payee)]]
    BY DEF Forgotten
<1>2. None \notin Categories \cup Payees \cup Accounts
    BY CatalogAssumption
<1>3. AccountsOK'
    BY DEF CatalogInv, AccountsOK
<1>4. PayeesOK' /\ DOMAIN payees' = DOMAIN payees \ gonePayees
  <2>1. DOMAIN payees' = DOMAIN payees \ gonePayees
      BY <1>1
  <2>2. ASSUME NEW p \in DOMAIN payees'
        PROVE  /\ payees'[p] = left(payees[p])
               /\ payees'[p] \in {a \in Accounts : accounts'[a] # "gone"} \cup {None}
      BY <1>1, <2>1 DEF CatalogInv, PayeesOK
  <2>3. payees' = [p \in DOMAIN payees' |-> payees'[p]]
      BY <1>1
  <2>4. payees' \in [DOMAIN payees' -> {a \in Accounts : accounts'[a] # "gone"} \cup {None}]
      BY <2>2, <2>3
  <2>5. ASSUME NEW p \in DOMAIN payees', NEW q \in DOMAIN payees',
               payees'[p] = payees'[q], payees'[p] # None
        PROVE  p = q
      BY <2>1, <2>2, <2>5 DEF CatalogInv, PayeesOK
  <2> QED
      BY <2>1, <2>4, <2>5 DEF CatalogInv, PayeesOK
<1>5. DOMAIN rows' = {t \in DOMAIN rows : Fact[t].account \notin goneAccounts}
    BY <1>1
<1>6. ASSUME NEW t \in DOMAIN rows'
      PROVE  /\ t \in DOMAIN rows /\ rows[t] \in Described
             /\ rows'[t] \in Described'
             /\ rows'[t].tags = rows[t].tags /\ rows'[t].category = rows[t].category
             /\ rows'[t].payee = kept(rows[t].payee)
  <2>1. t \in DOMAIN rows /\ rows[t] \in Described
      BY <1>5 DEF CatalogInv, RowsOK
  <2>2. rows'[t] = [rows[t] EXCEPT !.payee = kept(rows[t].payee)]
      BY <1>1, <1>5
  <2> QED
      BY <1>4, <2>1, <2>2 DEF Described
<1>7. RowsOK'
  <2>1. rows' = [t \in DOMAIN rows' |-> rows'[t]]
      BY <1>1
  <2>2. rows' \in [DOMAIN rows' -> Described']
      BY <1>6, <2>1
  <2>3. \A t \in TxnIds : Fact[t].account \in Accounts
      BY CatalogAssumption
  <2>4. \A t \in DOMAIN rows' : accounts'[Fact[t].account] # "gone"
      BY <1>5, <2>3 DEF CatalogInv, RowsOK
  <2> QED
      BY <1>5, <2>2, <2>4 DEF CatalogInv, RowsOK
<1>8. RulesOK'
  <2>1. DOMAIN rules' = DOMAIN rules /\ rules' = [i \in DOMAIN rules' |-> rules'[i]]
      BY <1>1
  <2>2. ASSUME NEW i \in DOMAIN rules
        PROVE  rules'[i] \in Rule /\ MayRefer(rules[i])'
    <3>1. rules[i] \in Rule /\ MayRefer(rules[i])
        BY DEF CatalogInv, RulesOK
    <3>2. rules'[i] = Rewritten(rules[i], kept(rules[i].payee), kept(rules[i].filterPayee),
                                left(rules[i].account))
        BY <1>1 DEF Rewritten
    <3>3. /\ rules[i].payee \in Payees \cup {None} /\ rules[i].filterPayee \in Payees \cup {None}
          /\ rules[i].account \in Accounts \cup {None}
        BY <3>1 DEF Rule
    <3>9. /\ kept(rules[i].payee) \in Payees \cup {None}
          /\ kept(rules[i].filterPayee) \in Payees \cup {None}
          /\ left(rules[i].account) \in Accounts \cup {None}
        BY <3>3
    <3> DEFINE p == kept(rules[i].payee)
               q == kept(rules[i].filterPayee)
               b == left(rules[i].account)
               r == rules[i]
    <3>10. r \in Rule /\ rules'[i] = Rewritten(r, p, q, b)
        BY <3>1, <3>2
    <3> HIDE DEF p, q, b, r
    <3>12. p \in Payees \cup {None} /\ q \in Payees \cup {None} /\ b \in Accounts \cup {None}
        BY <3>9 DEF p, q, b
    <3>11. Rewritten(r, p, q, b) \in Rule
        BY <3>10, <3>12, RewrittenRule
    <3>13. /\ Rewritten(r, p, q, b).payee = p /\ Rewritten(r, p, q, b).filterPayee = q
           /\ Rewritten(r, p, q, b).account = b
           /\ Rewritten(r, p, q, b).category = r.category
           /\ Rewritten(r, p, q, b).filterCategory = r.filterCategory
        BY <3>10 DEF Rewritten, Rule
    <3>4. /\ rules'[i] \in Rule
          /\ rules'[i].payee = kept(rules[i].payee)
          /\ rules'[i].filterPayee = kept(rules[i].filterPayee)
          /\ rules'[i].account = left(rules[i].account)
          /\ rules'[i].category = rules[i].category
          /\ rules'[i].filterCategory = rules[i].filterCategory
        BY <3>10, <3>11, <3>13 DEF p, q, b, r
    <3>5. {kept(rules[i].payee), kept(rules[i].filterPayee)} \subseteq DOMAIN payees' \cup {None}
        BY <1>4, <3>1 DEF MayRefer
    <3>6. left(rules[i].account) # None => accounts'[left(rules[i].account)] # "gone"
        BY <1>2, <3>1, <3>3 DEF MayRefer
    <3> HIDE DEF kept, left
    <3>7. /\ {rules'[i].payee, rules'[i].filterPayee} \subseteq DOMAIN payees' \cup {None}
          /\ rules'[i].account # None => accounts'[rules'[i].account] # "gone"
        BY <3>4, <3>5, <3>6
    <3>8. /\ rules'[i].category \in DOMAIN categories'
          /\ rules'[i].filterCategory \in DOMAIN categories' \cup {None}
        BY <3>1, <3>4 DEF MayRefer
    <3> QED
        BY <3>4, <3>7, <3>8 DEF MayRefer
  <2> QED
      BY <2>1, <2>2 DEF CatalogInv, RulesOK
<1>9. \A t \in DOMAIN rows' : Losing(t)
    BY <1>4, <1>6 DEF Losing
<1> QED
    BY <1>3, <1>4, <1>5, <1>7, <1>8, <1>9

LEMMA DeletePayeeStep ==
    ASSUME CatalogInv, NEW p \in Payees, DeletePayee(p)
    PROVE  CatalogInv' /\ AllExplained
<1>1. /\ Request /\ UNCHANGED <<accounts, links, categories, loaded>> /\ Forgotten({p}, {})
    BY DEF DeletePayee
<1>2. accounts' = [a \in Accounts |-> IF a \in {} THEN "gone" ELSE accounts[a]]
    BY <1>1 DEF CatalogInv, AccountsOK
<1>3. /\ AccountsOK' /\ RowsOK' /\ PayeesOK' /\ RulesOK'
      /\ DOMAIN rows' = {t \in DOMAIN rows : Fact[t].account \notin {}}
      /\ \A t \in DOMAIN rows' : Losing(t)
    BY <1>1, <1>2, ForgottenStep
<1>4. LinksOK'
    BY <1>1, <1>3 DEF CatalogInv, LinksOK
<1>5. RequestsOK'
    BY <1>1, RequestCounts DEF CatalogInv, RequestsOK
<1> QED
    BY <1>1, <1>3, <1>4, <1>5
    DEF CatalogInv, CategoriesOK, LoadedOK, AllExplained, Explained

LEMMA DeleteAccountStep ==
    ASSUME CatalogInv, NEW a \in Accounts, DeleteAccount(a)
    PROVE  CatalogInv' /\ AllExplained
<1> DEFINE stood == {p \in DOMAIN payees : payees[p] = a}
<1>1. /\ Request /\ UNCHANGED <<categories, loaded>> /\ Forgotten(stood, {a})
      /\ accounts' = [accounts EXCEPT ![a] = "gone"]
      /\ links' = {l \in links : \A t \in Ends(l) : Fact[t].account # a}
    BY DEF DeleteAccount
<1> HIDE DEF stood
<1>2. accounts' = [b \in Accounts |-> IF b \in {a} THEN "gone" ELSE accounts[b]]
    BY <1>1 DEF CatalogInv, AccountsOK
<1>3. /\ AccountsOK' /\ RowsOK' /\ PayeesOK' /\ RulesOK'
      /\ DOMAIN rows' = {t \in DOMAIN rows : Fact[t].account \notin {a}}
      /\ \A t \in DOMAIN rows' : Losing(t)
    BY <1>1, <1>2, ForgottenStep
<1>4. LinksOK'
    BY <1>1, <1>3 DEF CatalogInv, LinksOK, Ends
<1>5. RequestsOK'
    BY <1>1, RequestCounts DEF CatalogInv, RequestsOK
<1> QED
    BY <1>1, <1>3, <1>4, <1>5
    DEF CatalogInv, CategoriesOK, LoadedOK, AllExplained, Explained

-----------------------------------------------------------------------------
(* Links. *)

(* What a batch has come to: links were added, and a row that is described *)
(* otherwise is on a transfer among them.                                  *)
LinkedStates ==
    {s \in [links : SUBSET Link, rows : [DOMAIN rows -> Described]] :
        /\ links \subseteq s.links
        /\ \A l \in s.links : {l.from, l.to} \subseteq DOMAIN rows
        /\ \A t \in DOMAIN rows : s.rows[t] # rows[t] =>
              \E l \in s.links \ links : l.type = "transfer" /\ t \in Ends(l)}

LEMMA PayeeOfTyped == ASSUME NEW a PROVE PayeeOf(a) \in DOMAIN payees \cup {None}
BY DEF PayeeOf

LEMMA AsTransferTyped ==
    ASSUME NEW rs \in [DOMAIN rows -> Described], NEW l, NEW c \in DOMAIN categories \cup {None}
    PROVE  /\ AsTransfer(rs, l, c) \in [DOMAIN rows -> Described]
           /\ \A t \in DOMAIN rows : t \notin Ends(l) => AsTransfer(rs, l, c)[t] = rs[t]
<1> DEFINE x == AsTransfer(rs, l, c)
           p == PayeeOf(Fact[l.to].account)
           q == PayeeOf(Fact[l.from].account)
<1>1. p \in DOMAIN payees \cup {None} /\ q \in DOMAIN payees \cup {None}
    BY PayeeOfTyped
<1>2. x = [t \in DOMAIN rows |->
             IF t = l.from THEN [rs[t] EXCEPT !.category = c, !.payee = p]
             ELSE IF t = l.to THEN [rs[t] EXCEPT !.category = c, !.payee = q] ELSE rs[t]]
    BY DEF AsTransfer
<1> HIDE DEF x, p, q
<1>3. \A t \in DOMAIN rows : /\ rs[t] \in Described
                             /\ [rs[t] EXCEPT !.category = c, !.payee = p] \in Described
                             /\ [rs[t] EXCEPT !.category = c, !.payee = q] \in Described
    BY <1>1, EditsDescribe
<1>4. x \in [DOMAIN rows -> Described]
    BY <1>2, <1>3
<1>5. \A t \in DOMAIN rows : t \notin Ends(l) => x[t] = rs[t]
    BY <1>2 DEF Ends
<1> QED
    BY <1>4, <1>5 DEF x

LEMMA LinkedOnceStays ==
    ASSUME NEW s \in LinkedStates, NEW l \in Link, Ends(l) \subseteq DOMAIN rows,
           NEW c \in DOMAIN categories \cup {None}
    PROVE  LinkedOnce(s, l, c) \in LinkedStates
<1>1. CASE l \in s.links
    BY <1>1 DEF LinkedOnce
<1>2. CASE l \notin s.links
  <2> DEFINE U == IF l.type = "transfer" THEN AsTransfer(s.rows, l, c) ELSE s.rows
  <2>1. LinkedOnce(s, l, c) = [links |-> s.links \cup {l}, rows |-> U]
      BY <1>2 DEF LinkedOnce
  <2>2. s.rows \in [DOMAIN rows -> Described] /\ s.links \in SUBSET Link /\ links \subseteq s.links
      BY DEF LinkedStates
  <2>3. /\ U \in [DOMAIN rows -> Described]
        /\ \A t \in DOMAIN rows :
              U[t] # s.rows[t] => l.type = "transfer" /\ t \in Ends(l)
      BY <2>2, AsTransferTyped
  <2> HIDE DEF U
  <2>4. \A t \in DOMAIN rows : U[t] # rows[t] =>
           \E m \in (s.links \cup {l}) \ links : m.type = "transfer" /\ t \in Ends(m)
      BY <1>2, <2>2, <2>3 DEF LinkedStates
  <2>5. \A m \in s.links \cup {l} : {m.from, m.to} \subseteq DOMAIN rows
      BY DEF LinkedStates, Ends
  <2> DEFINE x == [links |-> s.links \cup {l}, rows |-> U]
  <2>6. /\ x \in [links : SUBSET Link, rows : [DOMAIN rows -> Described]]
        /\ x.links = s.links \cup {l} /\ x.rows = U
      BY <2>2, <2>3
  <2> HIDE DEF x
  <2>7. x \in LinkedStates
      BY <2>2, <2>4, <2>5, <2>6 DEF LinkedStates
  <2> QED
      BY <2>1, <2>7 DEF x
<1> QED
    BY <1>1, <1>2

LEMMA LinkedAllStays ==
    ASSUME CatalogInv, NEW batch \in Seq(Link),
           \A l \in Range(batch) : Ends(l) \subseteq DOMAIN rows,
           NEW c \in DOMAIN categories \cup {None}
    PROVE  LinkedAll(batch, c) \in LinkedStates
<1> DEFINE N == Len(batch)
           first == [links |-> links, rows |-> rows]
           Solves(h) == h = [k \in 0..N |-> IF k = 0 THEN first
                                            ELSE LinkedOnce(h[k - 1], batch[k], c)]
           G == CHOOSE h : Solves(h)
           F == [x \in LinkedStates \X (1..N) |-> LinkedOnce(x[1], batch[x[2]], c)]
<1>1. LinkedAll(batch, c) = G[N]
    BY DEF LinkedAll
<1>2. N \in Nat /\ \A k \in 1..N : batch[k] \in Link /\ Ends(batch[k]) \subseteq DOMAIN rows
    BY DEF Range
<1>3. first \in LinkedStates
  <2>1. first \in [links : SUBSET Link, rows : [DOMAIN rows -> Described]]
      BY DEF CatalogInv, LinksOK, RowsOK
  <2>2. first.links = links /\ first.rows = rows
      OBVIOUS
  <2> HIDE DEF first
  <2> QED
      BY <2>1, <2>2 DEF CatalogInv, LinksOK, LinkedStates
<1> HIDE DEF N, first
<1>4. F \in [LinkedStates \X (1..N) -> LinkedStates]
  <2>1. ASSUME NEW x \in LinkedStates \X (1..N)
        PROVE  LinkedOnce(x[1], batch[x[2]], c) \in LinkedStates
      BY <1>2, LinkedOnceStays
  <2> QED
      BY <2>1
<1>5. PICK g \in [0..N -> LinkedStates] :
         g[0] = first /\ \A k \in 1..N : g[k] = F[<<g[k - 1], k>>]
  <2> HIDE DEF F
  <2> DEFINE V == LinkedStates
  <2>1. first \in V /\ N \in Nat /\ F \in [V \X (1..N) -> V]
      BY <1>2, <1>3, <1>4
  <2> HIDE DEF V
  <2>2. CanRun(V, first, N, F)
      BY <2>1, RunExists
  <2> QED
      BY <2>2 DEF V, CanRun
<1>6. ASSUME NEW k \in 1..N
      PROVE  g[k] = LinkedOnce(g[k - 1], batch[k], c)
  <2>1. k - 1 \in 0..N
      BY <1>2
  <2>2. g[k - 1] \in LinkedStates
      BY <2>1
  <2>3. <<g[k - 1], k>> \in LinkedStates \X (1..N)
      BY <2>2
  <2> QED
      BY <1>5, <2>3
<1> HIDE DEF F
<1>7. Solves(g)
  <2>1. \A k \in 0..N : k = 0 \/ k \in 1..N
      BY <1>2
  <2>2. \A k \in 0..N : g[k] = IF k = 0 THEN first ELSE LinkedOnce(g[k - 1], batch[k], c)
      BY <1>5, <1>6, <2>1
  <2> QED
      BY <2>2
<1>8. Solves(G)
    BY <1>7
<1> HIDE DEF G
<1>9. /\ \A k \in 1..N : G[k] = LinkedOnce(G[k - 1], batch[k], c)
      /\ G[0] = first
    BY <1>2, <1>8
<1> DEFINE T == {k \in 0..N : G[k] \in LinkedStates}
<1>10. 0 \in T
    BY <1>2, <1>3, <1>9
<1>11. ASSUME NEW k \in 0..(N - 1), k \in T
       PROVE  k + 1 \in T
  <2>1. k + 1 \in 1..N /\ k + 1 \in 0..N /\ (k + 1) - 1 = k
      BY <1>2
  <2>2. G[k + 1] = LinkedOnce(G[k], batch[k + 1], c)
      BY <1>9, <2>1
  <2>3. G[k] \in LinkedStates
      BY <1>11
  <2>4. G[k + 1] \in LinkedStates
      BY <1>2, <2>1, <2>2, <2>3, LinkedOnceStays
  <2> QED
      BY <2>1, <2>4
<1> HIDE DEF T
<1>12. \A k \in 0..N : k \in T
    BY <1>2, <1>10, <1>11, Induct
<1>13. N \in T
    BY <1>2, <1>12
<1> QED
    BY <1>1, <1>13 DEF T

LEMMA LinksStep ==
    ASSUME CatalogInv, NEW batch \in Seq(Link), Links(batch)
    PROVE  CatalogInv' /\ AllExplained
<1>1. /\ Request /\ UNCHANGED <<accounts, categories, payees, rules, loaded>>
      /\ \A l \in Range(batch) : Ends(l) \subseteq DOMAIN rows
    BY DEF Links
<1>2. PICK c \in TransferCategories :
         links' = LinkedAll(batch, c).links /\ rows' = LinkedAll(batch, c).rows
    BY DEF Links
<1>3. c \in DOMAIN categories \cup {None}
    BY DEF TransferCategories
<1>4. LinkedAll(batch, c) \in LinkedStates
    BY <1>1, <1>3, LinkedAllStays
<1>5. /\ links' \in SUBSET Link /\ rows' \in [DOMAIN rows -> Described]
      /\ \A l \in links' : {l.from, l.to} \subseteq DOMAIN rows
      /\ \A t \in DOMAIN rows : rows'[t] # rows[t] => Linking(t)
    BY <1>2, <1>4 DEF LinkedStates, Linking
<1>6. DOMAIN rows' = DOMAIN rows
    BY <1>5
<1>7. RowsOK' /\ LinksOK'
    BY <1>1, <1>5, <1>6 DEF CatalogInv, RowsOK, LinksOK, Described
<1>8. RequestsOK'
    BY <1>1, RequestCounts DEF CatalogInv, RequestsOK
<1>9. AllExplained
    BY <1>5 DEF AllExplained, Explained
<1> QED
    BY <1>1, <1>7, <1>8, <1>9
    DEF CatalogInv, AccountsOK, CategoriesOK, PayeesOK, RulesOK, MayRefer, LoadedOK

-----------------------------------------------------------------------------
(* Applying the rules. *)

LooseRow ==
    [category : Categories \cup {None}, payee : Payees \cup {None}, tags : SUBSET Tags]

(* What an apply has come to: as long as no rule that hit named what is    *)
(* gone, every row refers to what exists.                                  *)
AppliedStates ==
    {s \in [ok : BOOLEAN, rows : [DOMAIN rows -> LooseRow]] :
        s.ok => s.rows \in [DOMAIN rows -> Described]}

(* What rule r gives a row.                                                *)
Given(x, r) ==
    [category |-> r.category, payee |-> IF r.payee = None THEN x.payee ELSE r.payee,
     tags |-> x.tags \cup r.tags]

FilledBy(s, r) == [t \in DOMAIN s.rows |->
                     IF Fills(s.rows, r, t) THEN Given(s.rows[t], r) ELSE s.rows[t]]

Stale(s, r) ==
    /\ \E t \in DOMAIN s.rows : Fills(s.rows, r, t)
    /\ r.category \notin DOMAIN categories \/ (r.payee # None /\ r.payee \notin DOMAIN payees)

LEMMA ApplyRuleIs ==
    ASSUME NEW s, NEW r
    PROVE  ApplyRule(s, r) = [ok |-> s.ok /\ ~ Stale(s, r), rows |-> FilledBy(s, r)]
<1> DEFINE hit == {t \in DOMAIN s.rows : Fills(s.rows, r, t)}
           gone == r.category \notin DOMAIN categories
                   \/ (r.payee # None /\ r.payee \notin DOMAIN payees)
           U == [t \in DOMAIN s.rows |->
                   IF t \notin hit THEN s.rows[t]
                   ELSE [category |-> r.category,
                         payee |-> IF r.payee = None THEN s.rows[t].payee ELSE r.payee,
                         tags |-> s.rows[t].tags \cup r.tags]]
<1>1. ApplyRule(s, r) = [ok |-> s.ok /\ ~ (gone /\ hit # {}), rows |-> U]
    BY DEF ApplyRule
<1>2. U = FilledBy(s, r)
    BY DEF FilledBy, Given
<1>3. (s.ok /\ ~ (gone /\ hit # {})) <=> (s.ok /\ ~ Stale(s, r))
    BY DEF Stale
<1>4. (s.ok /\ ~ (gone /\ hit # {})) = (s.ok /\ ~ Stale(s, r))
    BY Zenon, <1>3
<1> HIDE DEF hit, gone, U
<1> QED
    BY <1>1, <1>2, <1>4

LEMMA ApplyRuleStays ==
    ASSUME CatalogInv, NEW s \in AppliedStates, NEW r \in Rule
    PROVE  ApplyRule(s, r) \in AppliedStates
<1> DEFINE ok == s.ok /\ ~ Stale(s, r)
           U == FilledBy(s, r)
           x == [ok |-> ok, rows |-> U]
<1>1. ApplyRule(s, r) = x
    BY ApplyRuleIs
<1>2. s.rows \in [DOMAIN rows -> LooseRow] /\ DOMAIN s.rows = DOMAIN rows
    BY DEF AppliedStates
<1>3. U = [t \in DOMAIN rows |->
             IF Fills(s.rows, r, t) THEN Given(s.rows[t], r) ELSE s.rows[t]]
    BY <1>2 DEF FilledBy
<1>4. ASSUME NEW t \in DOMAIN rows
      PROVE  Given(s.rows[t], r) \in LooseRow
  <2>1. s.rows[t] \in LooseRow
      BY <1>2
  <2> QED
      BY <2>1 DEF Given, LooseRow, Rule
<1>5. U \in [DOMAIN rows -> LooseRow]
    BY <1>2, <1>3, <1>4
<1>6. ASSUME ok
      PROVE  U \in [DOMAIN rows -> Described]
  <2>1. s.rows \in [DOMAIN rows -> Described]
      BY <1>6 DEF AppliedStates
  <2>2. ASSUME NEW t \in DOMAIN rows, Fills(s.rows, r, t)
        PROVE  Given(s.rows[t], r) \in Described
    <3>1. r.category \in DOMAIN categories /\ r.payee \in DOMAIN payees \cup {None}
        BY <1>2, <1>6, <2>2 DEF Stale
    <3>2. s.rows[t] \in Described /\ r.tags \in SUBSET Tags
        BY <2>1 DEF Rule
    <3> QED
        BY <3>1, <3>2 DEF Given, Described
  <2> HIDE DEF U
  <2> QED
      BY <1>3, <2>1, <2>2
<1> HIDE DEF U
<1>7. ok \in BOOLEAN
    OBVIOUS
<1> HIDE DEF ok
<1>8. x \in [ok : BOOLEAN, rows : [DOMAIN rows -> LooseRow]]
    BY <1>5, <1>7
<1>9. x.ok => x.rows \in [DOMAIN rows -> Described]
    BY <1>6
<1> HIDE DEF x
<1>10. x \in AppliedStates
    BY <1>8, <1>9 DEF AppliedStates
<1> QED
    BY <1>1, <1>10

LEMMA AppliedRuns ==
    ASSUME CatalogInv, loaded \in Seq(Rule)
    PROVE  /\ AppliedTo[0] = [ok |-> TRUE, rows |-> rows]
           /\ \A k \in 1..Len(loaded) : AppliedTo[k] = ApplyRule(AppliedTo[k - 1], loaded[k])
           /\ \A k \in 0..Len(loaded) : AppliedTo[k] \in AppliedStates
<1> DEFINE N == Len(loaded)
           first == [ok |-> TRUE, rows |-> rows]
           Solves(h) == h = [k \in 0..N |-> IF k = 0 THEN first
                                            ELSE ApplyRule(h[k - 1], loaded[k])]
           G == CHOOSE h : Solves(h)
           F == [x \in AppliedStates \X (1..N) |-> ApplyRule(x[1], loaded[x[2]])]
<1>1. AppliedTo = G
    BY DEF AppliedTo
<1>2. N \in Nat /\ \A k \in 1..N : loaded[k] \in Rule
    OBVIOUS
<1>3. first \in AppliedStates
  <2>1. rows \in [DOMAIN rows -> Described]
      BY DEF CatalogInv, RowsOK
  <2>2. \A t \in DOMAIN rows : rows[t] \in LooseRow
      BY <2>1 DEF CatalogInv, CategoriesOK, PayeesOK, Described, LooseRow
  <2>3. first \in [ok : BOOLEAN, rows : [DOMAIN rows -> LooseRow]] /\ first.rows = rows
      BY <2>1, <2>2
  <2> HIDE DEF first
  <2> QED
      BY <2>1, <2>3 DEF AppliedStates
<1> HIDE DEF N, first
<1>4. F \in [AppliedStates \X (1..N) -> AppliedStates]
  <2>1. ASSUME NEW x \in AppliedStates \X (1..N)
        PROVE  ApplyRule(x[1], loaded[x[2]]) \in AppliedStates
      BY <1>2, ApplyRuleStays
  <2> QED
      BY <2>1
<1>5. PICK g \in [0..N -> AppliedStates] :
         g[0] = first /\ \A k \in 1..N : g[k] = F[<<g[k - 1], k>>]
  <2> HIDE DEF F
  <2> DEFINE V == AppliedStates
  <2>1. first \in V /\ N \in Nat /\ F \in [V \X (1..N) -> V]
      BY <1>2, <1>3, <1>4
  <2> HIDE DEF V
  <2>2. CanRun(V, first, N, F)
      BY <2>1, RunExists
  <2> QED
      BY <2>2 DEF V, CanRun
<1>6. ASSUME NEW k \in 1..N
      PROVE  g[k] = ApplyRule(g[k - 1], loaded[k])
  <2>1. k - 1 \in 0..N
      BY <1>2
  <2>2. g[k - 1] \in AppliedStates
      BY <2>1
  <2>3. <<g[k - 1], k>> \in AppliedStates \X (1..N)
      BY <2>2
  <2> QED
      BY <1>5, <2>3
<1> HIDE DEF F
<1>7. Solves(g)
  <2>1. \A k \in 0..N : k = 0 \/ k \in 1..N
      BY <1>2
  <2>2. \A k \in 0..N : g[k] = IF k = 0 THEN first ELSE ApplyRule(g[k - 1], loaded[k])
      BY <1>5, <1>6, <2>1
  <2> QED
      BY <2>2
<1>8. Solves(G)
    BY <1>7
<1> HIDE DEF G
<1>9. /\ \A k \in 1..N : G[k] = ApplyRule(G[k - 1], loaded[k])
      /\ G[0] = first
    BY <1>2, <1>8
<1> DEFINE T == {k \in 0..N : G[k] \in AppliedStates}
<1>10. 0 \in T
    BY <1>2, <1>3, <1>9
<1>11. ASSUME NEW k \in 0..(N - 1), k \in T
       PROVE  k + 1 \in T
  <2>1. k + 1 \in 1..N /\ k + 1 \in 0..N /\ (k + 1) - 1 = k
      BY <1>2
  <2>2. G[k + 1] = ApplyRule(G[k], loaded[k + 1])
      BY <1>9, <2>1
  <2>3. G[k] \in AppliedStates
      BY <1>11
  <2>4. G[k + 1] \in AppliedStates
      BY <1>2, <2>1, <2>2, <2>3, ApplyRuleStays
  <2> QED
      BY <2>1, <2>4
<1> HIDE DEF T
<1>12. \A k \in 0..N : k \in T
    BY <1>2, <1>10, <1>11, Induct
<1>13. \A k \in 0..N : G[k] \in AppliedStates
    BY <1>12 DEF T
<1> QED
    BY <1>1, <1>9, <1>13 DEF N, first

(* A row after the first k rules: as it was, or as the first rule that     *)
(* matches it made it.                                                     *)
FirstOf(t) == AutoCategorize(loaded, Current(t))

Settled(t, k) ==
    IF rows[t].category # None \/ ~ Open(t) \/ FirstOf(t) = 0 \/ FirstOf(t) > k THEN rows[t]
    ELSE Given(rows[t], loaded[FirstOf(t)])

LEMMA SettledStep ==
    ASSUME CatalogInv, loaded \in Seq(Rule), NEW k \in Nat, k + 1 \in 1..Len(loaded),
           NEW t \in DOMAIN rows, NEW rs, rs[t] = Settled(t, k)
    PROVE  (IF Fills(rs, loaded[k + 1], t) THEN Given(rs[t], loaded[k + 1]) ELSE rs[t])
              = Settled(t, k + 1)
<1> DEFINE m == FirstOf(t)
           r == loaded[k + 1]
<1>1. /\ m \in 0..Len(loaded)
      /\ m # 0 => /\ RuleMatches(loaded[m], Current(t))
                  /\ \A j \in 1..(m - 1) : ~ RuleMatches(loaded[j], Current(t))
      /\ m = 0 => \A j \in 1..Len(loaded) : ~ RuleMatches(loaded[j], Current(t))
  <2>1. Len(loaded) \in Nat
      OBVIOUS
  <2> QED
      BY <2>1, FirstMatch DEF FirstOf
<1> HIDE DEF m, r
<1>2. Settled(t, k) = IF rows[t].category # None \/ ~ Open(t) \/ m = 0 \/ m > k THEN rows[t]
                      ELSE Given(rows[t], loaded[m])
    BY DEF Settled, m
<1>3. Settled(t, k + 1) = IF rows[t].category # None \/ ~ Open(t) \/ m = 0 \/ m > k + 1
                          THEN rows[t] ELSE Given(rows[t], loaded[m])
    BY DEF Settled, m
<1>4. Fills(rs, r, t) <=> /\ rs[t].category = None /\ Open(t)
                          /\ RuleMatches(r, Context(t, rs[t].category, rs[t].payee, LinkedIn(links, t)))
    BY DEF Fills
<1>5. rs[t] = rows[t] =>
         (Fills(rs, r, t) <=> rows[t].category = None /\ Open(t) /\ RuleMatches(r, Current(t)))
    BY <1>4 DEF Current
<1>6. CASE rows[t].category # None \/ ~ Open(t)
    BY <1>2, <1>3, <1>5, <1>6 DEF r
<1>7. CASE rows[t].category = None /\ Open(t)
  <2>1. CASE m = 0
    <3>1. ~ RuleMatches(r, Current(t))
        BY <1>1, <2>1 DEF r
    <3> QED
        BY <1>2, <1>3, <1>5, <2>1, <3>1 DEF r
  <2>2. CASE m # 0 /\ m <= k
    <3>1. loaded[m] \in Rule
        BY <1>1, <2>2
    <3>2. rs[t] = Given(rows[t], loaded[m])
        BY <1>1, <1>2, <1>7, <2>2
    <3>3. rs[t].category # None
        BY <3>1, <3>2, CatalogAssumption DEF Given, Rule
    <3>4. ~ (m > k + 1)
        BY <1>1, <2>2
    <3> QED
        BY <1>3, <1>4, <1>7, <2>2, <3>2, <3>3, <3>4 DEF r
  <2>3. CASE m = k + 1
    <3>1. RuleMatches(r, Current(t))
        BY <1>1, <2>3 DEF r
    <3>2. rs[t] = rows[t]
        BY <1>2, <2>3
    <3> QED
        BY <1>3, <1>5, <1>7, <2>3, <3>1, <3>2 DEF r
  <2>4. CASE m > k + 1
    <3>1. k + 1 \in 1..(m - 1)
        BY <1>1, <2>4
    <3>2. ~ RuleMatches(r, Current(t))
        BY <1>1, <2>4, <3>1 DEF r
    <3>3. rs[t] = rows[t]
        BY <1>1, <1>2, <2>4
    <3> QED
        BY <1>3, <1>5, <2>4, <3>2, <3>3 DEF r
  <2> QED
      BY <1>1, <2>1, <2>2, <2>3, <2>4
<1> QED
    BY <1>6, <1>7

LEMMA AppliedIsSettled ==
    ASSUME CatalogInv, loaded \in Seq(Rule)
    PROVE  \A t \in DOMAIN rows : Applied.rows[t] = Settled(t, Len(loaded))
<1> SUFFICES ASSUME NEW t \in DOMAIN rows
             PROVE  Applied.rows[t] = Settled(t, Len(loaded))
    OBVIOUS
<1> DEFINE N == Len(loaded)
           T == {k \in 0..N : AppliedTo[k].rows[t] = Settled(t, k)}
<1>1. /\ AppliedTo[0] = [ok |-> TRUE, rows |-> rows]
      /\ \A k \in 1..N : AppliedTo[k] = ApplyRule(AppliedTo[k - 1], loaded[k])
      /\ \A k \in 0..N : AppliedTo[k] \in AppliedStates
    BY AppliedRuns
<1>2. N \in Nat
    OBVIOUS
<1>3. 0 \in T
  <2>1. FirstOf(t) \in 0..N
      BY <1>2, FirstMatch DEF FirstOf
  <2>2. Settled(t, 0) = rows[t]
      BY <1>2, <2>1 DEF Settled
  <2>3. AppliedTo[0].rows = rows
      BY <1>1
  <2>4. AppliedTo[0].rows[t] = Settled(t, 0)
      BY <2>2, <2>3
  <2> QED
      BY <1>2, <2>4
<1>4. ASSUME NEW k \in 0..(N - 1), k \in T
      PROVE  k + 1 \in T
  <2> DEFINE s == AppliedTo[k]
  <2>1. k \in Nat /\ k \in 0..N /\ k + 1 \in 1..N /\ k + 1 \in 0..N /\ (k + 1) - 1 = k
      BY <1>2
  <2>2. AppliedTo[k + 1] = ApplyRule(s, loaded[k + 1])
      BY <1>1, <2>1
  <2>3. DOMAIN s.rows = DOMAIN rows
      BY <1>1, <2>1 DEF AppliedStates
  <2>4. s.rows[t] = Settled(t, k)
      BY <1>4
  <2> HIDE DEF s
  <2>5. AppliedTo[k + 1].rows = FilledBy(s, loaded[k + 1])
      BY <2>2, ApplyRuleIs
  <2>6. AppliedTo[k + 1].rows[t] =
           IF Fills(s.rows, loaded[k + 1], t) THEN Given(s.rows[t], loaded[k + 1]) ELSE s.rows[t]
      BY <2>3, <2>5 DEF FilledBy
  <2>7. AppliedTo[k + 1].rows[t] = Settled(t, k + 1)
      BY <2>1, <2>4, <2>6, SettledStep
  <2> QED
      BY <2>1, <2>7
<1> HIDE DEF T
<1>5. \A k \in 0..N : k \in T
    BY <1>2, <1>3, <1>4, Induct
<1>6. N \in T
    BY <1>2, <1>5
<1> QED
    BY <1>6 DEF T, Applied

(* What a step of the apply does to each row of the ledger.                *)
FirstWins ==
    \A t \in DOMAIN rows :
       LET k == AutoCategorize(loaded, Current(t))
       IN  rows'[t] = IF rows[t].category # None \/ ~ Open(t) \/ k = 0 THEN rows[t]
                      ELSE [category |-> loaded[k].category,
                            payee |-> IF loaded[k].payee = None THEN rows[t].payee
                                      ELSE loaded[k].payee,
                            tags |-> rows[t].tags \cup loaded[k].tags]

LEMMA ApplyStep ==
    ASSUME CatalogInv, ApplyRules
    PROVE  /\ CatalogInv' /\ AllExplained
           /\ rows' # rows => FirstWins
<1>1. /\ loaded # NoRules /\ loaded' = NoRules
      /\ rows' = IF Applied.ok THEN Applied.rows ELSE rows
      /\ UNCHANGED <<accounts, links, categories, payees, rules, requests>>
    BY DEF ApplyRules
<1>2. loaded \in Seq(Rule)
    BY <1>1 DEF CatalogInv, LoadedOK
<1>3. Applied \in AppliedStates
  <2>1. Len(loaded) \in 0..Len(loaded)
      BY <1>2
  <2> QED
      BY <1>2, <2>1, AppliedRuns DEF Applied
<1>4. rows' \in [DOMAIN rows -> Described]
    BY <1>1, <1>3 DEF AppliedStates, CatalogInv, RowsOK
<1>5. RowsOK' /\ LinksOK'
  <2>1. DOMAIN rows' = DOMAIN rows /\ Described' = Described
      BY <1>1, <1>4 DEF Described
  <2> QED
      BY <1>1, <1>4, <2>1 DEF CatalogInv, RowsOK, LinksOK
<1>6. CatalogInv'
    BY <1>1, <1>5
    DEF CatalogInv, AccountsOK, CategoriesOK, PayeesOK, RulesOK, MayRefer, LoadedOK, RequestsOK
<1>7. ASSUME rows' # rows, NEW t \in DOMAIN rows
      PROVE  rows'[t] = IF rows[t].category # None \/ ~ Open(t) \/ FirstOf(t) = 0 THEN rows[t]
                        ELSE Given(rows[t], loaded[FirstOf(t)])
  <2>1. rows'[t] = Settled(t, Len(loaded))
      BY <1>1, <1>2, <1>7, AppliedIsSettled
  <2>2. Len(loaded) \in Nat
      BY <1>2
  <2>3. FirstOf(t) \in 0..Len(loaded)
      BY <2>2, FirstMatch DEF FirstOf
  <2>4. ~ (FirstOf(t) > Len(loaded))
      BY <2>2, <2>3
  <2> QED
      BY <2>1, <2>4 DEF Settled
<1>8. rows' # rows => FirstWins
    BY <1>7 DEF FirstWins, FirstOf, Given
<1>9. AllExplained
  <2> SUFFICES ASSUME NEW t \in DOMAIN rows, rows'[t] # rows[t]
               PROVE  Explained(t)
      BY DEF AllExplained
  <2>1. rows' # rows
      OBVIOUS
  <2>2. Open(t) /\ rows[t].category = None
      BY <1>7, <2>1
  <2> QED
      BY <1>1, <2>2 DEF Explained
<1> QED
    BY <1>6, <1>8, <1>9

-----------------------------------------------------------------------------
(* The theorems. *)

LEMMA CatalogStep ==
    ASSUME CatalogInv, CatalogNext
    PROVE  CatalogInv' /\ AllExplained
<1>1. CASE LinkRequests
  <2>1. ASSUME NEW l \in Link, CreateLink(l)
        PROVE  CatalogInv' /\ AllExplained
    <3>1. <<l>> \in Seq(Link) /\ Links(<<l>>)
        BY <2>1 DEF CreateLink
    <3> QED
        BY <3>1, LinksStep
  <2>2. ASSUME NEW l \in Link, DeleteLink(l)
        PROVE  CatalogInv' /\ AllExplained
    <3>1. {l} \in SUBSET links /\ Unlink({l})
        BY <2>2 DEF DeleteLink
    <3> QED
        BY <3>1, UnlinkStep
  <2>3. ASSUME NEW b \in Batches, BulkCreateLinks(b)
        PROVE  CatalogInv' /\ AllExplained
    <3>1. b \in Seq(Link) /\ Links(b)
        BY <2>3, CatalogAssumption DEF BulkCreateLinks
    <3> QED
        BY <3>1, LinksStep
  <2>4. ASSUME NEW gone \in SUBSET links, BulkDeleteLinks(gone)
        PROVE  CatalogInv' /\ AllExplained
    <3>1. Unlink(gone)
        BY <2>4 DEF BulkDeleteLinks
    <3> QED
        BY <3>1, UnlinkStep
  <2> QED
      BY <1>1, <2>1, <2>2, <2>3, <2>4 DEF LinkRequests
<1>2. CASE RowRequests
  <2>1. ASSUME Editing
        PROVE  CatalogInv' /\ AllExplained
      BY <2>1, EditingTyped, EditingExplained
  <2>2. ASSUME NEW t \in TxnIds, NEW c \in Categories \cup {None}, NEW p \in Payees \cup {None},
               CreateTransaction(t, c, p) \/ UpdateTransaction(t, c, p)
        PROVE  CatalogInv' /\ AllExplained
      BY <2>1, <2>2, CreateStep, UpdateEdits
  <2>3. ASSUME NEW S \in SUBSET DOMAIN rows,
               \/ \E c \in Categories \cup {None} : BulkCategorize(S, c)
               \/ \E p \in Payees : BulkUpdatePayee(S, p)
               \/ \E add, remove \in SUBSET Tags : BulkUpdateTags(S, add, remove)
        PROVE  CatalogInv' /\ AllExplained
      BY <2>1, <2>3, EditsEdit
  <2>4. ASSUME NEW from \in Tags, NEW to \in Tags, RenameTag(from, to)
        PROVE  CatalogInv' /\ AllExplained
      BY <2>1, <2>4, RenameEdits
  <2>5. ASSUME NEW t \in TxnIds, DeleteTransaction(t)
        PROVE  CatalogInv' /\ AllExplained
      BY <2>5, DeleteRowStep
  <2> QED
      BY <1>2, <2>2, <2>3, <2>4, <2>5 DEF RowRequests
<1>3. CASE VocabularyRequests
  <2>1. ASSUME NEW a \in Accounts,
               DeleteAccount(a) \/ \E closed \in BOOLEAN : UpdateAccount(a, closed)
        PROVE  CatalogInv' /\ AllExplained
      BY <2>1, DeleteAccountStep, UpdateAccountStep
  <2>2. ASSUME NEW p \in Payees,
               \/ DeletePayee(p)
               \/ \E a \in Accounts \cup {None} : CreatePayee(p, a) \/ UpdatePayee(p, a)
        PROVE  CatalogInv' /\ AllExplained
      BY <2>2, DeletePayeeStep, PayeeStep
  <2>3. ASSUME NEW c \in Categories,
               \/ DeleteCategory(c)
               \/ \E n \in Names : CreateCategory(c, n) \/ UpdateCategory(c, n)
        PROVE  CatalogInv' /\ AllExplained
      BY <2>3, DeleteCategoryStep, CategoryStep
  <2> QED
      BY <1>3, <2>1, <2>2, <2>3 DEF VocabularyRequests
<1>4. CASE RuleRequests
  <2>1. ASSUME NEW i \in RuleIds,
               DeleteRule(i) \/ \E r \in RulesSent : CreateRule(i, r) \/ UpdateRule(i, r)
        PROVE  CatalogInv' /\ AllExplained
      BY <2>1, RuleStep
  <2> QED
      BY <1>4, <2>1, LoadStep, ApplyStep DEF RuleRequests
<1> QED
    BY <1>1, <1>2, <1>3, <1>4 DEF CatalogNext

LEMMA CatalogStutters ==
    ASSUME CatalogInv, UNCHANGED catalog
    PROVE  CatalogInv'
BY DEF catalog, CatalogInv, AccountsOK, RowsOK, Described, LinksOK, CategoriesOK, PayeesOK,
       RulesOK, MayRefer, LoadedOK, RequestsOK

(* Rows, rules, payees and links refer to what exists, whatever was        *)
(* deleted, and at most one payee stands for an account.                   *)
THEOREM ReferencesHold == CatalogSpec => []CatalogTypeOK
<1>1. CatalogInv /\ [CatalogNext]_catalog => CatalogInv'
    BY CatalogStep, CatalogStutters
<1> QED
    BY <1>1, InitTyped, InvIsTyped, PTL DEF CatalogSpec

(* Only the apply of rules ends the load it began.                         *)
LEMMA OnlyApplyEnds ==
    ASSUME CatalogInv, CatalogNext, loaded # NoRules, loaded' = NoRules
    PROVE  ApplyRules
<1>1. ~ UNCHANGED loaded
    OBVIOUS
<1>2. CASE LinkRequests
    BY <1>1, <1>2 DEF LinkRequests, CreateLink, DeleteLink, BulkCreateLinks, BulkDeleteLinks,
                      Links, Unlink
<1>3. CASE RowRequests
    BY <1>1, <1>3 DEF RowRequests, CreateTransaction, UpdateTransaction, BulkCategorize,
                      BulkUpdatePayee, BulkUpdateTags, RenameTag, DeleteTransaction, Edited
<1>4. CASE VocabularyRequests
    BY <1>1, <1>4 DEF VocabularyRequests, DeleteAccount, UpdateAccount, DeletePayee, CreatePayee,
                      UpdatePayee, DeleteCategory, CreateCategory, UpdateCategory
<1>5. CASE RuleRequests
    BY <1>1, <1>5 DEF RuleRequests, DeleteRule, CreateRule, UpdateRule, LoadRules
<1> QED
    BY <1>2, <1>3, <1>4, <1>5 DEF CatalogNext

(* An apply gives an uncategorized row of an open account what the first   *)
(* rule that matches it sets, and leaves every other row alone, however    *)
(* many rules there are and whatever was deleted since they were loaded.   *)
THEOREM FirstMatchingRuleWins == CatalogSpec => FirstRuleWins
<1>1. CatalogInv /\ [CatalogNext]_catalog => CatalogInv'
    BY CatalogStep, CatalogStutters
<1>2. ASSUME CatalogInv, [CatalogNext]_catalog,
             loaded # NoRules /\ loaded' = NoRules /\ rows' # rows
      PROVE  FirstWins
  <2>1. ~ UNCHANGED catalog
      BY <1>2 DEF catalog
  <2>2. ApplyRules
      BY <1>2, <2>1, OnlyApplyEnds
  <2> QED
      BY <1>2, <2>2, ApplyStep
<1>3. CatalogInv /\ [CatalogNext]_catalog
         => [loaded # NoRules /\ loaded' = NoRules /\ rows' # rows => FirstWins]_catalog
    BY <1>2
<1>4. CatalogSpec
         => [][loaded # NoRules /\ loaded' = NoRules /\ rows' # rows => FirstWins]_catalog
    BY <1>1, <1>3, InitTyped, PTL DEF CatalogSpec
<1> QED
    BY <1>4 DEF FirstRuleWins, FirstWins

(* A row that a user described changes for a cause: a request about it, a  *)
(* transfer linked or unlinked, what it referred to gone, or, where it had *)
(* no category, an apply.                                                  *)
THEOREM DescriptionsChangeForCause == CatalogSpec => EditsHaveCause
<1>1. CatalogInv /\ [CatalogNext]_catalog => CatalogInv'
    BY CatalogStep, CatalogStutters
<1>2. CatalogInv /\ [CatalogNext]_catalog => [AllExplained]_catalog
    BY CatalogStep
<1>3. CatalogSpec => [][AllExplained]_catalog
    BY <1>1, <1>2, InitTyped, PTL DEF CatalogSpec
<1> QED
    BY <1>3 DEF EditsHaveCause, AllExplained, Explained

-----------------------------------------------------------------------------
(* Sums of amounts over finite sets. *)

(* Induction over the subsets of a finite set, over a set of them.         *)
LEMMA InductSets ==
    ASSUME NEW S, IsFiniteSet(S), NEW T, {} \in T,
           \A A \in SUBSET S : \A x \in S \ A : A \in T => A \cup {x} \in T
    PROVE  S \in T
<1> DEFINE N == Cardinality(S)
<1>1. N \in Nat /\ ExistsBijection(1..N, S)
    BY FS_CardinalityType
<1>2. PICK f \in [1..N -> S] : /\ \A s \in S : \E n \in 1..N : f[n] = s
                              /\ \A m, n \in 1..N : f[m] = f[n] => m = n
    BY <1>1 DEF ExistsBijection, Bijection, Injection, Surjection, IsInjective
<1> DEFINE First(n) == {f[k] : k \in 1..n}
           K == {n \in 0..N : First(n) \in T}
<1> HIDE DEF N
<1>3. 0 \in K
  <2>1. First(0) = {}
      OBVIOUS
  <2> QED
      BY <1>1, <2>1
<1>4. ASSUME NEW n \in 0..(N - 1), n \in K
      PROVE  n + 1 \in K
  <2>1. n + 1 \in 0..N /\ n + 1 \in 1..N /\ n \in Nat
      BY <1>1
  <2>2. \A k : k \in 1..(n + 1) <=> k \in 1..n \/ k = n + 1
      BY <2>1
  <2>3. \A k \in 1..n : k \in 1..N /\ k # n + 1
      BY <1>1, <2>1
  <2>4. First(n + 1) = First(n) \cup {f[n + 1]}
      BY <2>2
  <2>5. First(n) \in SUBSET S /\ f[n + 1] \in S \ First(n)
      BY <1>2, <2>1, <2>3
  <2>6. First(n) \in T
      BY <1>4
  <2> HIDE DEF First
  <2>7. First(n + 1) \in T
      BY <2>4, <2>5, <2>6
  <2> QED
      BY <2>1, <2>7
<1> HIDE DEF K
<1>5. \A n \in 0..N : n \in K
    BY <1>1, <1>3, <1>4, Induct
<1>6. First(N) = S
    BY <1>2
<1> QED
    BY <1>1, <1>5, <1>6 DEF K

(* Amounts add up in any order. *)
LEMMA PlusIs ==
    /\ Nothing \in Amount
    /\ \A x, y \in Amount : Plus(x, y) \in Amount /\ Plus(x, y) = Plus(y, x)
    /\ \A x \in Amount : Plus(x, Nothing) = x /\ Plus(Nothing, x) = x
    /\ \A x, y, z \in Amount : /\ Plus(x, Plus(y, z)) = Plus(y, Plus(x, z))
                              /\ Plus(Plus(x, y), z) = Plus(x, Plus(y, z))
<1>1. Nothing \in Amount
    BY DEF Nothing, Amount
<1>2. ASSUME NEW x \in Amount, NEW y \in Amount
      PROVE  Plus(x, y) \in Amount /\ Plus(x, y) = Plus(y, x)
    BY DEF Plus, Amount
<1>3. ASSUME NEW x \in Amount
      PROVE  Plus(x, Nothing) = x
    BY DEF Plus, Nothing, Amount
<1>4. ASSUME NEW x \in Amount, NEW y \in Amount, NEW z \in Amount
      PROVE  /\ Plus(x, Plus(y, z)) = Plus(y, Plus(x, z))
             /\ Plus(Plus(x, y), z) = Plus(x, Plus(y, z))
  <2>1. \A k \in Currencies : x[k] \in Nat /\ y[k] \in Nat /\ z[k] \in Nat
      BY DEF Amount
  <2> QED
      BY <2>1 DEF Plus
<1> QED
    BY <1>1, <1>2, <1>3, <1>4

LEMMA PlusSwaps ==
    ASSUME NEW x \in Amount, NEW y \in Amount, NEW z \in Amount
    PROVE  Plus(x, Plus(y, z)) = Plus(y, Plus(x, z))
BY PlusIs

(* What FoldSet computes, on every subset of S.                  *)
Totalling(f, S, g) ==
    g = [s \in SUBSET S |-> IF s = {} THEN Nothing
                            ELSE Plus(f[CHOOSE x \in s : TRUE], g[s \ {CHOOSE x \in s : TRUE}])]

LEMMA TotalIsFold ==
    ASSUME NEW f, NEW S
    PROVE  Total(f, S) = (CHOOSE g : Totalling(f, S, g))[S]
BY DEF Total, FoldSet, MapThenFoldSet, Totalling

CanTotal(f, S) == \E g \in [SUBSET S -> Amount] : Totalling(f, S, g)

LEMMA TotalExists ==
    ASSUME NEW S, IsFiniteSet(S), NEW f, \A x \in S : f[x] \in Amount
    PROVE  CanTotal(f, S)
<1> DEFINE N == Cardinality(S)
           Upto(n) == {s \in SUBSET S : Cardinality(s) <= n}
           some(s) == CHOOSE x \in s : TRUE
           Sums(g, n) == \A s \in Upto(n) :
                            g[s] = IF s = {} THEN Nothing ELSE Plus(f[some(s)], g[s \ {some(s)}])
           K == {n \in 0..N : \E g \in [Upto(n) -> Amount] : Sums(g, n)}
<1>1. N \in Nat
    BY FS_CardinalityType
<1>2. ASSUME NEW s \in SUBSET S
      PROVE  IsFiniteSet(s) /\ Cardinality(s) \in Nat /\ Cardinality(s) <= N
    BY FS_Subset, FS_CardinalityType
<1>3. ASSUME NEW s \in SUBSET S, s # {}
      PROVE  /\ some(s) \in s /\ f[some(s)] \in Amount
             /\ s \ {some(s)} \in SUBSET S
             /\ Cardinality(s \ {some(s)}) = Cardinality(s) - 1
  <2>1. some(s) \in s
      BY <1>3
  <2> HIDE DEF some
  <2>2. IsFiniteSet(s)
      BY <1>2
  <2> QED
      BY <2>1, <2>2, FS_RemoveElement
<1>4. ASSUME NEW s \in SUBSET S
      PROVE  Cardinality(s) = 0 <=> s = {}
    BY <1>2, FS_EmptySet
<1> HIDE DEF N, some
<1>5. 0 \in K
  <2> DEFINE g == [s \in Upto(0) |-> Nothing]
  <2>1. \A s \in Upto(0) : s = {}
      BY <1>2, <1>4
  <2>2. g \in [Upto(0) -> Amount] /\ Sums(g, 0)
      BY <2>1, PlusIs
  <2>3. 0 \in 0..N
      BY <1>1
  <2> HIDE DEF g, Upto, Sums
  <2> QED
      BY <2>2, <2>3
<1>6. ASSUME NEW n \in 0..(N - 1), n \in K
      PROVE  n + 1 \in K
  <2>1. PICK g \in [Upto(n) -> Amount] : Sums(g, n)
      BY <1>6
  <2> DEFINE h == [s \in Upto(n + 1) |-> IF Cardinality(s) <= n THEN g[s]
                                         ELSE Plus(f[some(s)], g[s \ {some(s)}])]
  <2>2. n \in Nat /\ n + 1 \in 0..N
      BY <1>1
  <2>3. ASSUME NEW s \in Upto(n + 1), s # {}
        PROVE  /\ s \ {some(s)} \in Upto(n) /\ s \ {some(s)} \in Upto(n + 1)
               /\ f[some(s)] \in Amount
    <3>1. s \in SUBSET S
        OBVIOUS
    <3>2. Cardinality(s) \in Nat /\ Cardinality(s) <= n + 1
        BY <1>2
    <3> QED
        BY <1>3, <2>2, <2>3, <3>1, <3>2
  <2>4. \A s \in Upto(n + 1) : ~ (Cardinality(s) <= n) => s # {}
      BY <1>4, <2>2
  <2>5. \A s \in Upto(n + 1) : Cardinality(s) <= n => s \in Upto(n)
      OBVIOUS
  <2>6. h \in [Upto(n + 1) -> Amount]
    <3>1. \A s \in Upto(n + 1) : Cardinality(s) <= n => g[s] \in Amount
        BY <2>5
    <3>2. \A s \in Upto(n + 1) : ~ (Cardinality(s) <= n) => Plus(f[some(s)], g[s \ {some(s)}]) \in Amount
        BY <2>3, <2>4, PlusIs
    <3> HIDE DEF Upto
    <3> QED
        BY <3>1, <3>2
  <2>7. \A s \in Upto(n) : s \in Upto(n + 1) /\ h[s] = g[s]
      BY <1>2, <2>2
  <2>8. \A s \in Upto(n + 1) : ~ (Cardinality(s) <= n) => h[s] = Plus(f[some(s)], g[s \ {some(s)}])
      OBVIOUS
  <2> HIDE DEF h
  <2>9. ASSUME NEW s \in Upto(n + 1)
        PROVE  h[s] = IF s = {} THEN Nothing ELSE Plus(f[some(s)], h[s \ {some(s)}])
    <3>1. CASE Cardinality(s) <= n
      <4>1. s \in Upto(n) /\ h[s] = g[s]
          BY <2>5, <2>7, <3>1
      <4>2. g[s] = IF s = {} THEN Nothing ELSE Plus(f[some(s)], g[s \ {some(s)}])
          BY <2>1, <4>1
      <4>3. s # {} => h[s \ {some(s)}] = g[s \ {some(s)}]
          BY <2>3, <2>7
      <4> QED
          BY <4>1, <4>2, <4>3
    <3>2. CASE ~ (Cardinality(s) <= n)
      <4>1. s # {}
          BY <2>4, <3>2
      <4>2. h[s \ {some(s)}] = g[s \ {some(s)}]
          BY <2>3, <2>7, <4>1
      <4> QED
          BY <2>8, <3>2, <4>1, <4>2
    <3> QED
        BY <3>1, <3>2
  <2> HIDE DEF Upto
  <2>10. Sums(h, n + 1)
      BY <2>9
  <2> HIDE DEF Sums
  <2> QED
      BY <2>2, <2>6, <2>10
<1> HIDE DEF K
<1>7. N \in K
    BY <1>1, <1>5, <1>6, Induct
<1>8. PICK g \in [Upto(N) -> Amount] : Sums(g, N)
    BY <1>7 DEF K
<1>9. Upto(N) = SUBSET S
    BY <1>2
<1>10. g = [s \in SUBSET S |-> IF s = {} THEN Nothing ELSE Plus(f[some(s)], g[s \ {some(s)}])]
    BY <1>8, <1>9
<1>11. Totalling(f, S, g)
    BY <1>10 DEF Totalling, some
<1> QED
    BY <1>8, <1>9, <1>11 DEF CanTotal

(* The recursion of the fold holds on every subset.                        *)
TotalRule(f, S) ==
    \A s \in SUBSET S :
        Total(f, s) =
            IF s = {} THEN Nothing
            ELSE Plus(f[CHOOSE x \in s : TRUE], Total(f, s \ {CHOOSE x \in s : TRUE}))

(* Two functions that obey the rule agree.                                 *)
LEMMA TotalsAgree ==
    ASSUME NEW S, IsFiniteSet(S), NEW f, NEW g, NEW A, NEW h, NEW B,
           Totalling(f, A, g), Totalling(f, B, h), S \subseteq A, S \subseteq B
    PROVE  g[S] = h[S]
<1> DEFINE N == Cardinality(S)
           K == {n \in 0..N : \A s \in SUBSET S : Cardinality(s) <= n => g[s] = h[s]}
           some(s) == CHOOSE x \in s : TRUE
<1>1. N \in Nat
    BY FS_CardinalityType
<1>2. ASSUME NEW s \in SUBSET S
      PROVE  IsFiniteSet(s) /\ Cardinality(s) \in Nat /\ Cardinality(s) <= N
    BY FS_Subset, FS_CardinalityType
<1>3. ASSUME NEW s \in SUBSET S, s # {}
      PROVE  s \ {some(s)} \in SUBSET S /\ Cardinality(s \ {some(s)}) = Cardinality(s) - 1
  <2>1. some(s) \in s
      BY <1>3
  <2> HIDE DEF some
  <2>2. IsFiniteSet(s)
      BY <1>2
  <2> QED
      BY <2>1, <2>2, FS_RemoveElement
<1>4. ASSUME NEW s \in SUBSET S
      PROVE  Cardinality(s) = 0 <=> s = {}
    BY <1>2, FS_EmptySet
<1>5. ASSUME NEW s \in SUBSET S
      PROVE  /\ g[s] = IF s = {} THEN Nothing ELSE Plus(f[some(s)], g[s \ {some(s)}])
             /\ h[s] = IF s = {} THEN Nothing ELSE Plus(f[some(s)], h[s \ {some(s)}])
  <2>1. s \in SUBSET A /\ s \in SUBSET B
      OBVIOUS
  <2>2. g[s] = IF s = {} THEN Nothing ELSE Plus(f[some(s)], g[s \ {some(s)}])
      BY <2>1 DEF Totalling
  <2>3. h[s] = IF s = {} THEN Nothing ELSE Plus(f[some(s)], h[s \ {some(s)}])
      BY <2>1 DEF Totalling
  <2> QED
      BY <2>2, <2>3
<1> HIDE DEF N, some
<1>6. 0 \in K
  <2>1. \A s \in SUBSET S : Cardinality(s) <= 0 => s = {}
      BY <1>2, <1>4
  <2> QED
      BY <1>1, <1>5, <2>1
<1>7. ASSUME NEW n \in 0..(N - 1), n \in K
      PROVE  n + 1 \in K
  <2>1. ASSUME NEW s \in SUBSET S, Cardinality(s) <= n + 1
        PROVE  g[s] = h[s]
    <3>1. CASE s = {}
        BY <1>5, <3>1
    <3>2. CASE s # {}
      <4>1. s \ {some(s)} \in SUBSET S /\ Cardinality(s \ {some(s)}) <= n
          BY <1>1, <1>2, <1>3, <2>1, <3>2
      <4>2. g[s \ {some(s)}] = h[s \ {some(s)}]
          BY <1>7, <4>1
      <4> QED
          BY <1>5, <3>2, <4>2
    <3> QED
        BY <3>1, <3>2
  <2>2. n + 1 \in 0..N
      BY <1>1
  <2> QED
      BY <2>1, <2>2
<1> HIDE DEF K
<1>8. N \in K
    BY <1>1, <1>6, <1>7, Induct
<1>9. \A s \in SUBSET S : Cardinality(s) <= N => g[s] = h[s]
    BY <1>8 DEF K
<1> QED
    BY <1>2, <1>9

LEMMA TotalUnfolds ==
    ASSUME NEW S, IsFiniteSet(S), NEW f, \A x \in S : f[x] \in Amount
    PROVE  Total(f, S) \in Amount /\ TotalRule(f, S)
<1>1. PICK g \in [SUBSET S -> Amount] : Totalling(f, S, g)
    BY TotalExists DEF CanTotal
<1>2. ASSUME NEW s \in SUBSET S
      PROVE  Total(f, s) = g[s]
  <2>1. IsFiniteSet(s) /\ \A x \in s : f[x] \in Amount
      BY FS_Subset
  <2>2. \E h : Totalling(f, s, h)
      BY <2>1, TotalExists DEF CanTotal
  <2> DEFINE h == CHOOSE h : Totalling(f, s, h)
  <2>3. Totalling(f, s, h)
      BY <2>2
  <2>4. Total(f, s) = h[s]
      BY TotalIsFold
  <2> HIDE DEF h
  <2>5. h[s] = g[s]
      BY <1>1, <2>1, <2>3, TotalsAgree
  <2> QED
      BY <2>4, <2>5
<1>3. S \in SUBSET S
    OBVIOUS
<1>4. Total(f, S) \in Amount
    BY <1>2, <1>3
<1>5. ASSUME NEW s \in SUBSET S
      PROVE  Total(f, s) =
                IF s = {} THEN Nothing
                ELSE Plus(f[CHOOSE x \in s : TRUE], Total(f, s \ {CHOOSE x \in s : TRUE}))
  <2> DEFINE x == CHOOSE x \in s : TRUE
  <2>1. g[s] = IF s = {} THEN Nothing ELSE Plus(f[x], g[s \ {x}])
      BY <1>1 DEF Totalling
  <2> HIDE DEF x
  <2>2. Total(f, s) = g[s] /\ Total(f, s \ {x}) = g[s \ {x}]
      BY <1>2
  <2>3. Total(f, s) = IF s = {} THEN Nothing ELSE Plus(f[x], Total(f, s \ {x}))
      BY <2>1, <2>2
  <2> QED
      BY <2>3 DEF x
<1> QED
    BY <1>4, <1>5 DEF TotalRule

LEMMA TotalEmpty ==
    ASSUME NEW f
    PROVE  Total(f, {}) = Nothing
<1>1. IsFiniteSet({}) /\ {} \in SUBSET {}
    BY FS_EmptySet
<1>2. TotalRule(f, {})
    BY <1>1, TotalUnfolds
<1> QED
    BY <1>1, <1>2 DEF TotalRule

(* Any element may be taken out, not only the chosen one.                   *)
LEMMA TotalTakesOut ==
    ASSUME NEW S, IsFiniteSet(S), NEW f, \A x \in S : f[x] \in Amount
    PROVE  \A e \in S : Total(f, S) = Plus(f[e], Total(f, S \ {e}))
<1> DEFINE N == Cardinality(S)
           K == {n \in 0..N : \A s \in SUBSET S : Cardinality(s) <= n =>
                   \A e \in s : Total(f, s) = Plus(f[e], Total(f, s \ {e}))}
           some(s) == CHOOSE x \in s : TRUE
<1>1. N \in Nat
    BY FS_CardinalityType
<1>2. ASSUME NEW s \in SUBSET S
      PROVE  IsFiniteSet(s) /\ Cardinality(s) \in Nat /\ Cardinality(s) <= N
    BY FS_Subset, FS_CardinalityType
<1>3. ASSUME NEW s \in SUBSET S, NEW e \in s
      PROVE  s \ {e} \in SUBSET S /\ Cardinality(s \ {e}) = Cardinality(s) - 1
  <2>1. IsFiniteSet(s)
      BY <1>2
  <2> QED
      BY <2>1, FS_RemoveElement
<1>4. ASSUME NEW s \in SUBSET S
      PROVE  Total(f, s) \in Amount
  <2>1. IsFiniteSet(s) /\ \A x \in s : f[x] \in Amount
      BY <1>2
  <2> QED
      BY <2>1, TotalUnfolds
<1>5. ASSUME NEW s \in SUBSET S, s # {}
      PROVE  some(s) \in s /\ Total(f, s) = Plus(f[some(s)], Total(f, s \ {some(s)}))
  <2>1. TotalRule(f, S)
      BY TotalUnfolds
  <2>2. some(s) \in s
      BY <1>5
  <2> QED
      BY <1>5, <2>1, <2>2 DEF TotalRule
<1>6. \A s \in SUBSET S : Cardinality(s) <= 0 => s = {}
    BY <1>2, FS_EmptySet
<1> HIDE DEF N, some
<1>7. 0 \in K
    BY <1>1, <1>6
<1>8. ASSUME NEW n \in 0..(N - 1), n \in K
      PROVE  n + 1 \in K
  <2>1. ASSUME NEW s \in SUBSET S, Cardinality(s) <= n + 1, NEW e \in s
        PROVE  Total(f, s) = Plus(f[e], Total(f, s \ {e}))
    <3> DEFINE c == some(s)
    <3>1. c \in s /\ Total(f, s) = Plus(f[c], Total(f, s \ {c}))
        BY <1>5
    <3> HIDE DEF c
    <3>2. CASE c = e
        BY <3>1, <3>2
    <3>3. CASE c # e
      <4>1. /\ s \ {c} \in SUBSET S /\ Cardinality(s \ {c}) <= n /\ e \in s \ {c}
            /\ s \ {e} \in SUBSET S /\ Cardinality(s \ {e}) <= n /\ c \in s \ {e}
          BY <1>1, <1>2, <1>3, <2>1, <3>1, <3>3
      <4>2. Total(f, s \ {c}) = Plus(f[e], Total(f, (s \ {c}) \ {e}))
          BY <1>8, <4>1
      <4>3. Total(f, s \ {e}) = Plus(f[c], Total(f, (s \ {e}) \ {c}))
          BY <1>8, <4>1
      <4>4. (s \ {c}) \ {e} = (s \ {e}) \ {c} /\ (s \ {c}) \ {e} \in SUBSET S
          OBVIOUS
      <4>5. f[c] \in Amount /\ f[e] \in Amount /\ Total(f, (s \ {c}) \ {e}) \in Amount
          BY <1>4, <3>1, <4>4
      <4>6. Total(f, (s \ {c}) \ {e}) = Total(f, (s \ {e}) \ {c})
          BY <4>4
      <4> DEFINE rest == Total(f, (s \ {c}) \ {e})
      <4>7. /\ Total(f, s) = Plus(f[c], Plus(f[e], rest))
            /\ Total(f, s \ {e}) = Plus(f[c], rest)
          BY <3>1, <4>2, <4>3, <4>6
      <4>8. rest \in Amount
          BY <4>5
      <4> HIDE DEF rest
      <4> QED
          BY <4>5, <4>7, <4>8, PlusSwaps
    <3> QED
        BY <3>2, <3>3
  <2>2. n + 1 \in 0..N
      BY <1>1
  <2> QED
      BY <2>1, <2>2
<1> HIDE DEF K
<1>9. N \in K
    BY <1>1, <1>7, <1>8, Induct
<1>10. \A s \in SUBSET S : Cardinality(s) <= N =>
          \A e \in s : Total(f, s) = Plus(f[e], Total(f, s \ {e}))
    BY <1>9 DEF K
<1> QED
    BY <1>2, <1>10

LEMMA TotalAdds ==
    ASSUME NEW S, IsFiniteSet(S), NEW e, e \notin S, NEW f, \A x \in S \cup {e} : f[x] \in Amount
    PROVE  Total(f, S \cup {e}) = Plus(f[e], Total(f, S))
<1>1. IsFiniteSet(S \cup {e})
    BY FS_AddElement
<1>2. (S \cup {e}) \ {e} = S /\ e \in S \cup {e}
    OBVIOUS
<1> QED
    BY <1>1, <1>2, TotalTakesOut

(* Only the values on the set count.                                       *)
LEMMA TotalSame ==
    ASSUME NEW S, IsFiniteSet(S), NEW f, NEW g, \A x \in S : f[x] \in Amount /\ g[x] = f[x]
    PROVE  Total(f, S) = Total(g, S)
<1> DEFINE T == {s \in SUBSET S : Total(f, s) = Total(g, s)}
<1>1. {} \in T
    BY TotalEmpty
<1>2. ASSUME NEW s \in SUBSET S, NEW e \in S \ s, s \in T
      PROVE  s \cup {e} \in T
  <2>1. IsFiniteSet(s) /\ e \notin s /\ \A x \in s \cup {e} : f[x] \in Amount /\ g[x] \in Amount
      BY FS_Subset
  <2>2. /\ Total(f, s \cup {e}) = Plus(f[e], Total(f, s))
        /\ Total(g, s \cup {e}) = Plus(g[e], Total(g, s))
      BY <2>1, TotalAdds
  <2> QED
      BY <1>2, <2>2
<1> HIDE DEF T
<1>3. S \in T
    BY <1>1, <1>2, InductSets
<1> QED
    BY <1>3 DEF T

LEMMA TotalOfUnion ==
    ASSUME NEW R, NEW S, IsFiniteSet(R), IsFiniteSet(S), R \cap S = {},
           NEW f, \A x \in R \cup S : f[x] \in Amount
    PROVE  Total(f, R \cup S) = Plus(Total(f, R), Total(f, S))
<1> DEFINE T == {s \in SUBSET S : Total(f, R \cup s)
                                   = Plus(Total(f, R), Total(f, s))}
<1>0. Total(f, R) \in Amount
    BY TotalUnfolds
<1>1. {} \in T
  <2>1. R \cup {} = R
      OBVIOUS
  <2> QED
      BY <1>0, <2>1, TotalEmpty, PlusIs
<1>2. ASSUME NEW s \in SUBSET S, NEW e \in S \ s, s \in T
      PROVE  s \cup {e} \in T
  <2>1. IsFiniteSet(s) /\ e \notin s /\ \A x \in s \cup {e} : f[x] \in Amount
      BY FS_Subset
  <2>2. /\ IsFiniteSet(R \cup s) /\ e \notin R \cup s
        /\ \A x \in (R \cup s) \cup {e} : f[x] \in Amount
      BY <2>1, FS_Union
  <2>3. Total(f, s \cup {e}) = Plus(f[e], Total(f, s))
      BY <2>1, TotalAdds
  <2>4. Total(f, (R \cup s) \cup {e}) = Plus(f[e], Total(f, R \cup s))
      BY <2>2, TotalAdds
  <2>5. (R \cup s) \cup {e} = R \cup (s \cup {e})
      OBVIOUS
  <2>6. Total(f, s) \in Amount /\ f[e] \in Amount
      BY <2>1, TotalUnfolds
  <2> QED
    <3> DEFINE r == Total(f, R)
                 x == Total(f, s)
      <3>1. Total(f, R \cup (s \cup {e})) = Plus(f[e], Plus(r, x))
          BY <1>2, <2>4, <2>5
      <3>2. r \in Amount /\ x \in Amount
          BY <1>0, <2>6
      <3>3. Plus(f[e], Plus(r, x)) = Plus(r, Plus(f[e], x))
          BY <2>6, <3>2, PlusSwaps
      <3> QED
          BY <2>3, <3>1, <3>3
<1> HIDE DEF T
<1>3. S \in T
    BY <1>1, <1>2, InductSets
<1> QED
    BY <1>3 DEF T

(* The elements of S with the key d, and those with a key in E.             *)
At(S, key, d) == {x \in S : key[x] = d}

Of(S, key, E) == {x \in S : key[x] \in E}

(* What the parts come to is what they come to together, whichever parts.   *)
LEMMA TotalOfParts ==
    ASSUME NEW S, IsFiniteSet(S), NEW f, \A x \in S : f[x] \in Amount,
           NEW D, IsFiniteSet(D), NEW key, NEW g,
           \A d \in D : g[d] = Total(f, At(S, key, d))
    PROVE  Total(g, D) = Total(f, Of(S, key, D))
<1> DEFINE T == {E \in SUBSET D : Total(g, E) = Total(f, Of(S, key, E))}
<1>1. \A R \in SUBSET S : IsFiniteSet(R) /\ Total(f, R) \in Amount
  <2> TAKE R \in SUBSET S
  <2>1. IsFiniteSet(R) /\ \A x \in R : f[x] \in Amount
      BY FS_Subset
  <2> QED
      BY <2>1, TotalUnfolds
<1>2. \A d \in D : At(S, key, d) \in SUBSET S
    BY DEF At
<1>3. \A E : Of(S, key, E) \in SUBSET S
    BY DEF Of
<1>4. \A d \in D : g[d] \in Amount
    BY <1>1, <1>2
<1>5. {} \in T
  <2>1. Of(S, key, {}) = {}
      BY DEF Of
  <2> QED
      BY <2>1, TotalEmpty
<1>6. ASSUME NEW E \in SUBSET D, NEW d \in D \ E, E \in T
      PROVE  E \cup {d} \in T
  <2>1. /\ Of(S, key, E \cup {d}) = At(S, key, d) \cup Of(S, key, E)
        /\ At(S, key, d) \cap Of(S, key, E) = {}
      BY DEF At, Of
  <2>2. Total(g, E) = Total(f, Of(S, key, E))
      BY <1>6
  <2>3. /\ IsFiniteSet(At(S, key, d)) /\ IsFiniteSet(Of(S, key, E))
        /\ \A x \in At(S, key, d) \cup Of(S, key, E) : f[x] \in Amount
      BY <1>1, <1>2, <1>3
  <2>4. Total(f, At(S, key, d) \cup Of(S, key, E))
          = Plus(Total(f, At(S, key, d)), Total(f, Of(S, key, E)))
      BY <2>1, <2>3, TotalOfUnion
  <2>5. Total(g, E \cup {d}) = Plus(g[d], Total(g, E))
    <3>1. IsFiniteSet(E) /\ d \notin E /\ \A x \in E \cup {d} : g[x] \in Amount
        BY <1>4, FS_Subset
    <3> QED
        BY <3>1, TotalAdds
  <2>6. Total(g, E \cup {d}) = Total(f, Of(S, key, E \cup {d}))
      BY <2>1, <2>2, <2>4, <2>5
  <2> QED
      BY <2>6
<1> HIDE DEF T
<1>7. D \in T
    BY <1>5, <1>6, InductSets
<1> QED
    BY <1>7 DEF T

(* A finite set has finitely many keys.                                    *)
Keys(S, key) == {key[x] : x \in S}

LEMMA KeysAreFinite ==
    ASSUME NEW S, IsFiniteSet(S), NEW key
    PROVE  IsFiniteSet(Keys(S, key))
<1> DEFINE T == {R \in SUBSET S : IsFiniteSet(Keys(R, key))}
<1>1. {} \in T
  <2>1. Keys({}, key) = {}
      BY DEF Keys
  <2> QED
      BY <2>1, FS_EmptySet
<1>2. ASSUME NEW R \in SUBSET S, NEW t \in S \ R, R \in T
      PROVE  R \cup {t} \in T
  <2>1. Keys(R \cup {t}, key) = Keys(R, key) \cup {key[t]}
      BY DEF Keys
  <2>2. IsFiniteSet(Keys(R, key) \cup {key[t]})
      BY <1>2, FS_AddElement
  <2>3. IsFiniteSet(Keys(R \cup {t}, key))
      BY <2>1, <2>2
  <2> QED
      BY <2>3
<1> HIDE DEF T
<1>3. S \in T
    BY <1>1, <1>2, InductSets
<1> QED
    BY <1>3 DEF T

-----------------------------------------------------------------------------
(* What the rows come to. *)

LEMMA RowsAre ==
    ASSUME RowsOK
    PROVE  /\ IsFiniteSet(DOMAIN rows) /\ DOMAIN rows \subseteq TxnIds
           /\ \A t \in TxnIds : /\ Worth[t] \in Amount /\ Fact[t].account \in Accounts
                                /\ Fact[t].type \in Types
           /\ \A f : InScope(f) \subseteq DOMAIN rows
<1>1. IsFiniteSet(DOMAIN rows) /\ DOMAIN rows \subseteq TxnIds
    BY ReportsAssumption, FS_Subset DEF RowsOK
<1>2. ASSUME NEW t \in TxnIds
      PROVE  /\ Worth[t] \in Amount /\ Fact[t].account \in Accounts
             /\ Fact[t].type \in Types
  <2>1. /\ Fact[t].amount \in Nat /\ Fact[t].account \in Accounts
        /\ Fact[t].type \in Types
      BY CatalogAssumption
  <2>2. Worth[t] = [k \in Currencies |-> IF k = CurrencyOf(t) THEN Fact[t].amount ELSE 0]
      BY DEF Worth
  <2> QED
      BY <2>1, <2>2 DEF Amount
<1> QED
    BY <1>1, <1>2 DEF InScope

(* Sums per key, added up over some of the keys.                            *)
LEMMA PerAdds ==
    ASSUME RowsOK, NEW S \in SUBSET DOMAIN rows, NEW key
    PROVE  /\ DOMAIN Per(S, key) = Keys(S, key) /\ IsFiniteSet(DOMAIN Per(S, key))
           /\ \A i \in DOMAIN Per(S, key) : /\ Per(S, key)[i] \in Amount
                                            /\ Per(S, key)[i] = Total(Worth, At(S, key, i))
           /\ \A E \in SUBSET DOMAIN Per(S, key) :
                 Total(Per(S, key), E) = Total(Worth, Of(S, key, E))
           /\ Total(Per(S, key), DOMAIN Per(S, key)) = Total(Worth, S)
<1> DEFINE P == Per(S, key)
           K == Keys(S, key)
<1>1. DOMAIN P = K /\ \A i \in K : P[i] = Total(Worth, At(S, key, i))
    BY DEF Per, At, Keys
<1>2. IsFiniteSet(S) /\ \A t \in S : Worth[t] \in Amount
    BY RowsAre, FS_Subset
<1>3. IsFiniteSet(K)
    BY <1>2, KeysAreFinite
<1>4. Of(S, key, K) = S
    BY DEF Of, Keys
<1> HIDE DEF P, K
<1>5. ASSUME NEW i \in K
      PROVE  P[i] \in Amount
  <2>1. At(S, key, i) \in SUBSET S
      BY DEF At
  <2>2. IsFiniteSet(At(S, key, i)) /\ \A t \in At(S, key, i) : Worth[t] \in Amount
      BY <1>2, <2>1, FS_Subset
  <2> QED
      BY <1>1, <2>2, TotalUnfolds
<1>6. ASSUME NEW E \in SUBSET K
      PROVE  Total(P, E) = Total(Worth, Of(S, key, E))
  <2>1. IsFiniteSet(E) /\ \A i \in E : P[i] = Total(Worth, At(S, key, i))
      BY <1>1, <1>3, FS_Subset
  <2> QED
      BY <1>2, <2>1, TotalOfParts
<1>7. Total(P, K) = Total(Worth, S)
    BY <1>4, <1>6
<1> QED
    BY <1>1, <1>3, <1>5, <1>6, <1>7 DEF P, K

(* What the accounts of the scope hold is what the rows in scope come to.   *)
LEMMA ScopeIs ==
    ASSUME CatalogInv, NEW f, NEW type
    PROVE  Scope(f, type) = Sum(InScope(f), type)
<1> DEFINE S == {t \in DOMAIN rows : Within(t, f) /\ Fact[t].type = type}
           D == ScopedAccounts(f)
           key == [t \in S |-> Fact[t].account]
           of == [a \in D |-> Sum({t \in DOMAIN rows : Fact[t].account = a /\ Within(t, f)}, type)]
<1>1. RowsOK
    BY DEF CatalogInv
<1>2. IsFiniteSet(S) /\ \A t \in S : Worth[t] \in Amount /\ Fact[t].account \in Accounts
    BY <1>1, RowsAre, FS_Subset
<1>3. IsFiniteSet(D)
    BY ReportsAssumption, FS_Subset DEF ScopedAccounts
<1>4. ASSUME NEW a \in D
      PROVE  of[a] = Total(Worth, At(S, key, a))
  <2>1. OfType({t \in DOMAIN rows : Fact[t].account = a /\ Within(t, f)}, type)
          = At(S, key, a)
      BY DEF OfType, At
  <2> QED
      BY <2>1 DEF Sum
<1>5. Scope(f, type) = Total(of, D)
    BY DEF Scope
<1>6. Of(S, key, D) = OfType(InScope(f), type)
  <2>1. \A t \in S : key[t] = Fact[t].account
      OBVIOUS
  <2>2. \A t \in DOMAIN rows : accounts[Fact[t].account] # "gone" /\ Fact[t].account \in Accounts
      BY <1>1, RowsAre DEF RowsOK
  <2> HIDE DEF key
  <2> QED
      BY <2>1, <2>2 DEF OfType, InScope, Taken, ScopedAccounts, CurrencyOf, Of
<1> HIDE DEF S, D, key, of
<1>7. Total(of, D) = Total(Worth, Of(S, key, D))
    BY <1>2, <1>3, <1>4, TotalOfParts
<1> QED
    BY <1>5, <1>6, <1>7 DEF Sum

(* The keys of a stage, the tail of them as one: what a node of it shows is *)
(* what its rows come to, and so is the whole.                              *)
LEMMA ShownIs ==
    ASSUME RowsOK, NEW S \in SUBSET DOMAIN rows, NEW key,
           NEW stage, stage = Per(S, key),
           NEW node, node = NodeOf(stage, key)
    PROVE  /\ \A n \in DOMAIN Shown(stage) : Shown(stage)[n] = Total(Worth, At(S, node, n))
           /\ Total(Shown(stage), DOMAIN Shown(stage)) = Total(Worth, S)
           /\ DOMAIN Shown(stage) \subseteq Kept(stage) \cup {Other}
<1> DEFINE kept == Kept(stage)
           K == DOMAIN stage
           D == {RolledUp(kept, i) : i \in K}
           Into(n) == {i \in K : RolledUp(kept, i) = n}
<1>1. /\ K = Keys(S, key) /\ IsFiniteSet(K)
      /\ \A E \in SUBSET K : Total(stage, E) = Total(Worth, Of(S, key, E))
    BY PerAdds
<1>2. /\ DOMAIN Shown(stage) = D
      /\ \A n \in D : Shown(stage)[n] = Total(stage, Into(n))
    BY DEF Shown
<1>3. \A t \in S : node[t] = RolledUp(kept, key[t])
    BY DEF NodeOf
<1>4. ASSUME NEW n
      PROVE  Of(S, key, Into(n)) = At(S, node, n)
    BY <1>1, <1>3 DEF Of, At, Keys
<1>5. \A n : Into(n) \in SUBSET K
    OBVIOUS
<1>6. Of(S, node, D) = S
    BY <1>1, <1>3 DEF Of, Keys
<1>7. IsFiniteSet(D)
  <2> DEFINE roll == [i \in K |-> RolledUp(kept, i)]
  <2>1. D = Keys(K, roll)
      BY DEF Keys
  <2> HIDE DEF D, roll, K
  <2> QED
      BY <1>1, <2>1, KeysAreFinite
<1>8. D \subseteq Kept(stage) \cup {Other}
    BY DEF RolledUp
<1>9. IsFiniteSet(S) /\ \A t \in S : Worth[t] \in Amount
    BY RowsAre, FS_Subset
<1> HIDE DEF D, Into
<1>10. \A n \in D : Shown(stage)[n] = Total(Worth, At(S, node, n))
    BY <1>1, <1>2, <1>4, <1>5
<1>11. Total(Shown(stage), D) = Total(Worth, Of(S, node, D))
    BY <1>7, <1>9, <1>10, TotalOfParts
<1> QED
    BY <1>2, <1>6, <1>8, <1>10, <1>11

(* The edges that leave a node, and those that enter it, carry what its     *)
(* rows come to.                                                            *)
Leaving(edges, n) == Total(edges, {e \in DOMAIN edges : e[1] = n})

Entering(edges, n) == Total(edges, {e \in DOMAIN edges : e[2] = n})

Carries(edges, S, source, target) ==
    \A n : /\ Leaving(edges, n) = Total(Worth, At(S, source, n))
           /\ Entering(edges, n) = Total(Worth, At(S, target, n))

LEMMA EdgesAre ==
    ASSUME RowsOK, NEW f, NEW type, NEW source, NEW target
    PROVE  Carries(Edges(f, type, source, target), OfType(InScope(f), type), source, target)
<1> DEFINE S == OfType(InScope(f), type)
           ends == [t \in DOMAIN rows |-> <<source[t], target[t]>>]
           edges == Edges(f, type, source, target)
           K == DOMAIN edges
<1>1. S \in SUBSET DOMAIN rows
    BY RowsAre DEF OfType
<1>2. edges = Per(S, ends)
    BY DEF Edges
<1>3. \A t \in S : ends[t] = <<source[t], target[t]>>
    BY <1>1
<1> HIDE DEF ends, S, edges
<1>4. /\ K = Keys(S, ends)
      /\ \A E \in SUBSET K : Total(edges, E) = Total(Worth, Of(S, ends, E))
  <2>1. /\ DOMAIN Per(S, ends) = Keys(S, ends)
        /\ \A E \in SUBSET DOMAIN Per(S, ends) :
              Total(Per(S, ends), E) = Total(Worth, Of(S, ends, E))
      BY <1>1, PerAdds
  <2> QED
      BY <1>2, <2>1
<1>5. ASSUME NEW n
      PROVE  /\ Leaving(edges, n) = Total(Worth, At(S, source, n))
             /\ Entering(edges, n) = Total(Worth, At(S, target, n))
  <2>1. Of(S, ends, {e \in K : e[1] = n}) = At(S, source, n)
      BY <1>3, <1>4 DEF Of, At, Keys
  <2>2. Of(S, ends, {e \in K : e[2] = n}) = At(S, target, n)
      BY <1>3, <1>4 DEF Of, At, Keys
  <2>3. {e \in K : e[1] = n} \in SUBSET K /\ {e \in K : e[2] = n} \in SUBSET K
      OBVIOUS
  <2> QED
      BY <1>4, <2>1, <2>2, <2>3 DEF Leaving, Entering
<1> QED
    BY <1>5 DEF Carries, S, edges

(* Under an order, no more than N have fewer than N before them.            *)
Ahead(D, R, i) == {j \in D : <<j, i>> \in R}

Ordered(D, R) ==
    /\ \A i \in D : <<i, i>> \notin R
    /\ \A i, j \in D : i = j \/ <<i, j>> \in R \/ <<j, i>> \in R
    /\ \A i, j, k \in D : <<i, j>> \in R /\ <<j, k>> \in R => <<i, k>> \in R

LEMMA FirstsAreFew ==
    ASSUME NEW D, IsFiniteSet(D), NEW R, Ordered(D, R), NEW N \in Nat,
           NEW F, F = {i \in D : Cardinality(Ahead(D, R, i)) < N}
    PROVE  IsFiniteSet(F) /\ Cardinality(F) <= N
<1>1. IsFiniteSet(F) /\ Cardinality(F) \in Nat
    BY FS_Subset, FS_CardinalityType
<1>2. \A i \in D : IsFiniteSet(Ahead(D, R, i)) /\ Cardinality(Ahead(D, R, i)) \in Nat
    BY FS_Subset, FS_CardinalityType DEF Ahead
<1>3. CASE F = {}
    BY <1>3, FS_EmptySet
<1>4. CASE F # {}
  <2> DEFINE After == {N - Cardinality(Ahead(D, R, i)) : i \in F}
  <2>1. After # {} /\ After \subseteq Nat
      BY <1>2, <1>4
  <2>2. PICK m \in After : \A n \in After : m <= n
      BY <2>1, LeastOf
  <2>3. PICK i \in F : m = N - Cardinality(Ahead(D, R, i))
      BY <2>2
  <2>4. \A j \in F : Cardinality(Ahead(D, R, j)) <= Cardinality(Ahead(D, R, i))
    <3> TAKE j \in F
    <3>1. N - Cardinality(Ahead(D, R, j)) \in After
        OBVIOUS
    <3>2. m <= N - Cardinality(Ahead(D, R, j))
        BY <2>2, <3>1
    <3> HIDE DEF After
    <3> QED
        BY <1>2, <2>3, <3>2
  <2>5. ASSUME NEW j \in F, j # i, j \notin Ahead(D, R, i)
        PROVE  FALSE
    <3>1. <<i, j>> \in R
        BY <2>5 DEF Ahead, Ordered
    <3>2. Ahead(D, R, i) \cup {i} \subseteq Ahead(D, R, j)
        BY <3>1 DEF Ahead, Ordered
    <3>3. i \notin Ahead(D, R, i)
        BY DEF Ahead, Ordered
    <3>4. Cardinality(Ahead(D, R, i) \cup {i}) = Cardinality(Ahead(D, R, i)) + 1
        BY <1>2, <3>3, FS_AddElement
    <3>5. Cardinality(Ahead(D, R, i) \cup {i}) <= Cardinality(Ahead(D, R, j))
        BY <1>2, <3>2, FS_Subset
    <3> QED
        BY <1>2, <2>4, <3>4, <3>5
  <2>6. F \subseteq Ahead(D, R, i) \cup {i}
      BY <2>5
  <2>7. /\ IsFiniteSet(Ahead(D, R, i) \cup {i})
        /\ Cardinality(Ahead(D, R, i) \cup {i}) <= Cardinality(Ahead(D, R, i)) + 1
    <3>1. /\ IsFiniteSet(Ahead(D, R, i)) /\ Cardinality(Ahead(D, R, i)) \in Nat
          /\ i \notin Ahead(D, R, i)
        BY <1>2 DEF Ahead, Ordered
    <3>2. Cardinality(Ahead(D, R, i) \cup {i}) = Cardinality(Ahead(D, R, i)) + 1
        BY <3>1, FS_AddElement
    <3> QED
        BY <3>1, <3>2, FS_AddElement
  <2>8. Cardinality(F) <= Cardinality(Ahead(D, R, i) \cup {i})
      BY <2>6, <2>7, FS_Subset
  <2>9. Cardinality(Ahead(D, R, i)) < N
      OBVIOUS
  <2>10. Cardinality(Ahead(D, R, i) \cup {i}) \in Nat
      BY <2>7, FS_CardinalityType
  <2> QED
      BY <1>1, <1>2, <2>7, <2>8, <2>9, <2>10
<1> QED
    BY <1>3, <1>4

(* Amounts are compared by the first currency in which they differ.         *)
LEMMA ExceedsIsOrder ==
    /\ \A x \in Amount : ~ Exceeds(x, x)
    /\ \A x, y \in Amount : x = y \/ Exceeds(x, y) \/ Exceeds(y, x)
    /\ \A x, y, z \in Amount : Exceeds(x, y) /\ Exceeds(y, z) => Exceeds(x, z)
<1>0. Currencies \subseteq Nat
    BY ReportsAssumption
<1>1. ASSUME NEW x \in Amount
      PROVE  ~ Exceeds(x, x)
    BY DEF Exceeds, Amount
<1>2. ASSUME NEW x \in Amount, NEW y \in Amount, x # y
      PROVE  Exceeds(x, y) \/ Exceeds(y, x)
  <2> DEFINE T == {k \in Currencies : x[k] # y[k]}
  <2>1. T # {}
      BY <1>2 DEF Amount
  <2>2. PICK k \in T : \A m \in T : k <= m
      BY <1>0, <2>1, LeastOf
  <2>3. k \in Currencies /\ x[k] # y[k]
      BY <2>2
  <2>4. \A j \in Currencies : j < k => x[j] = y[j]
      BY <1>0, <2>2
  <2>5. x[k] \in Nat /\ y[k] \in Nat
      BY <2>3 DEF Amount
  <2> HIDE DEF T
  <2> QED
      BY <2>3, <2>4, <2>5 DEF Exceeds
<1>3. ASSUME NEW x \in Amount, NEW y \in Amount, NEW z \in Amount, Exceeds(x, y), Exceeds(y, z)
      PROVE  Exceeds(x, z)
  <2>1. PICK k \in Currencies : x[k] > y[k] /\ \A j \in Currencies : j < k => x[j] = y[j]
      BY <1>3 DEF Exceeds
  <2>2. PICK m \in Currencies : y[m] > z[m] /\ \A j \in Currencies : j < m => y[j] = z[j]
      BY <1>3 DEF Exceeds
  <2>3. \A j \in Currencies : x[j] \in Nat /\ y[j] \in Nat /\ z[j] \in Nat /\ j \in Nat
      BY <1>0 DEF Amount
  <2>4. CASE k <= m
    <3>1. x[k] > z[k] /\ \A j \in Currencies : j < k => x[j] = z[j]
        BY <2>1, <2>2, <2>3, <2>4
    <3> QED
        BY <3>1 DEF Exceeds
  <2>5. CASE m < k
    <3>1. x[m] > z[m] /\ \A j \in Currencies : j < m => x[j] = z[j]
        BY <2>1, <2>2, <2>3, <2>5
    <3> QED
        BY <3>1 DEF Exceeds
  <2> QED
      BY <2>3, <2>4, <2>5
<1> QED
    BY <1>1, <1>2, <1>3

(* A stage keeps no more nodes than its limit.                             *)
LEMMA KeptAreFew ==
    ASSUME NEW stage, IsFiniteSet(DOMAIN stage), \A i \in DOMAIN stage : stage[i] \in Amount,
           NEW I \in SUBSET Nat, DOMAIN stage \subseteq I \cup {None}
    PROVE  IsFiniteSet(Kept(stage)) /\ Cardinality(Kept(stage)) <= Limit
<1> DEFINE D == DOMAIN stage
           R == {p \in D \X D : Above(stage, p[1], p[2])}
<1>1. \A i, j \in D : <<i, j>> \in R <=> Above(stage, i, j)
    OBVIOUS
<1>2. \A i, j \in D : Above(stage, i, j)
                         <=> Exceeds(stage[i], stage[j]) \/ (stage[i] = stage[j] /\ Before(i, j))
    BY DEF Above
<1>3. /\ \A i \in D : ~ Before(i, i)
      /\ \A i, j \in D : i = j \/ Before(i, j) \/ Before(j, i)
      /\ \A i, j, k \in D : Before(i, j) /\ Before(j, k) => Before(i, k)
  <2>1. \A i \in D : i # None => i \in Nat
      OBVIOUS
  <2>2. /\ \A i \in D : ~ Before(i, i)
        /\ \A i, j \in D : i = j \/ Before(i, j) \/ Before(j, i)
      BY <2>1 DEF Before
  <2>3. ASSUME NEW i \in D, NEW j \in D, NEW k \in D, Before(i, j), Before(j, k)
        PROVE  Before(i, k)
      BY <2>1, <2>3 DEF Before
  <2> QED
      BY <2>2, <2>3
<1> HIDE DEF R
<1>4. \A i \in D : <<i, i>> \notin R
    BY <1>1, <1>2, <1>3, ExceedsIsOrder
<1>5. \A i, j \in D : i = j \/ <<i, j>> \in R \/ <<j, i>> \in R
    BY <1>1, <1>2, <1>3, ExceedsIsOrder
<1>6. ASSUME NEW i \in D, NEW j \in D, NEW k \in D, <<i, j>> \in R, <<j, k>> \in R
      PROVE  <<i, k>> \in R
    BY <1>1, <1>2, <1>3, <1>6, ExceedsIsOrder
<1>7. Ordered(D, R)
    BY <1>4, <1>5, <1>6 DEF Ordered
<1>8. \A i \in D : Ahead(D, R, i) = {j \in D : Above(stage, j, i)}
    BY <1>1 DEF Ahead
<1>9. Kept(stage) = {i \in D : Cardinality(Ahead(D, R, i)) < Limit}
    BY <1>8 DEF Kept
<1>10. Limit \in Nat
    BY ReportsAssumption
<1> QED
    BY <1>7, <1>9, <1>10, FirstsAreFew

(* A stage of the graph: each node shows what its rows come to, the whole   *)
(* is the scope's, and there are no more nodes than the limit and the tail. *)
Keyed(key, I) == \A t \in DOMAIN rows : key[t] \in I \cup {None}

Capped(shown) == Cardinality(DOMAIN shown \ {Other}) <= Limit

Staged(f, type, stage, node) ==
    /\ \A n \in DOMAIN Shown(stage) :
          Shown(stage)[n] = Total(Worth, At(OfType(InScope(f), type), node, n))
    /\ Total(Shown(stage), DOMAIN Shown(stage)) = Scope(f, type)
    /\ Capped(Shown(stage))

LEMMA StageIs ==
    ASSUME CatalogInv, NEW f, NEW type, NEW key, NEW I \in SUBSET Nat, Keyed(key, I)
    PROVE  Staged(f, type, Stage(f, type, key), NodeOf(Stage(f, type, key), key))
<1> DEFINE S == OfType(InScope(f), type)
           stage == Stage(f, type, key)
           node == NodeOf(stage, key)
<1>1. RowsOK
    BY DEF CatalogInv
<1>2. S \in SUBSET DOMAIN rows
    BY <1>1, RowsAre DEF OfType
<1>3. Total(Worth, S) = Scope(f, type)
    BY ScopeIs DEF Sum
<1>4. stage = Per(S, key)
    BY DEF Stage
<1>5. node = NodeOf(stage, key)
    OBVIOUS
<1> HIDE DEF S, stage, node
<1>6. /\ DOMAIN stage = Keys(S, key)
      /\ IsFiniteSet(DOMAIN stage) /\ \A i \in DOMAIN stage : stage[i] \in Amount
    BY <1>1, <1>2, <1>4, PerAdds
<1>7. DOMAIN stage \subseteq I \cup {None}
    BY <1>2, <1>6 DEF Keys, Keyed
<1>8. /\ \A n \in DOMAIN Shown(stage) : Shown(stage)[n] = Total(Worth, At(S, node, n))
      /\ Total(Shown(stage), DOMAIN Shown(stage)) = Total(Worth, S)
      /\ DOMAIN Shown(stage) \subseteq Kept(stage) \cup {Other}
    BY <1>1, <1>2, <1>4, <1>5, ShownIs
<1>9. Capped(Shown(stage))
  <2> DEFINE shown == DOMAIN Shown(stage) \ {Other}
  <2>1. IsFiniteSet(Kept(stage)) /\ Cardinality(Kept(stage)) <= Limit
      BY <1>6, <1>7, KeptAreFew
  <2>2. shown \subseteq Kept(stage)
      BY <1>8
  <2> HIDE DEF shown
  <2>3. IsFiniteSet(shown) /\ Cardinality(shown) <= Cardinality(Kept(stage))
      BY <2>1, <2>2, FS_Subset
  <2>4. Cardinality(Kept(stage)) \in Nat /\ Cardinality(shown) \in Nat /\ Limit \in Nat
      BY <2>1, <2>3, ReportsAssumption, FS_CardinalityType
  <2>5. Cardinality(shown) <= Limit
      BY <2>1, <2>3, <2>4
  <2> QED
      BY <2>5 DEF Capped, shown
<1> QED
    BY <1>3, <1>8, <1>9 DEF Staged, S, stage, node

(* The stages are keyed by categories and payees.                          *)
LEMMA KeysOfRows ==
    ASSUME CatalogInv
    PROVE  /\ Keyed(CategoryOf, Categories) /\ Keyed(PayeeIn, Payees)
           /\ Categories \in SUBSET Nat /\ Payees \in SUBSET Nat
<1>1. Categories \in SUBSET Nat /\ Payees \in SUBSET Nat
    BY ReportsAssumption
<1>2. ASSUME NEW t \in DOMAIN rows
      PROVE  /\ rows[t].category \in Categories \cup {None}
             /\ rows[t].payee \in Payees \cup {None}
    BY DEF CatalogInv, RowsOK, CategoriesOK, PayeesOK, Described
<1> QED
    BY <1>1, <1>2 DEF CategoryOf, PayeeIn, Keyed

LEMMA GraphIs == CatalogInv => GraphConserves
<1> SUFFICES ASSUME CatalogInv, NEW f \in Filters
             PROVE  LET income   == Shown(Income(f))
                        spending == Shown(Spending(f))
                        paid     == Shown(Paid(f))
                    IN  /\ \A n \in DOMAIN income : income[n] = Leaving(IncomeEdges(f), n)
                        /\ \A n \in DOMAIN spending :
                              /\ spending[n] = Entering(SpendingEdges(f), n)
                              /\ spending[n] = Leaving(PayeeEdges(f), n)
                        /\ \A n \in DOMAIN paid : paid[n] = Entering(PayeeEdges(f), n)
                        /\ Total(income, DOMAIN income) = Scope(f, "credit")
                        /\ Total(spending, DOMAIN spending) = Scope(f, "debit")
                        /\ Total(paid, DOMAIN paid) = Scope(f, "debit")
                        /\ Capped(income) /\ Capped(spending) /\ Capped(paid)
    BY DEF GraphConserves, Leaving, Entering, Capped
<1> DEFINE earned  == OfType(InScope(f), "credit")
           spent   == OfType(InScope(f), "debit")
           from    == NodeOf(Income(f), CategoryOf)
           through == NodeOf(Spending(f), CategoryOf)
           to      == NodeOf(Paid(f), PayeeIn)
<1>1. RowsOK
    BY DEF CatalogInv
<1>2. /\ Staged(f, "credit", Income(f), from)
      /\ Staged(f, "debit", Spending(f), through)
      /\ Staged(f, "debit", Paid(f), to)
    BY KeysOfRows, StageIs DEF Income, Spending, Paid
<1>3. /\ Carries(IncomeEdges(f), earned, from, AccountOf)
      /\ Carries(SpendingEdges(f), spent, AccountOf, through)
      /\ Carries(PayeeEdges(f), spent, through, to)
    BY <1>1, EdgesAre DEF IncomeEdges, SpendingEdges, PayeeEdges
<1> HIDE DEF from, through, to
<1>4. /\ \A n \in DOMAIN Shown(Income(f)) : Shown(Income(f))[n] = Leaving(IncomeEdges(f), n)
      /\ Total(Shown(Income(f)), DOMAIN Shown(Income(f))) = Scope(f, "credit")
      /\ Capped(Shown(Income(f)))
    BY <1>2, <1>3 DEF Staged, Carries
<1>5. /\ \A n \in DOMAIN Shown(Spending(f)) :
            /\ Shown(Spending(f))[n] = Entering(SpendingEdges(f), n)
            /\ Shown(Spending(f))[n] = Leaving(PayeeEdges(f), n)
      /\ Total(Shown(Spending(f)), DOMAIN Shown(Spending(f))) = Scope(f, "debit")
      /\ Capped(Shown(Spending(f)))
    BY <1>2, <1>3 DEF Staged, Carries
<1>6. /\ \A n \in DOMAIN Shown(Paid(f)) : Shown(Paid(f))[n] = Entering(PayeeEdges(f), n)
      /\ Total(Shown(Paid(f)), DOMAIN Shown(Paid(f))) = Scope(f, "debit")
      /\ Capped(Shown(Paid(f)))
    BY <1>2, <1>3 DEF Staged, Carries
<1> QED
    BY <1>4, <1>5, <1>6

(* The entries of a report by month or day add up to the scope.            *)
Column(r, type) ==
    [d \in DOMAIN r |-> IF type = "credit" THEN r[d].income ELSE r[d].expense]

LEMMA ColumnsAddUp ==
    ASSUME CatalogInv, NEW f, NEW key, NEW type \in {"credit", "debit"}
    PROVE  Total(Column(By(f, key), type), DOMAIN By(f, key)) = Scope(f, type)
<1> DEFINE S == OfType(InScope(f), type)
           r == By(f, key)
           D == Keys(InScope(f), key)
           column == Column(r, type)
<1>1. RowsOK
    BY DEF CatalogInv
<1>2. IsFiniteSet(InScope(f)) /\ S \subseteq InScope(f) /\ InScope(f) \subseteq DOMAIN rows
    BY <1>1, RowsAre, FS_Subset DEF OfType
<1>3. IsFiniteSet(S) /\ \A t \in S : Worth[t] \in Amount
    BY <1>1, <1>2, RowsAre, FS_Subset
<1>4. IsFiniteSet(D)
    BY <1>2, KeysAreFinite
<1>5. DOMAIN r = D
    BY DEF By, Keys
<1>6. ASSUME NEW d \in D
      PROVE  column[d] = Total(Worth, At(S, key, d))
  <2> DEFINE at == {t \in InScope(f) : key[t] = d}
  <2>1. r[d] = [income |-> Sum(at, "credit"), expense |-> Sum(at, "debit"), count |-> Cardinality(at)]
      BY DEF By, Keys
  <2>2. column[d] = IF type = "credit" THEN r[d].income ELSE r[d].expense
      BY <1>5 DEF Column
  <2>3. OfType(at, type) = At(S, key, d)
      BY DEF OfType, At
  <2> HIDE DEF at, r, column, S
  <2>4. column[d] = Sum(at, type)
      BY <2>1, <2>2
  <2> QED
      BY <2>3, <2>4 DEF Sum
<1>7. Of(S, key, D) = S
    BY <1>2 DEF Of, Keys
<1>8. Total(Worth, S) = Scope(f, type)
    BY ScopeIs DEF Sum
<1> HIDE DEF S, D, column
<1>9. Total(column, D) = Total(Worth, Of(S, key, D))
    BY <1>3, <1>4, <1>6, TotalOfParts
<1> QED
    BY <1>5, <1>7, <1>8, <1>9 DEF column

(* A breakdown under its cap shows every category as the graph does.       *)
Abridged(all, top, i) ==
    /\ \A k \in Currencies : top[i][k] \in {0, all[i][k]}
    /\ Cardinality(DOMAIN all \ {None}) <= Top => top[i] = all[i]

LEMMA BreakdownIs ==
    ASSUME CatalogInv, NEW f, NEW type, NEW all, all = Stage(f, type, CategoryOf),
           NEW i \in DOMAIN all \ {None}
    PROVE  Abridged(all, Breakdown(f, type), i)
<1> DEFINE S == OfType(InScope(f), type)
           D == DOMAIN all \ {None}
           first(g, h, k) == all[g][k] > all[h][k] \/ (all[g][k] = all[h][k] /\ g < h)
           ahead(k) == {j \in D : first(j, i, k)}
<1>1. RowsOK
    BY DEF CatalogInv
<1>2. S \in SUBSET DOMAIN rows
    BY <1>1, RowsAre DEF OfType
<1>3. all = Per(S, CategoryOf)
    BY DEF Stage
<1>4. Breakdown(f, type)[i]
        = [k \in Currencies |-> IF Cardinality(ahead(k)) < Top THEN all[i][k] ELSE 0]
    BY DEF Breakdown
<1> HIDE DEF S
<1>5. DOMAIN all = Keys(S, CategoryOf) /\ IsFiniteSet(DOMAIN all) /\ all[i] \in Amount
  <2>1. /\ DOMAIN Per(S, CategoryOf) = Keys(S, CategoryOf)
        /\ IsFiniteSet(DOMAIN Per(S, CategoryOf))
        /\ \A j \in DOMAIN Per(S, CategoryOf) : Per(S, CategoryOf)[j] \in Amount
      BY <1>1, <1>2, PerAdds
  <2> QED
      BY <1>3, <2>1
<1>6. i \in Nat
    BY <1>2, <1>5, KeysOfRows DEF Keys, Keyed
<1>7. ASSUME Cardinality(D) <= Top, NEW k \in Currencies
      PROVE  Cardinality(ahead(k)) < Top
  <2>1. all[i][k] \in Nat
      BY <1>5 DEF Amount
  <2>2. ~ first(i, i, k)
      BY <1>6, <2>1
  <2>3. ahead(k) \subseteq D \ {i}
      BY <2>2
  <2> HIDE DEF ahead
  <2>4. IsFiniteSet(D) /\ i \in D
      BY <1>5, FS_Subset
  <2> HIDE DEF D
  <2>5. IsFiniteSet(D \ {i}) /\ Cardinality(D \ {i}) = Cardinality(D) - 1
      BY <2>4, FS_RemoveElement
  <2>6. IsFiniteSet(ahead(k)) /\ Cardinality(ahead(k)) <= Cardinality(D \ {i})
      BY <2>3, <2>5, FS_Subset
  <2>7. Cardinality(D) \in Nat /\ Cardinality(ahead(k)) \in Nat /\ Top \in Nat
      BY <2>4, <2>6, ReportsAssumption, FS_CardinalityType
  <2> QED
      BY <1>7, <2>5, <2>6, <2>7
<1> HIDE DEF ahead
<1>8. \A k \in Currencies : Breakdown(f, type)[i][k] \in {0, all[i][k]}
    BY <1>4
<1>9. ASSUME Cardinality(D) <= Top
      PROVE  Breakdown(f, type)[i] = all[i]
    BY <1>4, <1>5, <1>7, <1>9 DEF Amount
<1> QED
    BY <1>8, <1>9 DEF Abridged

(* Links are worth amounts between accounts, and there are finitely many.   *)
LEMMA LinksAre ==
    ASSUME CatalogInv, NEW f
    PROVE  /\ IsFiniteSet(LinksIn(f)) /\ LinksIn(f) \subseteq links
           /\ \A l \in LinksIn(f) : /\ ValueOf[l] \in Amount
                                    /\ FlowPair(l) \in Accounts \X Accounts
<1>1. links \subseteq Link /\ \A l \in links : l.from \in TxnIds /\ l.to \in TxnIds
    BY DEF CatalogInv, RowsOK, LinksOK
<1>2. IsFiniteSet(links)
  <2> DEFINE T == (TxnIds \X TxnIds) \X LinkTypes
             link == [p \in T |-> [from |-> p[1][1], to |-> p[1][2], type |-> p[2]]]
  <2>1. IsFiniteSet(T)
      BY ReportsAssumption, FS_Product
  <2>2. \A l \in Link : /\ <<<<l.from, l.to>>, l.type>> \in T
                        /\ link[<<<<l.from, l.to>>, l.type>>] = l
      BY DEF Link
  <2> HIDE DEF T, link
  <2>3. links \subseteq Keys(T, link)
      BY <1>1, <2>2 DEF Keys
  <2> QED
      BY <2>1, <2>3, KeysAreFinite, FS_Subset
<1>3. LinksIn(f) \subseteq links
    BY DEF LinksIn
<1>4. \A t \in TxnIds : Worth[t] \in Amount /\ Fact[t].account \in Accounts
    BY RowsAre DEF CatalogInv
<1>5. ASSUME NEW l \in links
      PROVE  ValueOf[l] \in Amount /\ FlowPair(l) \in Accounts \X Accounts
    BY <1>1, <1>4 DEF ValueOf, FlowPair
<1> QED
    BY <1>2, <1>3, <1>5, FS_Subset

LEMMA PairsAre ==
    /\ Pairs = {p \in Accounts \X Accounts : p[1] # p[2]}
    /\ IsFiniteSet(Pairs)
<1>1. \A p : p \in Pairs <=> \E n, m \in Accounts : n # m /\ p = <<n, m>>
    BY DEF Pairs
<1>2. Pairs = {p \in Accounts \X Accounts : p[1] # p[2]}
    BY <1>1
<1>3. IsFiniteSet(Accounts \X Accounts)
    BY ReportsAssumption, FS_Product
<1> QED
    BY <1>2, <1>3, FS_Subset

LEMMA LinksAddUp ==
    ASSUME CatalogInv, NEW f
    PROVE  Total(LinkSummary(f), DOMAIN LinkSummary(f))
             = Plus(Total(Gross(f), Pairs),
                    Total(ValueOf, {l \in LinksIn(f) : FlowPair(l)[1] = FlowPair(l)[2]}))
<1> DEFINE L == LinksIn(f)
           type == [l \in L |-> l.type]
           pair == [l \in L |-> FlowPair(l)]
           within == {l \in L : FlowPair(l)[1] = FlowPair(l)[2]}
           D == Keys(L, type)
<1>1. IsFiniteSet(L) /\ \A l \in L : ValueOf[l] \in Amount /\ FlowPair(l) \in Accounts \X Accounts
    BY LinksAre
<1>2. /\ DOMAIN LinkSummary(f) = D
      /\ \A d \in D : LinkSummary(f)[d] = Total(ValueOf, At(L, type, d))
  <2>1. D = {l.type : l \in L}
      BY DEF Keys
  <2>2. \A d : At(L, type, d) = {l \in L : l.type = d}
      BY DEF At
  <2> HIDE DEF D
  <2> QED
      BY <2>1, <2>2 DEF LinkSummary
<1>3. Of(L, type, D) = L
    BY DEF Of, Keys
<1>4. Of(L, pair, Pairs) \cup within = L /\ Of(L, pair, Pairs) \cap within = {}
    BY <1>1, PairsAre DEF Of
<1>5. \A p \in Pairs : Gross(f)[p] = Total(ValueOf, At(L, pair, p))
  <2>1. \A p : At(L, pair, p) = {l \in L : FlowPair(l) = p}
      BY DEF At
  <2> QED
      BY <2>1 DEF Gross
<1>6. IsFiniteSet(Pairs)
    BY PairsAre
<1>7. within \subseteq L /\ Of(L, pair, Pairs) \subseteq L
    BY DEF Of
<1> HIDE DEF L, type, pair, within
<1>8. IsFiniteSet(D)
    BY <1>1, KeysAreFinite
<1> HIDE DEF D
<1>9. Total(LinkSummary(f), D) = Total(ValueOf, Of(L, type, D))
    BY <1>1, <1>2, <1>8, TotalOfParts
<1>10. Total(Gross(f), Pairs) = Total(ValueOf, Of(L, pair, Pairs))
    BY <1>1, <1>5, <1>6, TotalOfParts
<1>11. Total(ValueOf, L)
         = Plus(Total(ValueOf, Of(L, pair, Pairs)), Total(ValueOf, within))
  <2>1. IsFiniteSet(Of(L, pair, Pairs)) /\ IsFiniteSet(within)
      BY <1>1, <1>7, FS_Subset
  <2>2. \A l \in Of(L, pair, Pairs) \cup within : ValueOf[l] \in Amount
      BY <1>1, <1>7
  <2> QED
      BY <1>4, <2>1, <2>2, TotalOfUnion
<1>12. Total(LinkSummary(f), D) = Plus(Total(Gross(f), Pairs), Total(ValueOf, within))
    BY <1>3, <1>9, <1>10, <1>11
<1> QED
    BY <1>2, <1>12 DEF within, L

LEMMA ReportsAre == CatalogInv => ReportsAgree
<1> SUFFICES ASSUME CatalogInv, NEW f \in Filters
             PROVE  LET summary == LinkSummary(f)
                    IN  /\ \A r \in {Timeline(f), Daily(f)} :
                              /\ Total(Column(r, "credit"), DOMAIN r) = Scope(f, "credit")
                              /\ Total(Column(r, "debit"), DOMAIN r) = Scope(f, "debit")
                        /\ \A type \in Types :
                              LET all == Stage(f, type, CategoryOf)
                              IN  \A i \in DOMAIN all \ {None} :
                                     Abridged(all, Breakdown(f, type), i)
                        /\ Total(summary, DOMAIN summary)
                             = Plus(Total(Gross(f), Pairs),
                                    Total(ValueOf, {l \in LinksIn(f) : FlowPair(l)[1] = FlowPair(l)[2]}))
  <2>1. \A r : /\ Column(r, "credit") = [d \in DOMAIN r |-> r[d].income]
               /\ Column(r, "debit") = [d \in DOMAIN r |-> r[d].expense]
      BY DEF Column
  <2> QED
      BY <2>1 DEF ReportsAgree, Abridged
<1>1. ASSUME NEW r \in {Timeline(f), Daily(f)}
      PROVE  /\ Total(Column(r, "credit"), DOMAIN r) = Scope(f, "credit")
             /\ Total(Column(r, "debit"), DOMAIN r) = Scope(f, "debit")
    BY ColumnsAddUp DEF Timeline, Daily
<1>2. ASSUME NEW type \in Types, NEW i \in DOMAIN Stage(f, type, CategoryOf) \ {None}
      PROVE  Abridged(Stage(f, type, CategoryOf), Breakdown(f, type), i)
    BY BreakdownIs
<1> QED
    BY <1>1, <1>2, LinksAddUp

-----------------------------------------------------------------------------
(* The reports, of any state the requests about rows, links, categories,    *)
(* payees and rules reach.                                                  *)

LEMMA ReportsRunCatalog == ReportsSpec => CatalogSpec
<1>1. [ReportsNext]_catalog => [CatalogNext]_catalog
    BY DEF ReportsNext, CatalogNext, LinkRequests, RowRequests
<1> QED
    BY <1>1, PTL DEF ReportsSpec, CatalogSpec

LEMMA CatalogHolds == CatalogSpec => []CatalogInv
<1>1. CatalogInv /\ [CatalogNext]_catalog => CatalogInv'
    BY CatalogStep, CatalogStutters
<1> QED
    BY <1>1, InitTyped, PTL DEF CatalogSpec

(* Every node of the graph is as wide as its edges, the tail of a stage     *)
(* rolled into one included, no stage has more nodes than its limit, and    *)
(* the stages come to the currency scope's totals: after any requests, not  *)
(* only those the run of the reports makes.                                *)
THEOREM NodesMatchEdges == (CatalogSpec \/ ReportsSpec) => []GraphConserves
BY CatalogHolds, ReportsRunCatalog, GraphIs, PTL

(* The timeline and the calendar add up to the scope, a breakdown shows of  *)
(* a category what the graph does or nothing, and the links' summary is     *)
(* what flows between the accounts and within one.                         *)
THEOREM ReportsMatch == (CatalogSpec \/ ReportsSpec) => []ReportsAgree
BY CatalogHolds, ReportsRunCatalog, ReportsAre, PTL

-----------------------------------------------------------------------------
(* The depth-first walk over the edges E.                                   *)

Marks == {"new", "stacked", "done"}

WalkTyped(E, w) ==
    w \in [mark : [Accounts -> Marks], stack : Seq(Accounts), left : SUBSET E,
           dropped : SUBSET E, loops : Seq(Seq(Accounts))]

(* The stack holds the nodes marked so, once, and is a path of taken edges. *)
StackIsMarked(w) ==
    /\ \A n \in Accounts :
          w.mark[n] = "stacked" <=> \E i \in 1 .. Len(w.stack) : w.stack[i] = n
    /\ \A i, j \in 1 .. Len(w.stack) : w.stack[i] = w.stack[j] => i = j

OnPath(w, p) == \E i \in 1 .. Len(w.stack) - 1 : p = <<w.stack[i], w.stack[i + 1]>>

StackIsPath(E, w) == \A p : OnPath(w, p) => p \in E \ w.left

(* An edge taken was dropped, leads to a node left, or is on the path.      *)
EndsAreKnown(E, w) ==
    /\ \A p \in E \ w.left : /\ w.mark[p[1]] # "new"
                             /\ p \in w.dropped \/ w.mark[p[2]] = "done" \/ OnPath(w, p)
    /\ \A p \in w.left : w.mark[p[1]] # "done" /\ p \notin w.dropped

(* Among nodes left, some node has no edge to any but a dropped one.        *)
Sorted(E, S) == \E a \in S : \A b \in S : <<a, b>> \notin E

DoneIsSorted(E, w) ==
    \A S \in SUBSET Accounts :
       S # {} /\ (\A n \in S : w.mark[n] = "done") => Sorted(E \ w.dropped, S)

Closing(c) == <<c[Len(c)], c[1]>>

IsLoop(E, c) ==
    /\ c \in Seq(Accounts) /\ Len(c) >= 2
    /\ \A i, j \in 1 .. Len(c) : c[i] = c[j] => i = j
    /\ \A i \in 1 .. Len(c) - 1 : <<c[i], c[i + 1]>> \in E
    /\ Closing(c) \in E

(* A loop stays on the stack, in place, until its last node is left.        *)
InPlace(stack, c) ==
    \E k \in 0 .. Len(stack) - Len(c) : \A i \in 1 .. Len(c) : stack[k + i] = c[i]

StaysInPlace(w, c) ==
    /\ \A i \in 1 .. Len(c) : w.mark[c[i]] # "new"
    /\ w.mark[c[Len(c)]] = "stacked" => InPlace(w.stack, c)

LoopsHold(E, w) ==
    /\ \A l \in 1 .. Len(w.loops) :
          /\ IsLoop(E, w.loops[l]) /\ Closing(w.loops[l]) \in w.dropped
          /\ StaysInPlace(w, w.loops[l])
    /\ \A l, m \in 1 .. Len(w.loops) : Range(w.loops[l]) = Range(w.loops[m]) => l = m
    /\ \A p \in w.dropped : \E l \in 1 .. Len(w.loops) : p = Closing(w.loops[l])

WalkInv(E, w) ==
    /\ WalkTyped(E, w) /\ StackIsMarked(w) /\ StackIsPath(E, w)
    /\ EndsAreKnown(E, w) /\ DoneIsSorted(E, w) /\ LoopsHold(E, w)

LEMMA NewWalkHolds ==
    ASSUME NEW E, E \subseteq Pairs
    PROVE  WalkInv(E, NewWalk(E))
<1> DEFINE w == NewWalk(E)
<1>1. WalkTyped(E, w)
    BY DEF WalkTyped, NewWalk, Marks
<1>2. /\ w.mark = [n \in Accounts |-> "new"] /\ w.stack = <<>> /\ w.left = E
      /\ w.dropped = {} /\ w.loops = <<>>
    BY DEF NewWalk
<1> HIDE DEF w
<1>3. 1 .. Len(w.stack) = {} /\ 1 .. Len(w.loops) = {} /\ 1 .. Len(w.stack) - 1 = {}
    BY <1>2
<1>4. \A n \in Accounts : w.mark[n] = "new"
    BY <1>2
<1>5. \A p \in E : p[1] \in Accounts
    BY PairsAre
<1>6. StackIsMarked(w) /\ StackIsPath(E, w)
    BY <1>3, <1>4 DEF StackIsMarked, StackIsPath, OnPath
<1>7. EndsAreKnown(E, w)
    BY <1>2, <1>4, <1>5 DEF EndsAreKnown
<1>8. DoneIsSorted(E, w)
    BY <1>4 DEF DoneIsSorted
<1>9. LoopsHold(E, w)
    BY <1>2, <1>3 DEF LoopsHold
<1> QED
    BY <1>1, <1>6, <1>7, <1>8, <1>9 DEF WalkInv, w

(* What each operation leaves of a walk.                                    *)
Pushed(w, v, n) ==
    /\ v.left = w.left /\ v.dropped = w.dropped /\ v.loops = w.loops
    /\ v.mark = [w.mark EXCEPT ![n] = "stacked"]
    /\ Len(v.stack) = Len(w.stack) + 1
    /\ \A i \in 1 .. Len(w.stack) : v.stack[i] = w.stack[i]
    /\ v.stack[Len(w.stack) + 1] = n

LEMMA EnterIs ==
    ASSUME NEW E, NEW w, WalkTyped(E, w), NEW n \in Accounts
    PROVE  WalkTyped(E, Enter(w, n)) /\ Pushed(w, Enter(w, n), n)
<1> DEFINE v == Enter(w, n)
<1> DEFINE mark == [w.mark EXCEPT ![n] = "stacked"]
           stack == Append(w.stack, n)
<1>2. w.stack \in Seq(Accounts) /\ stack \in Seq(Accounts) /\ mark \in [Accounts -> Marks]
    BY DEF WalkTyped, Marks
<1> HIDE DEF mark, stack
<1>1. /\ v.left = w.left /\ v.dropped = w.dropped /\ v.loops = w.loops
      /\ v.mark = mark /\ v.stack = stack /\ WalkTyped(E, v)
    BY <1>2 DEF Enter, WalkTyped, mark, stack
<1> HIDE DEF v
<1>3. /\ Len(v.stack) = Len(w.stack) + 1
      /\ \A i \in 1 .. Len(w.stack) : v.stack[i] = w.stack[i]
      /\ v.stack[Len(w.stack) + 1] = n
    BY <1>1, <1>2 DEF stack
<1> QED
    BY <1>1, <1>3 DEF v, mark, Pushed

Popped(w, v, top) ==
    /\ v.left = w.left /\ v.dropped = w.dropped /\ v.loops = w.loops
    /\ v.mark = [w.mark EXCEPT ![top] = "done"]
    /\ Len(v.stack) = Len(w.stack) - 1
    /\ \A i \in 1 .. Len(w.stack) - 1 : v.stack[i] = w.stack[i]

LEMMA LeaveIs ==
    ASSUME NEW E, NEW w, WalkTyped(E, w), w.stack # <<>>
    PROVE  WalkTyped(E, Leave(w)) /\ Popped(w, Leave(w), w.stack[Len(w.stack)])
<1> DEFINE v == Leave(w)
           top == w.stack[Len(w.stack)]
<1>1. w.stack \in Seq(Accounts) /\ Len(w.stack) \in Nat \ {0} /\ top \in Accounts
    BY DEF WalkTyped
<1>2. /\ Front(w.stack) \in Seq(Accounts) /\ Len(Front(w.stack)) = Len(w.stack) - 1
      /\ \A i \in 1 .. Len(w.stack) - 1 : Front(w.stack)[i] = w.stack[i]
    BY <1>1 DEF Front
<1> HIDE DEF top
<1>3. /\ v.left = w.left /\ v.dropped = w.dropped /\ v.loops = w.loops
      /\ v.mark = [w.mark EXCEPT ![top] = "done"] /\ v.stack = Front(w.stack)
      /\ WalkTyped(E, v)
    BY <1>1, <1>2 DEF Leave, Last, WalkTyped, Marks, top
<1> QED
    BY <1>1, <1>2, <1>3 DEF top, Popped

Untaken(w, p) == [w EXCEPT !.left = @ \ {p}]

LEMMA TakeIs ==
    ASSUME NEW E, NEW w, WalkTyped(E, w), NEW p \in w.left
    PROVE  /\ WalkTyped(E, Untaken(w, p)) /\ Untaken(w, p).left = w.left \ {p}
           /\ Untaken(w, p).mark = w.mark /\ Untaken(w, p).stack = w.stack
           /\ Untaken(w, p).dropped = w.dropped /\ Untaken(w, p).loops = w.loops
           /\ w.mark[p[2]] = "new" => Take(w, p) = Enter(Untaken(w, p), p[2])
           /\ w.mark[p[2]] = "done" => Take(w, p) = Untaken(w, p)
<1> DEFINE left == w.left \ {p}
<1>1. left \in SUBSET E
    BY DEF WalkTyped
<1> HIDE DEF left
<1> QED
    BY <1>1 DEF WalkTyped, Take, Untaken, left

(* The edge p is dropped, and the stack from its end on, c, is a loop.      *)
Dropped(w, v, p, c) ==
    /\ p \in w.left /\ p[1] = w.stack[Len(w.stack)]
    /\ v.left = w.left \ {p} /\ v.mark = w.mark /\ v.stack = w.stack
    /\ v.dropped = w.dropped \cup {p} /\ v.loops = Append(w.loops, c)
    /\ c \in Seq(Accounts)
    /\ \E h \in 0 .. Len(w.stack) - 1 :
          /\ w.stack[h + 1] = p[2] /\ Len(c) = Len(w.stack) - h
          /\ \A i \in 1 .. Len(c) : w.stack[h + i] = c[i]

Behind(s, n) == SubSeq(s, Index(s, n), Len(s))

LEMMA DropIs ==
    ASSUME NEW E, E \subseteq Pairs, NEW w, WalkTyped(E, w), StackIsMarked(w),
           NEW p \in w.left, p[1] = w.stack[Len(w.stack)], w.mark[p[2]] = "stacked"
    PROVE  WalkTyped(E, Take(w, p)) /\ Dropped(w, Take(w, p), p, Behind(w.stack, p[2]))
<1> DEFINE k == Index(w.stack, p[2])
           c == SubSeq(w.stack, k, Len(w.stack))
           left == w.left \ {p}
           dropped == w.dropped \cup {p}
           loops == Append(w.loops, c)
<1>1. w.stack \in Seq(Accounts) /\ Len(w.stack) \in Nat /\ p \in E /\ p[2] \in Accounts
    BY PairsAre DEF WalkTyped
<1>2. k \in 1 .. Len(w.stack) /\ w.stack[k] = p[2]
  <2>1. \E i \in DOMAIN w.stack : w.stack[i] = p[2]
      BY <1>1 DEF StackIsMarked
  <2>2. k \in DOMAIN w.stack /\ w.stack[k] = p[2]
      BY <2>1 DEF Index
  <2> QED
      BY <1>1, <2>2
<1> HIDE DEF k
<1>3. /\ c \in Seq(Accounts) /\ Len(c) = Len(w.stack) - k + 1
      /\ \A i \in 1 .. Len(c) : c[i] = w.stack[k - 1 + i]
    BY <1>1, <1>2
<1> HIDE DEF c
<1>4. loops \in Seq(Seq(Accounts)) /\ left \in SUBSET E /\ dropped \in SUBSET E
    BY <1>1, <1>3 DEF WalkTyped
<1>5. Take(w, p) = [w EXCEPT !.left = left, !.dropped = dropped, !.loops = loops]
    BY DEF Take, WalkTyped, k, c
<1> HIDE DEF left, dropped, loops
<1>6. LET v == Take(w, p)
      IN  /\ WalkTyped(E, v)
          /\ v.mark = w.mark /\ v.stack = w.stack
          /\ v.left = left /\ v.dropped = dropped /\ v.loops = loops
    BY <1>4, <1>5 DEF WalkTyped
<1>7. \E h \in 0 .. Len(w.stack) - 1 :
         /\ w.stack[h + 1] = p[2] /\ Len(c) = Len(w.stack) - h
         /\ \A i \in 1 .. Len(c) : w.stack[h + i] = c[i]
  <2>1. k - 1 \in 0 .. Len(w.stack) - 1 /\ (k - 1) + 1 = k /\ Len(c) = Len(w.stack) - (k - 1)
      BY <1>1, <1>2, <1>3
  <2> QED
      BY <1>2, <1>3, <2>1
<1>8. c = Behind(w.stack, p[2])
    BY DEF c, k, Behind
<1> QED
    BY <1>3, <1>6, <1>7, <1>8 DEF left, dropped, loops, Dropped

(* A node is entered, if the stack is not empty by the edge taken.          *)
Entered(E, w, v, n) ==
    /\ v.dropped = w.dropped /\ v.loops = w.loops /\ v.left \subseteq w.left
    /\ v.mark = [w.mark EXCEPT ![n] = "stacked"]
    /\ Len(v.stack) = Len(w.stack) + 1
    /\ \A i \in 1 .. Len(w.stack) : v.stack[i] = w.stack[i]
    /\ v.stack[Len(w.stack) + 1] = n
    /\ \A p \in w.left \ v.left : w.stack # <<>> /\ p = <<w.stack[Len(w.stack)], n>>
    /\ w.stack # <<>> => <<w.stack[Len(w.stack)], n>> \in E \ v.left

LEMMA EnterHolds ==
    ASSUME NEW E, E \subseteq Pairs, NEW w, WalkInv(E, w), NEW n \in Accounts, w.mark[n] = "new",
           NEW v, WalkTyped(E, v), Entered(E, w, v, n)
    PROVE  WalkInv(E, v)
<1> DEFINE L == Len(w.stack)
<1>1. /\ w.stack \in Seq(Accounts) /\ L \in Nat /\ (w.stack # <<>> => L # 0)
      /\ w.mark \in [Accounts -> Marks]
    BY DEF WalkInv, WalkTyped
<1>2. \A m \in Accounts : v.mark[m] = IF m = n THEN "stacked" ELSE w.mark[m]
    BY <1>1 DEF Entered
<1>3. /\ \A i \in 1 .. L : v.stack[i] = w.stack[i]
      /\ v.stack[L + 1] = n /\ Len(v.stack) = L + 1
      /\ \A i \in 1 .. L + 1 : i \in 1 .. L \/ i = L + 1
      /\ \A i \in 1 .. L : i \in 1 .. L - 1 \/ i = L
      /\ \A i \in 1 .. L : i \in 1 .. L + 1 /\ i \in 1 .. (L + 1) - 1
      /\ L + 1 \in 1 .. L + 1
      /\ \A i \in 1 .. L - 1 : i \in 1 .. L /\ i + 1 \in 1 .. L
      /\ (L + 1) - 1 = L
    BY <1>1 DEF Entered
<1> HIDE DEF L
<1>4. /\ \A m \in Accounts : w.mark[m] = "stacked" <=> \E i \in 1 .. L : w.stack[i] = m
      /\ \A i, j \in 1 .. L : w.stack[i] = w.stack[j] => i = j
      /\ \A i \in 1 .. L : w.stack[i] # n /\ w.stack[i] \in Accounts
    BY <1>1 DEF WalkInv, StackIsMarked, L
<1>5. StackIsMarked(v)
  <2>1. ASSUME NEW m \in Accounts
        PROVE  v.mark[m] = "stacked" <=> \E i \in 1 .. L + 1 : v.stack[i] = m
    <3>1. (\E i \in 1 .. L + 1 : v.stack[i] = m) <=> m = n \/ \E i \in 1 .. L : w.stack[i] = m
        BY <1>3
    <3>2. v.mark[m] = "stacked" <=> m = n \/ w.mark[m] = "stacked"
        BY <1>2
    <3> QED
        BY <1>4, <3>1, <3>2
  <2>2. ASSUME NEW i \in 1 .. L + 1, NEW j \in 1 .. L + 1, v.stack[i] = v.stack[j]
        PROVE  i = j
      BY <1>3, <1>4, <2>2
  <2> QED
      BY <1>3, <2>1, <2>2 DEF StackIsMarked
<1>6. \A p : OnPath(w, p) => OnPath(v, p)
    BY <1>3 DEF OnPath, L
<1>7. ASSUME NEW p, OnPath(v, p)
      PROVE  OnPath(w, p) \/ (L # 0 /\ p = <<w.stack[L], n>>)
  <2>1. PICK i \in 1 .. L : p = <<v.stack[i], v.stack[i + 1]>>
      BY <1>3, <1>7 DEF OnPath
  <2>2. CASE i = L
      BY <1>1, <1>3, <2>1, <2>2
  <2>3. CASE i # L
    <3>1. i \in 1 .. L - 1
        BY <1>3, <2>3
    <3>2. p = <<w.stack[i], w.stack[i + 1]>>
        BY <1>3, <2>1, <3>1
    <3> QED
        BY <3>1, <3>2 DEF OnPath, L
  <2> QED
      BY <2>2, <2>3
<1>8. L # 0 => <<w.stack[L], n>> \in E \ v.left
    BY <1>1 DEF Entered, L
<1>9. StackIsPath(E, v)
    BY <1>7, <1>8 DEF StackIsPath, WalkInv, Entered
<1>10. EndsAreKnown(E, v)
  <2>1. ASSUME NEW p \in E \ v.left
        PROVE  /\ v.mark[p[1]] # "new"
               /\ p \in v.dropped \/ v.mark[p[2]] = "done" \/ OnPath(v, p)
    <3>1. p[1] \in Accounts /\ p[2] \in Accounts
        BY PairsAre
    <3>2. CASE p \in w.left
      <4>1. L # 0 /\ L \in 1 .. L /\ p = <<w.stack[L], n>>
          BY <1>1, <3>2 DEF Entered, L
      <4>2. OnPath(v, p)
          BY <1>3, <4>1 DEF OnPath
      <4>3. v.mark[p[1]] = "stacked"
          BY <1>2, <1>4, <4>1
      <4> QED
          BY <4>2, <4>3
    <3>3. CASE p \notin w.left
      <4>1. /\ w.mark[p[1]] # "new"
            /\ p \in w.dropped \/ w.mark[p[2]] = "done" \/ OnPath(w, p)
          BY <3>3 DEF WalkInv, EndsAreKnown
      <4> QED
          BY <1>2, <1>6, <3>1, <4>1 DEF Entered
    <3> QED
        BY <3>2, <3>3
  <2>2. ASSUME NEW p \in v.left
        PROVE  v.mark[p[1]] # "done" /\ p \notin v.dropped
    <3>1. p \in w.left /\ p[1] \in Accounts
        BY PairsAre DEF Entered, WalkTyped
    <3> QED
        BY <1>2, <3>1 DEF WalkInv, EndsAreKnown, Entered
  <2> QED
      BY <2>1, <2>2 DEF EndsAreKnown
<1>11. DoneIsSorted(E, v)
  <2>1. \A m \in Accounts : v.mark[m] = "done" => w.mark[m] = "done"
      BY <1>2
  <2>2. v.dropped = w.dropped /\ DoneIsSorted(E, w)
      BY DEF Entered, WalkInv
  <2> QED
      BY <2>1, <2>2 DEF DoneIsSorted
<1>12. ASSUME NEW c, IsLoop(E, c), StaysInPlace(w, c)
       PROVE  StaysInPlace(v, c)
  <2>1. /\ c \in Seq(Accounts) /\ Len(c) \in Nat /\ Len(c) \in 1 .. Len(c)
        /\ \A i \in 1 .. Len(c) : c[i] \in Accounts /\ w.mark[c[i]] # "new"
      BY <1>12 DEF IsLoop, StaysInPlace
  <2>2. \A i \in 1 .. Len(c) : v.mark[c[i]] = w.mark[c[i]]
      BY <1>2, <2>1
  <2>3. InPlace(w.stack, c) => InPlace(v.stack, c)
    <3>1. SUFFICES ASSUME NEW k \in 0 .. L - Len(c), \A i \in 1 .. Len(c) : w.stack[k + i] = c[i]
                   PROVE  InPlace(v.stack, c)
        BY DEF InPlace, L
    <3>2. k \in 0 .. (L + 1) - Len(c) /\ \A i \in 1 .. Len(c) : k + i \in 1 .. L
        BY <1>1, <2>1 DEF L
    <3>3. \A i \in 1 .. Len(c) : v.stack[k + i] = c[i]
        BY <1>3, <3>1, <3>2
    <3> QED
        BY <1>3, <3>2, <3>3 DEF InPlace
  <2> QED
      BY <1>12, <2>1, <2>2, <2>3 DEF StaysInPlace
<1>13. LoopsHold(E, v)
  <2>1. v.dropped = w.dropped /\ v.loops = w.loops /\ LoopsHold(E, w)
      BY DEF Entered, WalkInv
  <2> QED
      BY <1>12, <2>1 DEF LoopsHold
<1> QED
    BY <1>5, <1>9, <1>10, <1>11, <1>13 DEF WalkInv

(* The top of the stack is left once its edges are taken.                   *)
Left(w, v) ==
    /\ v.dropped = w.dropped /\ v.loops = w.loops /\ v.left = w.left
    /\ v.mark = [w.mark EXCEPT ![w.stack[Len(w.stack)]] = "done"]
    /\ Len(v.stack) = Len(w.stack) - 1
    /\ \A i \in 1 .. Len(w.stack) - 1 : v.stack[i] = w.stack[i]
    /\ \A p \in w.left : p[1] # w.stack[Len(w.stack)]

LEMMA LeaveHolds ==
    ASSUME NEW E, E \subseteq Pairs, NEW w, WalkInv(E, w), w.stack # <<>>,
           NEW v, WalkTyped(E, v), Left(w, v)
    PROVE  WalkInv(E, v)
<1> DEFINE L == Len(w.stack)
           top == w.stack[L]
<1>1. /\ w.stack \in Seq(Accounts) /\ L \in Nat \ {0} /\ top \in Accounts
      /\ w.mark \in [Accounts -> Marks]
    BY DEF WalkInv, WalkTyped
<1>2. \A m \in Accounts : v.mark[m] = IF m = top THEN "done" ELSE w.mark[m]
    BY <1>1 DEF Left
<1>3. /\ \A i \in 1 .. L - 1 : v.stack[i] = w.stack[i]
      /\ Len(v.stack) = L - 1
      /\ \A i \in 1 .. L : i \in 1 .. L - 1 \/ i = L
      /\ \A i \in 1 .. L - 1 : i \in 1 .. L /\ i + 1 \in 1 .. L /\ i # L
      /\ \A i \in 1 .. (L - 1) - 1 : i \in 1 .. L - 1 /\ i + 1 \in 1 .. L - 1
      /\ \A i \in 1 .. L - 1 : i \in 1 .. (L - 1) - 1 \/ i + 1 = L
      /\ L \in 1 .. L
    BY <1>1 DEF Left
<1>4. /\ \A m \in Accounts : w.mark[m] = "stacked" <=> \E i \in 1 .. L : w.stack[i] = m
      /\ \A i, j \in 1 .. L : w.stack[i] = w.stack[j] => i = j
      /\ \A i \in 1 .. L : w.stack[i] \in Accounts
    BY <1>1 DEF WalkInv, StackIsMarked
<1>5. w.mark[top] = "stacked" /\ \A i \in 1 .. L - 1 : w.stack[i] # top
    BY <1>1, <1>3, <1>4
<1> HIDE DEF L, top
<1>6. StackIsMarked(v)
  <2>1. ASSUME NEW m \in Accounts
        PROVE  v.mark[m] = "stacked" <=> \E i \in 1 .. L - 1 : v.stack[i] = m
    <3>1. (\E i \in 1 .. L - 1 : v.stack[i] = m)
            <=> m # top /\ \E i \in 1 .. L : w.stack[i] = m
        BY <1>3, <1>5 DEF top
    <3>2. v.mark[m] = "stacked" <=> m # top /\ w.mark[m] = "stacked"
        BY <1>2
    <3> QED
        BY <1>4, <3>1, <3>2
  <2>2. ASSUME NEW i \in 1 .. L - 1, NEW j \in 1 .. L - 1, v.stack[i] = v.stack[j]
        PROVE  i = j
      BY <1>3, <1>4, <2>2
  <2> QED
      BY <1>3, <2>1, <2>2 DEF StackIsMarked
<1>7. ASSUME NEW p, OnPath(v, p)
      PROVE  OnPath(w, p)
  <2>1. PICK i \in 1 .. (L - 1) - 1 : p = <<v.stack[i], v.stack[i + 1]>>
      BY <1>3, <1>7 DEF OnPath
  <2>2. i \in 1 .. L - 1 /\ p = <<w.stack[i], w.stack[i + 1]>>
      BY <1>3, <2>1
  <2> QED
      BY <2>2 DEF OnPath, L
<1>8. ASSUME NEW p, OnPath(w, p)
      PROVE  /\ p[1] # top
             /\ OnPath(v, p) \/ p[2] = top
  <2>1. PICK i \in 1 .. L - 1 : p = <<w.stack[i], w.stack[i + 1]>>
      BY <1>8 DEF OnPath, L
  <2>2. p[1] = w.stack[i] /\ p[2] = w.stack[i + 1]
      BY <2>1
  <2>3. CASE i + 1 = L
      BY <1>5, <2>2, <2>3 DEF top
  <2>4. CASE i \in 1 .. (L - 1) - 1
    <3>1. v.stack[i] = w.stack[i] /\ v.stack[i + 1] = w.stack[i + 1]
        BY <1>3, <2>4
    <3>2. OnPath(v, p)
        BY <1>3, <2>1, <2>4, <3>1 DEF OnPath
    <3> QED
        BY <1>5, <2>2, <3>2
  <2> QED
      BY <1>3, <2>3, <2>4
<1>9. StackIsPath(E, v)
    BY <1>7 DEF StackIsPath, WalkInv, Left
<1>10. EndsAreKnown(E, v)
  <2>1. ASSUME NEW p \in E \ v.left
        PROVE  /\ v.mark[p[1]] # "new"
               /\ p \in v.dropped \/ v.mark[p[2]] = "done" \/ OnPath(v, p)
    <3>1. p[1] \in Accounts /\ p[2] \in Accounts
        BY PairsAre
    <3>2. /\ w.mark[p[1]] # "new"
          /\ p \in w.dropped \/ w.mark[p[2]] = "done" \/ OnPath(w, p)
        BY DEF WalkInv, EndsAreKnown, Left
    <3> QED
        BY <1>2, <1>8, <3>1, <3>2 DEF Left
  <2>2. ASSUME NEW p \in v.left
        PROVE  v.mark[p[1]] # "done" /\ p \notin v.dropped
    <3>1. p \in w.left /\ p[1] \in Accounts /\ p[1] # top
        BY PairsAre DEF Left, WalkTyped, L, top
    <3> QED
        BY <1>2, <3>1 DEF WalkInv, EndsAreKnown, Left
  <2> QED
      BY <2>1, <2>2 DEF EndsAreKnown
<1>11. DoneIsSorted(E, v)
  <2>1. SUFFICES ASSUME NEW S \in SUBSET Accounts, S # {}, \A m \in S : v.mark[m] = "done"
                 PROVE  Sorted(E \ w.dropped, S)
      BY DEF DoneIsSorted, Left
  <2>2. \A m \in S \ {top} : w.mark[m] = "done"
      BY <1>2, <2>1
  <2>3. CASE top \notin S
      BY <2>1, <2>2, <2>3 DEF WalkInv, DoneIsSorted
  <2>4. CASE S = {top}
    <3>1. <<top, top>> \notin E
        BY PairsAre
    <3> QED
        BY <2>4, <3>1 DEF Sorted
  <2>5. CASE top \in S /\ S # {top}
    <3>1. S \ {top} \in SUBSET Accounts /\ S \ {top} # {}
        BY <2>5
    <3>2. Sorted(E \ w.dropped, S \ {top})
        BY <2>2, <3>1 DEF WalkInv, DoneIsSorted
    <3>3. PICK a \in S \ {top} : \A b \in S \ {top} : <<a, b>> \notin E \ w.dropped
        BY <3>2 DEF Sorted
    <3>4. <<a, top>> \notin E \ w.dropped
      <4>1. SUFFICES ASSUME <<a, top>> \in E, <<a, top>> \notin w.dropped
                     PROVE  FALSE
          OBVIOUS
      <4> DEFINE p == <<a, top>>
      <4>2. p[1] = a /\ p[2] = top /\ w.mark[a] = "done"
          BY <2>2
      <4>3. p \notin w.left
          BY <4>2 DEF WalkInv, EndsAreKnown
      <4>4. OnPath(w, p)
          BY <1>5, <4>1, <4>2, <4>3 DEF WalkInv, EndsAreKnown
      <4>5. \E i \in 1 .. L : w.stack[i] = a
          BY <1>3, <4>4 DEF OnPath, L
      <4> QED
          BY <1>4, <4>2, <4>5
    <3> QED
        BY <3>3, <3>4 DEF Sorted
  <2> QED
      BY <2>3, <2>4, <2>5
<1>12. ASSUME NEW c, IsLoop(E, c), StaysInPlace(w, c)
       PROVE  StaysInPlace(v, c)
  <2>1. /\ c \in Seq(Accounts) /\ Len(c) \in Nat /\ Len(c) \in 1 .. Len(c)
        /\ \A i \in 1 .. Len(c) : c[i] \in Accounts /\ w.mark[c[i]] # "new"
      BY <1>12 DEF IsLoop, StaysInPlace
  <2>2. \A i \in 1 .. Len(c) : v.mark[c[i]] # "new"
      BY <1>2, <2>1
  <2>3. ASSUME v.mark[c[Len(c)]] = "stacked"
        PROVE  InPlace(v.stack, c)
    <3>1. c[Len(c)] # top /\ w.mark[c[Len(c)]] = "stacked"
        BY <1>2, <2>1, <2>3
    <3>2. PICK k \in 0 .. L - Len(c) : \A i \in 1 .. Len(c) : w.stack[k + i] = c[i]
        BY <1>12, <3>1 DEF StaysInPlace, InPlace, L
    <3>3. k + Len(c) # L
        BY <2>1, <3>1, <3>2 DEF top
    <3>4. k \in 0 .. (L - 1) - Len(c) /\ \A i \in 1 .. Len(c) : k + i \in 1 .. L - 1
        BY <1>1, <2>1, <3>3 DEF L
    <3>5. \A i \in 1 .. Len(c) : v.stack[k + i] = c[i]
        BY <1>3, <3>2, <3>4
    <3> QED
        BY <1>3, <3>4, <3>5 DEF InPlace
  <2> QED
      BY <2>2, <2>3 DEF StaysInPlace
<1>13. LoopsHold(E, v)
  <2>1. v.dropped = w.dropped /\ v.loops = w.loops /\ LoopsHold(E, w)
      BY DEF Left, WalkInv
  <2> QED
      BY <1>12, <2>1 DEF LoopsHold
<1> QED
    BY <1>6, <1>9, <1>10, <1>11, <1>13 DEF WalkInv

(* The edge p is taken, to a node left before.                              *)
LEMMA PassHolds ==
    ASSUME NEW E, E \subseteq Pairs, NEW w, WalkInv(E, w), w.stack # <<>>,
           NEW p \in w.left, p[1] = w.stack[Len(w.stack)], w.mark[p[2]] = "done",
           NEW v, WalkTyped(E, v), v.left = w.left \ {p}, v.mark = w.mark, v.stack = w.stack,
           v.dropped = w.dropped, v.loops = w.loops
    PROVE  WalkInv(E, v)
<1>1. \A q : OnPath(v, q) <=> OnPath(w, q)
    BY DEF OnPath
<1>2. StackIsMarked(v)
    BY DEF WalkInv, StackIsMarked
<1>6. StackIsPath(E, v)
    BY <1>1 DEF WalkInv, StackIsPath
<1>7. DoneIsSorted(E, v)
    BY DEF WalkInv, DoneIsSorted
<1>3. EndsAreKnown(E, v)
  <2>1. w.mark[p[1]] = "stacked"
    <3>1. Len(w.stack) \in 1 .. Len(w.stack) /\ w.stack[Len(w.stack)] \in Accounts
        BY DEF WalkInv, WalkTyped
    <3> QED
        BY <3>1 DEF WalkInv, StackIsMarked
  <2> QED
      BY <1>1, <2>1 DEF WalkInv, EndsAreKnown
<1>4. \A c : StaysInPlace(v, c) <=> StaysInPlace(w, c)
    BY DEF StaysInPlace
<1>5. LoopsHold(E, v)
  <2>1. v.dropped = w.dropped /\ v.loops = w.loops /\ LoopsHold(E, w)
      BY DEF WalkInv
  <2> QED
      BY <1>4, <2>1 DEF LoopsHold
<1> QED
    BY <1>2, <1>3, <1>5, <1>6, <1>7 DEF WalkInv

LEMMA RangeIs ==
    ASSUME NEW V, NEW c \in Seq(V)
    PROVE  /\ Len(c) \in Nat
           /\ \A i \in 1 .. Len(c) : c[i] \in V /\ c[i] \in Range(c)
           /\ \A x \in Range(c) : \E i \in 1 .. Len(c) : x = c[i]
<1>1. Len(c) \in Nat /\ DOMAIN c = 1 .. Len(c) /\ \A i \in 1 .. Len(c) : c[i] \in V
    OBVIOUS
<1> QED
    BY <1>1 DEF Range

(* Two stretches of the stack over the same nodes are one.                  *)
LEMMA StretchesAgree ==
    ASSUME NEW s \in Seq(Accounts), \A i, j \in 1 .. Len(s) : s[i] = s[j] => i = j,
           NEW c \in Seq(Accounts), NEW d \in Seq(Accounts), Len(c) # 0, Len(d) # 0,
           NEW h \in 0 .. Len(s) - Len(c), \A i \in 1 .. Len(c) : s[h + i] = c[i],
           NEW k \in 0 .. Len(s) - Len(d), \A i \in 1 .. Len(d) : s[k + i] = d[i],
           Range(c) = Range(d)
    PROVE  c[1] = d[1] /\ c[Len(c)] = d[Len(d)]
<1> DEFINE L == Len(s)
           C == Len(c)
           D == Len(d)
<1>1. /\ \A i \in 1 .. C : \E j \in 1 .. D : c[i] = d[j]
      /\ \A j \in 1 .. D : \E i \in 1 .. C : d[j] = c[i]
  <2>1. /\ \A i \in 1 .. C : c[i] \in Range(d)
        /\ \A j \in 1 .. D : d[j] \in Range(c)
      BY RangeIs
  <2> QED
      BY <2>1, RangeIs
<1>2. L \in Nat /\ C \in Nat \ {0} /\ D \in Nat \ {0}
    OBVIOUS
<1> HIDE DEF L, C, D
<1>3. /\ \A i \in 1 .. C : h + i \in 1 .. L /\ s[h + i] = c[i]
      /\ \A j \in 1 .. D : k + j \in 1 .. L /\ s[k + j] = d[j]
    BY <1>2 DEF L, C, D
<1>4. ASSUME NEW i \in 1 .. C
      PROVE  \E j \in 1 .. D : h + i = k + j
  <2>1. PICK j \in 1 .. D : c[i] = d[j]
      BY <1>1
  <2> QED
      BY <1>3, <2>1 DEF L
<1>5. ASSUME NEW j \in 1 .. D
      PROVE  \E i \in 1 .. C : h + i = k + j
  <2>1. PICK i \in 1 .. C : d[j] = c[i]
      BY <1>1
  <2> QED
      BY <1>3, <2>1 DEF L
<1>6. h \in Nat /\ k \in Nat
    OBVIOUS
<1>10. 1 \in 1 .. C /\ C \in 1 .. C /\ 1 \in 1 .. D /\ D \in 1 .. D
    BY <1>2
<1>7. h + 1 >= k + 1 /\ h + C <= k + D
  <2>1. (\E j \in 1 .. D : h + 1 = k + j) /\ \E j \in 1 .. D : h + C = k + j
      BY <1>4, <1>10
  <2> QED
      BY <1>2, <1>6, <2>1
<1>8. k + 1 >= h + 1 /\ k + D <= h + C
  <2>1. (\E i \in 1 .. C : h + i = k + 1) /\ \E i \in 1 .. C : h + i = k + D
      BY <1>5, <1>10
  <2> QED
      BY <1>2, <1>6, <2>1
<1>9. h = k /\ C = D
    BY <1>2, <1>6, <1>7, <1>8
<1>11. c[1] = s[h + 1] /\ d[1] = s[k + 1] /\ c[C] = s[h + C] /\ d[D] = s[k + D]
    BY <1>3, <1>10
<1> QED
    BY <1>9, <1>11 DEF C, D

LEMMA StackIs ==
    ASSUME NEW E, NEW w, WalkInv(E, w)
    PROVE  /\ w.stack \in Seq(Accounts) /\ Len(w.stack) \in Nat
           /\ \A i \in 1 .. Len(w.stack) :
                 w.mark[w.stack[i]] = "stacked" /\ w.stack[i] \in Accounts
           /\ \A i, j \in 1 .. Len(w.stack) : w.stack[i] = w.stack[j] => i = j
           /\ w.stack # <<>> => Len(w.stack) # 0 /\ Len(w.stack) \in 1 .. Len(w.stack)
<1>1. w.stack \in Seq(Accounts) /\ Len(w.stack) \in Nat
    BY DEF WalkInv, WalkTyped
<1>2. w.stack # <<>> => Len(w.stack) # 0
    BY <1>1
<1>3. \A i \in 1 .. Len(w.stack) : w.stack[i] \in Accounts
    BY <1>1
<1> QED
    BY <1>1, <1>2, <1>3 DEF WalkInv, StackIsMarked

(* What is closed is a loop, over other nodes than the loops before it.     *)
LEMMA ClosesLoop ==
    ASSUME NEW E, E \subseteq Pairs, NEW w, WalkInv(E, w), w.stack # <<>>,
           NEW v, NEW p, NEW c, Dropped(w, v, p, c)
    PROVE  /\ IsLoop(E, c) /\ Closing(c) = p /\ InPlace(w.stack, c)
           /\ \A i \in 1 .. Len(c) : w.mark[c[i]] = "stacked"
           /\ p \in E /\ p \notin w.dropped
<1> DEFINE L == Len(w.stack)
           C == Len(c)
<1>1. p \in E /\ p[1] # p[2] /\ p = <<p[1], p[2]>> /\ p \notin w.dropped
    BY PairsAre DEF Dropped, WalkInv, WalkTyped, EndsAreKnown
<1>2. PICK h \in 0 .. L - 1 : /\ w.stack[h + 1] = p[2] /\ C = L - h
                              /\ \A i \in 1 .. C : w.stack[h + i] = c[i]
    BY DEF Dropped
<1>3. L \in Nat \ {0} /\ h \in Nat /\ C \in Nat \ {0} /\ h + C = L
    BY <1>2, StackIs
<1>4. /\ \A i \in 1 .. L : w.mark[w.stack[i]] = "stacked" /\ w.stack[i] \in Accounts
      /\ \A i, j \in 1 .. L : w.stack[i] = w.stack[j] => i = j
      /\ p[1] = w.stack[L]
    BY StackIs DEF Dropped
<1>5. c \in Seq(Accounts)
    BY DEF Dropped
<1>6. \A q : OnPath(w, q) => q \in E
    BY DEF WalkInv, StackIsPath
<1> HIDE DEF L, C
<1>7. \A i \in 1 .. C : h + i \in 1 .. L /\ c[i] = w.stack[h + i]
    BY <1>2, <1>3
<1>8. C # 1
    BY <1>1, <1>2, <1>3, <1>4
<1>9. C >= 2 /\ 1 \in 1 .. C /\ C \in 1 .. C
    BY <1>3, <1>8
<1>10. Closing(c) = p
  <2>1. c[1] = p[2] /\ c[C] = p[1]
      BY <1>2, <1>3, <1>4, <1>7, <1>9
  <2> QED
      BY <1>1, <2>1 DEF Closing, C
<1>11. \A i, j \in 1 .. C : c[i] = c[j] => i = j
  <2> SUFFICES ASSUME NEW i \in 1 .. C, NEW j \in 1 .. C, c[i] = c[j]
               PROVE  i = j
      OBVIOUS
  <2>1. h + i = h + j
      BY <1>4, <1>7
  <2> QED
      BY <1>3, <2>1
<1>12. ASSUME NEW i \in 1 .. C - 1
       PROVE  <<c[i], c[i + 1]>> \in E
  <2>1. i \in 1 .. C /\ i + 1 \in 1 .. C /\ h + (i + 1) = (h + i) + 1
      BY <1>3
  <2>2. h + i \in 1 .. L - 1
      BY <1>3
  <2>3. c[i] = w.stack[h + i] /\ c[i + 1] = w.stack[(h + i) + 1]
      BY <1>7, <2>1
  <2>4. OnPath(w, <<c[i], c[i + 1]>>)
      BY <2>2, <2>3 DEF OnPath, L
  <2> QED
      BY <1>6, <2>4
<1>13. IsLoop(E, c)
    BY <1>1, <1>5, <1>9, <1>10, <1>11, <1>12 DEF IsLoop, C
<1>14. InPlace(w.stack, c)
  <2>1. h \in 0 .. L - C
      BY <1>3
  <2> QED
      BY <1>2, <2>1 DEF InPlace, L, C
<1>15. \A i \in 1 .. C : w.mark[c[i]] = "stacked"
    BY <1>4, <1>7
<1> QED
    BY <1>1, <1>10, <1>13, <1>14, <1>15 DEF C

LEMMA DropHolds ==
    ASSUME NEW E, E \subseteq Pairs, NEW w, WalkInv(E, w), w.stack # <<>>,
           NEW v, WalkTyped(E, v), NEW p, NEW c, Dropped(w, v, p, c)
    PROVE  WalkInv(E, v)
<1> DEFINE M == Len(w.loops)
<1>1. /\ IsLoop(E, c) /\ Closing(c) = p /\ InPlace(w.stack, c)
      /\ \A i \in 1 .. Len(c) : w.mark[c[i]] = "stacked"
      /\ p \in E /\ p \notin w.dropped
    BY ClosesLoop
<1>2. /\ v.left = w.left \ {p} /\ v.mark = w.mark /\ v.stack = w.stack
      /\ v.dropped = w.dropped \cup {p} /\ v.loops = Append(w.loops, c) /\ c \in Seq(Accounts)
    BY DEF Dropped
<1>3. w.mark[p[1]] = "stacked"
    BY StackIs DEF Dropped
<1>4. \A q : OnPath(v, q) <=> OnPath(w, q)
    BY <1>2 DEF OnPath
<1>5. StackIsMarked(v)
    BY <1>2 DEF WalkInv, StackIsMarked
<1>6. StackIsPath(E, v)
    BY <1>2, <1>4 DEF WalkInv, StackIsPath
<1>7. DoneIsSorted(E, v)
  <2>1. \A S : Sorted(E \ w.dropped, S) => Sorted(E \ v.dropped, S)
      BY <1>2 DEF Sorted
  <2> QED
      BY <1>2, <2>1 DEF WalkInv, DoneIsSorted
<1>8. EndsAreKnown(E, v)
    BY <1>1, <1>2, <1>3, <1>4 DEF WalkInv, EndsAreKnown
<1>9. \A d : StaysInPlace(w, d) => StaysInPlace(v, d)
    BY <1>2 DEF StaysInPlace
<1>10. StaysInPlace(v, c)
    BY <1>1, <1>2 DEF StaysInPlace
<1>11. ASSUME NEW d, IsLoop(E, d), StaysInPlace(w, d), Range(d) = Range(c)
       PROVE  Closing(d) = p
  <2>1. /\ d \in Seq(Accounts) /\ Len(d) \in Nat /\ Len(d) # 0 /\ Len(d) \in 1 .. Len(d)
        /\ c \in Seq(Accounts) /\ Len(c) # 0
      BY <1>1, <1>11 DEF IsLoop
  <2>2. w.mark[d[Len(d)]] = "stacked"
    <3>1. d[Len(d)] \in Range(c)
        BY <1>11, <2>1, RangeIs
    <3> QED
        BY <1>1, <2>1, <3>1, RangeIs
  <2>3. InPlace(w.stack, d)
      BY <1>11, <2>2 DEF StaysInPlace
  <2>4. PICK h \in 0 .. Len(w.stack) - Len(d) : \A i \in 1 .. Len(d) : w.stack[h + i] = d[i]
      BY <2>3 DEF InPlace
  <2>5. PICK k \in 0 .. Len(w.stack) - Len(c) : \A i \in 1 .. Len(c) : w.stack[k + i] = c[i]
      BY <1>1 DEF InPlace
  <2> DEFINE s == w.stack
  <2>7. s \in Seq(Accounts) /\ \A i, j \in 1 .. Len(s) : s[i] = s[j] => i = j
      BY StackIs
  <2>8. /\ h \in 0 .. Len(s) - Len(d) /\ \A i \in 1 .. Len(d) : s[h + i] = d[i]
        /\ k \in 0 .. Len(s) - Len(c) /\ \A i \in 1 .. Len(c) : s[k + i] = c[i]
      BY <2>4, <2>5
  <2> HIDE DEF s
  <2>6. d[1] = c[1] /\ d[Len(d)] = c[Len(c)]
      BY <1>11, <2>1, <2>7, <2>8, StretchesAgree
  <2> QED
      BY <1>1, <2>6 DEF Closing
<1>12. LoopsHold(E, w)
    BY DEF WalkInv
<1>13. w.loops \in Seq(Seq(Accounts)) /\ M \in Nat
    BY DEF WalkInv, WalkTyped
<1>14. /\ Len(v.loops) = M + 1 /\ v.loops[M + 1] = c
       /\ \A l \in 1 .. M : v.loops[l] = w.loops[l]
    BY <1>2, <1>13
<1>15. /\ \A l \in 1 .. M + 1 : l \in 1 .. M \/ l = M + 1
       /\ \A l \in 1 .. M : l \in 1 .. M + 1 /\ l # M + 1
       /\ M + 1 \in 1 .. M + 1
    BY <1>13
<1> HIDE DEF M
<1>16. ASSUME NEW l \in 1 .. M
       PROVE  /\ IsLoop(E, w.loops[l]) /\ Closing(w.loops[l]) \in w.dropped
              /\ StaysInPlace(w, w.loops[l]) /\ Range(w.loops[l]) # Range(c)
  <2>1. /\ IsLoop(E, w.loops[l]) /\ Closing(w.loops[l]) \in w.dropped
        /\ StaysInPlace(w, w.loops[l])
      BY <1>12 DEF LoopsHold, M
  <2> QED
      BY <1>1, <1>11, <2>1
<1>17. LoopsHold(E, v)
  <2>1. ASSUME NEW l \in 1 .. M + 1
        PROVE  /\ IsLoop(E, v.loops[l]) /\ Closing(v.loops[l]) \in v.dropped
               /\ StaysInPlace(v, v.loops[l])
    <3>1. CASE l = M + 1
        BY <1>1, <1>2, <1>10, <1>14, <3>1
    <3>2. CASE l \in 1 .. M
        BY <1>2, <1>9, <1>14, <1>16, <3>2
    <3> QED
        BY <1>15, <3>1, <3>2
  <2>2. ASSUME NEW l \in 1 .. M + 1, NEW m \in 1 .. M + 1, Range(v.loops[l]) = Range(v.loops[m])
        PROVE  l = m
    <3>1. CASE l \in 1 .. M /\ m \in 1 .. M
        BY <1>12, <1>14, <2>2, <3>1 DEF LoopsHold, M
    <3> QED
        BY <1>14, <1>15, <1>16, <2>2, <3>1
  <2>3. ASSUME NEW q \in v.dropped
        PROVE  \E l \in 1 .. M + 1 : q = Closing(v.loops[l])
    <3>1. CASE q = p
        BY <1>1, <1>14, <1>15, <3>1
    <3>2. CASE q \in w.dropped
      <4>1. PICK l \in 1 .. M : q = Closing(w.loops[l])
          BY <1>12, <3>2 DEF LoopsHold, M
      <4> QED
          BY <1>14, <1>15, <4>1
    <3> QED
        BY <1>2, <3>1, <3>2
  <2> QED
      BY <1>14, <2>1, <2>2, <2>3 DEF LoopsHold
<1> QED
    BY <1>5, <1>6, <1>7, <1>8, <1>17 DEF WalkInv

Fresh(w) == {n \in Accounts : w.mark[n] = "new"}

Unleft(w) == {n \in Accounts : w.mark[n] # "done"}

Finished(w) == w.stack = <<>> /\ Roots(w) = {}

(* What is still to be done gets less.                                      *)
Advances(w, v) ==
    /\ Fresh(v) \subseteq Fresh(w) /\ Unleft(v) \subseteq Unleft(w) /\ v.left \subseteq w.left
    /\ Fresh(v) # Fresh(w) \/ Unleft(v) # Unleft(w) \/ v.left # w.left

LEMMA MinIs ==
    ASSUME NEW T, T \subseteq Nat, T # {}
    PROVE  Min(T) \in T
<1>1. \E n \in T : \A m \in T : n <= m
    BY LeastOf
<1> QED
    BY <1>1 DEF Min

LEMMA RootIsEntered ==
    ASSUME NEW E, E \subseteq Pairs, NEW w, WalkInv(E, w), w.stack = <<>>, Roots(w) # {}
    PROVE  WalkInv(E, Go(w)) /\ Advances(w, Go(w))
<1> DEFINE n == Min(Roots(w))
           v == Enter(w, n)
<1>1. Go(w) = v
    BY DEF Go
<1>2. n \in Roots(w)
  <2>1. Roots(w) \subseteq Nat
      BY ReportsAssumption DEF Roots
  <2> QED
      BY <2>1, MinIs
<1>3. n \in Accounts /\ w.mark[n] = "new"
    BY <1>2 DEF Roots
<1>4. WalkTyped(E, w) /\ w.mark \in [Accounts -> Marks]
    BY DEF WalkInv, WalkTyped
<1> HIDE DEF n
<1>5. WalkTyped(E, v) /\ Pushed(w, v, n)
    BY <1>3, <1>4, EnterIs
<1> HIDE DEF v
<1>6. Entered(E, w, v, n)
    BY <1>5 DEF Entered, Pushed
<1>7. WalkInv(E, v)
    BY <1>3, <1>5, <1>6, EnterHolds
<1>8. Advances(w, v)
  <2>1. \A m \in Accounts : v.mark[m] = IF m = n THEN "stacked" ELSE w.mark[m]
      BY <1>4, <1>5 DEF Pushed
  <2> QED
      BY <1>3, <1>5, <2>1 DEF Advances, Fresh, Unleft, Pushed
<1> QED
    BY <1>1, <1>7, <1>8

LEMMA TopIsLeft ==
    ASSUME NEW E, E \subseteq Pairs, NEW w, WalkInv(E, w), w.stack # <<>>, Onward(w) = {}
    PROVE  WalkInv(E, Go(w)) /\ Advances(w, Go(w))
<1> DEFINE v == Leave(w)
           top == w.stack[Len(w.stack)]
<1>1. Go(w) = v
    BY DEF Go
<1>2. WalkTyped(E, w) /\ w.mark \in [Accounts -> Marks] /\ w.left \subseteq Pairs
    BY DEF WalkInv, WalkTyped
<1>8. top \in Accounts /\ w.mark[top] = "stacked"
    BY StackIs
<1>3. WalkTyped(E, v) /\ Popped(w, v, top)
    BY <1>2, LeaveIs
<1>4. ASSUME NEW p \in w.left
      PROVE  p[1] # top
  <2>1. p = <<p[1], p[2]>> /\ p[2] \in Accounts
      BY <1>2, PairsAre
  <2> QED
      BY <2>1 DEF Onward, Last
<1> HIDE DEF v
<1>5. Left(w, v)
    BY <1>3, <1>4 DEF Left, Popped
<1>6. WalkInv(E, v)
    BY <1>3, <1>5, LeaveHolds
<1> HIDE DEF top
<1>7. Advances(w, v)
  <2>1. \A m \in Accounts : v.mark[m] = IF m = top THEN "done" ELSE w.mark[m]
      BY <1>2, <1>3, <1>8 DEF Popped
  <2> QED
      BY <1>3, <1>8, <2>1 DEF Advances, Fresh, Unleft, Popped
<1> QED
    BY <1>1, <1>6, <1>7

LEMMA EdgeIsTaken ==
    ASSUME NEW E, E \subseteq Pairs, NEW w, WalkInv(E, w), w.stack # <<>>, Onward(w) # {}
    PROVE  WalkInv(E, Go(w)) /\ Advances(w, Go(w))
<1> DEFINE n == Min(Onward(w))
           top == w.stack[Len(w.stack)]
           p == <<top, n>>
           v == Take(w, p)
           taken == Untaken(w, p)
<1>1. Go(w) = v
    BY DEF Go, Last
<1>2. n \in Accounts /\ p \in w.left
  <2>1. Onward(w) \subseteq Nat
      BY ReportsAssumption DEF Onward
  <2>2. n \in Onward(w)
      BY <2>1, MinIs
  <2> QED
      BY <2>2 DEF Onward, Last
<1>3. /\ WalkTyped(E, w) /\ w.mark \in [Accounts -> Marks] /\ w.left \subseteq E
      /\ StackIsMarked(w) /\ p[1] = top /\ p[2] = n
    BY DEF WalkInv, WalkTyped
<1> HIDE DEF n, top, p
<1>4. /\ WalkTyped(E, taken) /\ taken.left = w.left \ {p}
      /\ taken.mark = w.mark /\ taken.stack = w.stack
      /\ taken.dropped = w.dropped /\ taken.loops = w.loops
      /\ w.mark[n] = "new" => v = Enter(taken, n)
      /\ w.mark[n] = "done" => v = taken
    BY <1>2, <1>3, TakeIs
<1> HIDE DEF taken
<1>5. CASE w.mark[n] = "new"
  <2>1. v = Enter(taken, n)
      BY <1>4, <1>5
  <2>7. WalkTyped(E, v) /\ Pushed(taken, v, n)
      BY <1>2, <1>4, <2>1, EnterIs
  <2> HIDE DEF v
  <2>2. /\ WalkTyped(E, v)
        /\ v.left = w.left \ {p} /\ v.dropped = w.dropped /\ v.loops = w.loops
        /\ v.mark = [w.mark EXCEPT ![n] = "stacked"]
        /\ Len(v.stack) = Len(w.stack) + 1
        /\ \A i \in 1 .. Len(w.stack) : v.stack[i] = w.stack[i]
        /\ v.stack[Len(w.stack) + 1] = n
      BY <1>4, <2>7 DEF Pushed
  <2>3. Entered(E, w, v, n)
      BY <1>2, <1>3, <2>2 DEF Entered, p, top
  <2>4. WalkInv(E, v)
      BY <1>2, <1>5, <2>2, <2>3, EnterHolds
  <2>5. \A m \in Accounts : v.mark[m] = IF m = n THEN "stacked" ELSE w.mark[m]
      BY <1>3, <2>2
  <2>6. Advances(w, v)
      BY <1>2, <1>5, <2>2, <2>5 DEF Advances, Fresh, Unleft
  <2> QED
      BY <1>1, <2>4, <2>6 DEF v
<1>6. CASE w.mark[n] = "done"
  <2>1. v = taken
      BY <1>4, <1>6
  <2> HIDE DEF v
  <2>2. WalkInv(E, v)
      BY <1>2, <1>3, <1>4, <1>6, <2>1, PassHolds DEF top
  <2>3. Advances(w, v)
      BY <1>2, <1>4, <2>1 DEF Advances, Fresh, Unleft
  <2> QED
      BY <1>1, <2>2, <2>3 DEF v
<1>7. CASE w.mark[n] = "stacked"
  <2> DEFINE c == Behind(w.stack, n)
  <2>1. p[1] = w.stack[Len(w.stack)] /\ p[2] = n
      BY <1>3 DEF top
  <2>2. WalkTyped(E, v) /\ Dropped(w, v, p, c)
      BY <1>2, <1>3, <1>7, <2>1, DropIs
  <2> HIDE DEF v, c
  <2>5. WalkInv(E, v)
      BY <2>2, DropHolds
  <2>6. Advances(w, v)
      BY <1>2, <2>2 DEF Dropped, Advances, Fresh, Unleft
  <2> QED
      BY <1>1, <2>5, <2>6 DEF v
<1> QED
    BY <1>2, <1>3, <1>5, <1>6, <1>7 DEF Marks

LEMMA GoHolds ==
    ASSUME NEW E, E \subseteq Pairs, NEW w, WalkInv(E, w)
    PROVE  /\ WalkInv(E, Go(w))
           /\ IF Finished(w) THEN Go(w) = w ELSE Advances(w, Go(w))
<1>1. CASE Finished(w)
    BY <1>1 DEF Finished, Go
<1>2. CASE ~ Finished(w)
    BY <1>2, RootIsEntered, TopIsLeft, EdgeIsTaken DEF Finished
<1> QED
    BY <1>1, <1>2

(* What is still to be done, as a number.                                   *)
ToDo(w) == Cardinality(Fresh(w)) + Cardinality(Unleft(w)) + Cardinality(w.left)

LEMMA ToDoCounts ==
    ASSUME NEW E, E \subseteq Pairs, NEW w, WalkInv(E, w)
    PROVE  /\ IsFiniteSet(Fresh(w)) /\ IsFiniteSet(Unleft(w)) /\ IsFiniteSet(w.left)
           /\ Cardinality(Fresh(w)) \in Nat /\ Cardinality(Unleft(w)) \in Nat
           /\ Cardinality(w.left) \in Nat /\ ToDo(w) \in Nat
<1>1. /\ Fresh(w) \subseteq Accounts /\ Unleft(w) \subseteq Accounts /\ w.left \subseteq Pairs
    BY DEF Fresh, Unleft, WalkInv, WalkTyped
<1>2. IsFiniteSet(Fresh(w)) /\ IsFiniteSet(Unleft(w)) /\ IsFiniteSet(w.left)
    BY <1>1, ReportsAssumption, PairsAre, FS_Subset
<1>3. /\ Cardinality(Fresh(w)) \in Nat /\ Cardinality(Unleft(w)) \in Nat
      /\ Cardinality(w.left) \in Nat
    BY <1>2, FS_CardinalityType
<1> QED
    BY <1>2, <1>3 DEF ToDo

LEMMA Fewer ==
    ASSUME NEW S, IsFiniteSet(S), NEW T, T \subseteq S
    PROVE  /\ Cardinality(T) <= Cardinality(S)
           /\ T # S => Cardinality(T) # Cardinality(S)
BY FS_Subset

LEMMA AdvanceCounts ==
    ASSUME NEW E, E \subseteq Pairs, NEW w, WalkInv(E, w), NEW v, WalkInv(E, v), Advances(w, v)
    PROVE  ToDo(v) < ToDo(w)
<1> DEFINE a == Cardinality(Fresh(w))
           b == Cardinality(Unleft(w))
           c == Cardinality(w.left)
           x == Cardinality(Fresh(v))
           y == Cardinality(Unleft(v))
           z == Cardinality(v.left)
<1>1. /\ IsFiniteSet(Fresh(w)) /\ IsFiniteSet(Unleft(w)) /\ IsFiniteSet(w.left)
      /\ a \in Nat /\ b \in Nat /\ c \in Nat /\ x \in Nat /\ y \in Nat /\ z \in Nat
    BY ToDoCounts
<1>2. /\ x <= a /\ (Fresh(v) # Fresh(w) => x # a)
      /\ y <= b /\ (Unleft(v) # Unleft(w) => y # b)
      /\ z <= c /\ (v.left # w.left => z # c)
    BY <1>1, Fewer DEF Advances
<1>3. x # a \/ y # b \/ z # c
    BY <1>2 DEF Advances
<1>4. ToDo(v) = x + y + z /\ ToDo(w) = a + b + c
    BY DEF ToDo
<1> HIDE DEF a, b, c, x, y, z
<1> QED
    BY <1>1, <1>2, <1>3, <1>4

(* A walk that is finished has taken every edge, and one that has nothing   *)
(* left to do is finished.                                                  *)
LEMMA FinishedWalk ==
    ASSUME NEW E, E \subseteq Pairs, NEW w, WalkInv(E, w)
    PROVE  /\ Finished(w) => w.left = {}
           /\ ToDo(w) = 0 => Finished(w)
<1>1. ASSUME Finished(w), NEW p \in w.left
      PROVE  FALSE
  <2>1. p[1] \in Accounts /\ w.mark[p[1]] \in Marks
      BY PairsAre DEF WalkInv, WalkTyped
  <2>2. w.mark[p[1]] # "done"
      BY DEF WalkInv, EndsAreKnown
  <2>3. w.mark[p[1]] # "stacked"
    <3>1. 1 .. Len(w.stack) = {}
        BY <1>1 DEF Finished
    <3> QED
        BY <2>1, <3>1 DEF WalkInv, StackIsMarked
  <2>4. p[1] \in Roots(w)
      BY <2>1, <2>2, <2>3 DEF Roots, Marks
  <2> QED
      BY <1>1, <2>4 DEF Finished
<1>2. ASSUME ToDo(w) = 0
      PROVE  Finished(w)
  <2>1. Cardinality(Fresh(w)) = 0 /\ Cardinality(Unleft(w)) = 0
      BY <1>2, ToDoCounts DEF ToDo
  <2>2. Fresh(w) = {} /\ Unleft(w) = {}
      BY <2>1, ToDoCounts, FS_EmptySet
  <2>3. Roots(w) = {}
      BY <2>2 DEF Roots, Fresh
  <2>4. w.stack = <<>>
    <3>1. SUFFICES ASSUME w.stack # <<>>
                   PROVE  FALSE
        OBVIOUS
    <3>2. w.stack[Len(w.stack)] \in Unleft(w)
        BY <3>1, StackIs DEF Unleft
    <3> QED
        BY <2>2, <3>2
  <2> QED
      BY <2>3, <2>4 DEF Finished
<1> QED
    BY <1>1, <1>2

WalksOver(E) ==
    {w \in [mark : [Accounts -> Marks], stack : Seq(Accounts), left : SUBSET E,
            dropped : SUBSET E, loops : Seq(Seq(Accounts))] : WalkInv(E, w)}

LEMMA InWalksOver ==
    ASSUME NEW E, NEW w
    PROVE  w \in WalksOver(E) <=> WalkInv(E, w)
BY DEF WalksOver, WalkInv, WalkTyped

(* The walk reaches its end within the passes it is given.                  *)
LEMMA WalkEnds ==
    ASSUME NEW gross
    PROVE  WalkInv(Surviving(gross), Walk(gross)) /\ Finished(Walk(gross))
<1> DEFINE E == Surviving(gross)
           N == Passes
           first == NewWalk(E)
           Solves(h) == h = [n \in 0 .. N |-> IF n = 0 THEN first ELSE Go(h[n - 1])]
           G == CHOOSE h : Solves(h)
           V == WalksOver(E)
           F == [x \in V \X (1 .. N) |-> Go(x[1])]
<1>1. Walk(gross) = G[N]
    BY DEF Walk
<1>2. E \subseteq Pairs
    BY DEF Surviving
<1>3. Cardinality(Accounts) \in Nat /\ Cardinality(Pairs) \in Nat /\ N \in Nat
    BY ReportsAssumption, PairsAre, FS_CardinalityType DEF Passes
<1> HIDE DEF E, N
<1>4. WalkInv(E, first) /\ first \in V
    BY <1>2, NewWalkHolds, InWalksOver
<1>5. ToDo(first) <= N
  <2>1. Fresh(first) \subseteq Accounts /\ Unleft(first) \subseteq Accounts /\ first.left = E
      BY DEF Fresh, Unleft, NewWalk
  <2>2. /\ Cardinality(Fresh(first)) <= Cardinality(Accounts)
        /\ Cardinality(Unleft(first)) <= Cardinality(Accounts)
        /\ Cardinality(first.left) <= Cardinality(Pairs)
      BY <1>2, <2>1, ReportsAssumption, PairsAre, Fewer
  <2>3. /\ Cardinality(Fresh(first)) \in Nat /\ Cardinality(Unleft(first)) \in Nat
        /\ Cardinality(first.left) \in Nat
      BY <1>2, <1>4, ToDoCounts
  <2> QED
      BY <1>3, <2>2, <2>3 DEF ToDo, N, Passes
<1> HIDE DEF first, V
<1>6. \A w \in V : WalkInv(E, w) /\ Go(w) \in V
    BY <1>2, InWalksOver, GoHolds DEF V
<1>7. F \in [V \X (1 .. N) -> V]
  <2>1. \A x \in V \X (1 .. N) : Go(x[1]) \in V
      BY <1>6
  <2> QED
      BY <2>1
<1>8. CanRun(V, first, N, F)
  <2> HIDE DEF F
  <2> QED
      BY <1>3, <1>4, <1>7, RunExists
<1>9. PICK g \in [0 .. N -> V] : g[0] = first /\ \A k \in 1 .. N : g[k] = F[<<g[k - 1], k>>]
    BY <1>8 DEF CanRun
<1>10. ASSUME NEW k \in 1 .. N
       PROVE  g[k] = Go(g[k - 1])
  <2>1. k - 1 \in 0 .. N
      BY <1>3
  <2>2. g[k - 1] \in V
      BY <2>1
  <2>3. <<g[k - 1], k>> \in V \X (1 .. N)
      BY <2>2
  <2> QED
      BY <1>9, <2>3
<1> HIDE DEF F
<1>11. Solves(g)
  <2>1. \A k \in 0 .. N : k = 0 \/ k \in 1 .. N
      BY <1>3
  <2>2. \A k \in 0 .. N : g[k] = IF k = 0 THEN first ELSE Go(g[k - 1])
      BY <1>9, <1>10, <2>1
  <2> QED
      BY <2>2
<1>12. Solves(G)
    BY <1>11
<1> HIDE DEF G
<1>13. G[0] = first /\ \A k \in 1 .. N : G[k] = Go(G[k - 1])
    BY <1>3, <1>12
<1> DEFINE T == {k \in 0 .. N : G[k] \in V /\ (Finished(G[k]) \/ ToDo(G[k]) <= N - k)}
<1>14. 0 \in T
    BY <1>3, <1>4, <1>5, <1>13
<1>15. ASSUME NEW k \in 0 .. (N - 1), k \in T
       PROVE  k + 1 \in T
  <2>1. k + 1 \in 1 .. N /\ k + 1 \in 0 .. N /\ (k + 1) - 1 = k
      BY <1>3
  <2>2. G[k + 1] = Go(G[k])
      BY <1>13, <2>1
  <2>3. G[k] \in V /\ (Finished(G[k]) \/ ToDo(G[k]) <= N - k)
      BY <1>15
  <2> DEFINE w == G[k]
             v == G[k + 1]
  <2>4. /\ WalkInv(E, w) /\ v \in V /\ WalkInv(E, v)
        /\ IF Finished(w) THEN v = w ELSE Advances(w, v)
    <3>1. WalkInv(E, w) /\ Go(w) \in V
        BY <1>6, <2>3
    <3>2. v = Go(w) /\ WalkInv(E, v)
        BY <1>6, <2>2, <3>1
    <3>3. IF Finished(w) THEN Go(w) = w ELSE Advances(w, Go(w))
        BY <1>2, <3>1, GoHolds
    <3> HIDE DEF v, w
    <3> QED
        BY <3>1, <3>2, <3>3
  <2>5. Finished(v) \/ ToDo(v) <= N - (k + 1)
    <3>1. ToDo(w) \in Nat /\ ToDo(v) \in Nat
        BY <1>2, <2>4, ToDoCounts
    <3>2. CASE Finished(w)
        BY <2>4, <3>2
    <3>3. CASE ~ Finished(w)
      <4>1. ToDo(v) < ToDo(w) /\ ToDo(w) <= N - k
          BY <1>2, <2>3, <2>4, <3>3, AdvanceCounts
      <4> HIDE DEF v, w
      <4> QED
          BY <1>3, <3>1, <4>1
    <3> QED
        BY <3>2, <3>3
  <2> QED
      BY <2>1, <2>4, <2>5
<1> HIDE DEF T
<1>16. \A k \in 0 .. N : k \in T
    BY <1>3, <1>14, <1>15, Induct
<1>17. G[N] \in V /\ (Finished(G[N]) \/ ToDo(G[N]) <= 0)
    BY <1>3, <1>16 DEF T
<1>18. WalkInv(E, G[N])
    BY <1>6, <1>17
<1>19. Finished(G[N])
  <2>1. ToDo(G[N]) \in Nat
      BY <1>2, <1>18, ToDoCounts
  <2>2. ToDo(G[N]) <= 0 => ToDo(G[N]) = 0
      BY <2>1
  <2> QED
      BY <1>2, <1>17, <1>18, <2>2, FinishedWalk
<1> QED
    BY <1>1, <1>18, <1>19 DEF E

(* The loops reported: the first of each set of nodes.                      *)
Lists(s, S) == s \in Seq(S) /\ \A x \in S : \E i \in 1 .. Len(s) : s[i] = x

LEMMA ListsAll ==
    ASSUME NEW S, IsFiniteSet(S)
    PROVE  Lists(SetToSeq(S), S)
<1> DEFINE n == Cardinality(S)
           s == SetToSeq(S)
           Is(f) == f \in [1 .. n -> S] /\ IsInjective(f)
<1>1. n \in Nat
    BY FS_CardinalityType
<1>2. PICK f \in [1 .. n -> S] : IsInjective(f)
  <2>1. \E f : f \in Bijection(1 .. n, S)
      BY FS_CardinalityType DEF ExistsBijection
  <2> QED
      BY <2>1 DEF Bijection, Injection
<1>3. s \in [1 .. n -> S] /\ IsInjective(s)
    BY <1>2 DEF SetToSeq
<1> HIDE DEF s
<1>4. s \in Surjection(1 .. n, S)
  <2>1. IsFiniteSet(1 .. n) /\ Cardinality(1 .. n) = n
      BY <1>1, FS_Interval
  <2>2. s \in Injection(1 .. n, S)
      BY <1>3 DEF Injection
  <2> HIDE DEF n
  <2>3. Cardinality(1 .. n) = Cardinality(S)
      BY <2>1 DEF n
  <2> QED
      BY <2>2, <2>3, FS_Injection
<1>5. \A x \in S : \E i \in 1 .. n : s[i] = x
    BY <1>4 DEF Surjection
<1> HIDE DEF n
<1>6. s \in Seq(S) /\ Len(s) = n
    BY <1>1, <1>3
<1> QED
    BY <1>5, <1>6 DEF Lists, s

Firsts(all) == {all[i] : i \in {j \in DOMAIN all : \A h \in 1 .. j - 1 : Range(all[h]) # Range(all[j])}}

LEMMA FirstsAre ==
    ASSUME NEW V, NEW all \in Seq(V)
    PROVE  /\ \A c \in Firsts(all) : \E j \in 1 .. Len(all) : c = all[j]
           /\ \A j \in 1 .. Len(all) : \E c \in Firsts(all) : Range(c) = Range(all[j])
<1>1. DOMAIN all = 1 .. Len(all) /\ Len(all) \in Nat
    OBVIOUS
<1>2. \A c \in Firsts(all) : \E j \in 1 .. Len(all) : c = all[j]
    BY <1>1 DEF Firsts
<1>3. ASSUME NEW j \in 1 .. Len(all)
      PROVE  \E c \in Firsts(all) : Range(c) = Range(all[j])
  <2> DEFINE T == {h \in 1 .. Len(all) : Range(all[h]) = Range(all[j])}
  <2>1. T \subseteq Nat /\ j \in T
      BY <1>1
  <2>2. PICK h \in T : \A g \in T : h <= g
      BY <2>1, LeastOf
  <2>3. h \in 1 .. Len(all) /\ Range(all[h]) = Range(all[j])
      BY <2>2
  <2>4. \A g \in 1 .. h - 1 : Range(all[g]) # Range(all[h])
    <3> SUFFICES ASSUME NEW g \in 1 .. h - 1, Range(all[g]) = Range(all[h])
                 PROVE  FALSE
        OBVIOUS
    <3>1. g \in 1 .. Len(all) /\ ~ (h <= g)
        BY <1>1, <2>3
    <3>2. g \in T
        BY <2>3, <3>1
    <3> QED
        BY <2>2, <3>1, <3>2
  <2>5. all[h] \in Firsts(all)
      BY <1>1, <2>3, <2>4 DEF Firsts
  <2> QED
      BY <2>3, <2>5
<1> QED
    BY <1>2, <1>3

IsReported(gross, c) ==
    \/ c \in Reciprocal(gross)
    \/ \E l \in 1 .. Len(Walk(gross).loops) : c = Walk(gross).loops[l]

LEMMA CyclesAre ==
    ASSUME NEW gross
    PROVE  /\ \A c \in Cycles(gross) : IsReported(gross, c)
           /\ \A c : IsReported(gross, c) => \E d \in Cycles(gross) : Range(d) = Range(c)
<1> DEFINE R == Reciprocal(gross)
           s == SetToSeq(R)
           t == Walk(gross).loops
           all == s \o t
           V == R \cup Seq(Accounts)
<1>1. Cycles(gross) = Firsts(all)
    BY DEF Cycles, Firsts
<1>2. IsFiniteSet(R)
  <2>1. R \subseteq Pairs
      BY DEF Reciprocal, Flowing
  <2> QED
      BY <2>1, PairsAre, FS_Subset
<1>3. s \in Seq(R) /\ \A x \in R : \E i \in 1 .. Len(s) : s[i] = x
    BY <1>2, ListsAll DEF Lists
<1>4. t \in Seq(Seq(Accounts))
    BY WalkEnds DEF WalkInv, WalkTyped
<1> HIDE DEF s, t, R
<1>5. s \in Seq(V) /\ t \in Seq(V)
    BY <1>3, <1>4
<1> HIDE DEF V
<1>6. /\ all \in Seq(V) /\ Len(all) = Len(s) + Len(t) /\ Len(s) \in Nat /\ Len(t) \in Nat
      /\ \A i \in 1 .. Len(s) : all[i] = s[i] /\ s[i] \in R
      /\ \A i \in 1 .. Len(t) : all[Len(s) + i] = t[i]
    BY <1>3, <1>5
<1> HIDE DEF all
<1>7. ASSUME NEW j \in 1 .. Len(s) + Len(t)
      PROVE  j \in 1 .. Len(s) \/ \E i \in 1 .. Len(t) : j = Len(s) + i
  <2>1. CASE j \notin 1 .. Len(s)
    <3>1. j - Len(s) \in 1 .. Len(t) /\ j = Len(s) + (j - Len(s))
        BY <1>6, <2>1
    <3> QED
        BY <3>1
  <2> QED
      BY <2>1
<1>11. /\ \A i \in 1 .. Len(s) : i \in 1 .. Len(s) + Len(t)
       /\ \A i \in 1 .. Len(t) : Len(s) + i \in 1 .. Len(s) + Len(t)
    BY <1>6
<1>8. ASSUME NEW c \in Cycles(gross)
      PROVE  IsReported(gross, c)
  <2>1. PICK j \in 1 .. Len(all) : c = all[j]
      BY <1>1, <1>6, FirstsAre
  <2>2. CASE j \in 1 .. Len(s)
      BY <1>6, <2>1, <2>2 DEF IsReported, R
  <2>3. CASE \E i \in 1 .. Len(t) : j = Len(s) + i
    <3>1. PICK i \in 1 .. Len(t) : j = Len(s) + i
        BY <2>3
    <3>2. c = t[i]
        BY <1>6, <2>1, <3>1
    <3> QED
        BY <3>2 DEF IsReported, t
  <2> QED
      BY <1>6, <1>7, <2>2, <2>3
<1>9. ASSUME NEW c, IsReported(gross, c)
      PROVE  \E j \in 1 .. Len(all) : c = all[j]
  <2>1. CASE c \in R
    <3>1. PICK i \in 1 .. Len(s) : s[i] = c
        BY <1>3, <2>1
    <3> QED
        BY <1>6, <1>11, <3>1
  <2>2. CASE \E l \in 1 .. Len(t) : c = t[l]
      BY <1>6, <1>11, <2>2
  <2> QED
      BY <1>9, <2>1, <2>2 DEF IsReported, R, t
<1>10. ASSUME NEW c, IsReported(gross, c)
       PROVE  \E d \in Cycles(gross) : Range(d) = Range(c)
  <2>1. PICK j \in 1 .. Len(all) : c = all[j]
      BY <1>9, <1>10
  <2> QED
      BY <1>1, <1>6, <2>1, FirstsAre
<1> QED
    BY <1>8, <1>10

LEMMA LegsAre ==
    ASSUME NEW c
    PROVE  \A p : p \in Legs(c)
                    <=> \/ \E i \in 1 .. Len(c) - 1 : p = <<c[i], c[i + 1]>>
                        \/ p = Closing(c)
BY DEF Legs, Closing

(* A loop of two nodes has both legs.                                       *)
LEMMA TwoNodes ==
    ASSUME NEW E, NEW c, IsLoop(E, c), NEW a, NEW b, Range(c) = {a, b}
    PROVE  <<a, b>> \in Legs(c) /\ <<b, a>> \in Legs(c)
<1>1. /\ c \in Seq(Accounts) /\ Len(c) \in Nat /\ Len(c) >= 2
      /\ \A i, j \in 1 .. Len(c) : c[i] = c[j] => i = j
    BY DEF IsLoop
<1>2. \A i \in 1 .. Len(c) : c[i] = a \/ c[i] = b
    BY <1>1, RangeIs
<1>3. 1 \in 1 .. Len(c) /\ 2 \in 1 .. Len(c)
    BY <1>1
<1>4. Len(c) = 2
  <2>1. SUFFICES ASSUME Len(c) # 2
                 PROVE  FALSE
      OBVIOUS
  <2>2. 3 \in 1 .. Len(c)
    <3> DEFINE n == Len(c)
    <3>1. n \in Nat /\ n >= 2 /\ n # 2
        BY <1>1, <2>1
    <3> HIDE DEF n
    <3>2. 3 \in 1 .. n
        BY <3>1
    <3> QED
        BY <3>2 DEF n
  <2>3. c[1] # c[2] /\ c[1] # c[3] /\ c[2] # c[3]
      BY <1>1, <1>3, <2>2
  <2> QED
      BY <1>2, <1>3, <2>2, <2>3
<1>5. (c[1] = a /\ c[2] = b) \/ (c[1] = b /\ c[2] = a)
  <2>1. c[1] # c[2]
      BY <1>1, <1>3
  <2>2. (c[1] = a \/ c[1] = b) /\ (c[2] = a \/ c[2] = b)
      BY <1>2, <1>3
  <2> QED
      BY <2>1, <2>2
<1>6. <<c[1], c[2]>> \in Legs(c) /\ <<c[2], c[1]>> \in Legs(c)
  <2>1. 1 \in 1 .. Len(c) - 1
      BY <1>4
  <2>2. <<c[1], c[1 + 1]>> \in Legs(c)
      BY <2>1, LegsAre
  <2> QED
      BY <1>4, <2>2, LegsAre DEF Closing
<1> QED
    BY <1>5, <1>6

LEMMA NettedIs ==
    ASSUME NEW gross \in [Pairs -> Amount], NEW p \in Pairs
    PROVE  /\ Opposite(p) \in Pairs /\ Opposite(Opposite(p)) = p
           /\ p = <<p[1], p[2]>> /\ p[1] \in Accounts /\ p[2] \in Accounts /\ p[1] # p[2]
           /\ p \in Surviving(gross) => p \in Flowing(gross)
           /\ Opposite(p) \notin Flowing(gross) => Netted(gross, p) = gross[p]
           /\ p \notin Surviving(gross) => Netted(gross, p) = Nothing
<1>1. /\ p = <<p[1], p[2]>> /\ p[1] \in Accounts /\ p[2] \in Accounts /\ p[1] # p[2]
      /\ <<p[2], p[1]>> \in Pairs
    BY PairsAre
<1>2. Opposite(p) = <<p[2], p[1]>> /\ Opposite(p) \in Pairs /\ Opposite(Opposite(p)) = p
    BY <1>1 DEF Opposite
<1> DEFINE x == gross[p]
           y == gross[Opposite(p)]
<1>3. x \in Amount /\ y \in Amount
    BY <1>2
<1>4. \A k \in Currencies : x[k] \in Nat /\ y[k] \in Nat
    BY <1>3 DEF Amount
<1>5. Netted(gross, p) = [k \in Currencies |-> IF x[k] > y[k] THEN x[k] - y[k] ELSE 0]
    BY DEF Netted
<1> HIDE DEF x, y
<1>6. x = Nothing => Netted(gross, p) = Nothing
  <2> SUFFICES ASSUME x = Nothing
               PROVE  Netted(gross, p) = Nothing
      OBVIOUS
  <2>1. \A k \in Currencies : ~ (x[k] > y[k])
      BY <1>4 DEF Nothing
  <2> QED
      BY <1>5, <2>1 DEF Nothing
<1>7. y = Nothing => Netted(gross, p) = x
  <2> SUFFICES ASSUME y = Nothing
               PROVE  Netted(gross, p) = x
      OBVIOUS
  <2>1. \A k \in Currencies : (IF x[k] > y[k] THEN x[k] - y[k] ELSE 0) = x[k]
      BY <1>4 DEF Nothing
  <2>2. x = [k \in Currencies |-> x[k]]
      BY <1>3 DEF Amount
  <2> QED
      BY <1>5, <2>1, <2>2
<1>8. Opposite(p) \notin Flowing(gross) => y = Nothing
    BY <1>2 DEF Flowing, y
<1> QED
    BY <1>1, <1>2, <1>6, <1>7, <1>8 DEF Flowing, Surviving, x

(* Every loop reported is one of what flows; a leg dropped and a pair that  *)
(* flows both ways are on a loop.                                           *)
LEMMA LoopsReported ==
    ASSUME NEW gross \in [Pairs -> Amount], NEW c, IsReported(gross, c)
    PROVE  /\ IsLoop(Flowing(gross), c)
           /\ c \in Reciprocal(gross) \/ Closing(c) \in Walk(gross).dropped
<1> DEFINE F == Flowing(gross)
           E == Surviving(gross)
<1>1. E \subseteq F
    BY NettedIs DEF Surviving
<1>2. CASE c \in Reciprocal(gross)
  <2>1. c \in F /\ Opposite(c) \in F /\ c \in Pairs
      BY <1>2 DEF Reciprocal, Flowing
  <2>2. c = <<c[1], c[2]>> /\ c[1] \in Accounts /\ c[2] \in Accounts /\ c[1] # c[2]
      BY <2>1, NettedIs
  <2> DEFINE a == c[1]
             b == c[2]
  <2>3. c = <<a, b>> /\ a \in Accounts /\ b \in Accounts /\ a # b
      BY <2>2
  <2> HIDE DEF a, b
  <2>4. c \in Seq(Accounts) /\ Len(c) = 2 /\ c[1] = a /\ c[2] = b
      BY <2>3
  <2>5. Closing(c) \in F
      BY <2>1, <2>4 DEF Closing, Opposite
  <2>6. \A i, j \in 1 .. Len(c) : c[i] = c[j] => i = j
    <3>1. \A i \in 1 .. Len(c) : i = 1 \/ i = 2
        BY <2>4
    <3> QED
        BY <2>3, <2>4, <3>1
  <2>7. \A i \in 1 .. Len(c) - 1 : <<c[i], c[i + 1]>> \in F
    <3>1. \A i \in 1 .. Len(c) - 1 : i = 1
        BY <2>4
    <3>2. <<c[1], c[1 + 1]>> \in F
        BY <2>1, <2>3, <2>4
    <3> QED
        BY <3>1, <3>2
  <2> QED
      BY <1>2, <2>4, <2>5, <2>6, <2>7 DEF IsLoop
<1>3. CASE \E l \in 1 .. Len(Walk(gross).loops) : c = Walk(gross).loops[l]
  <2>1. LoopsHold(E, Walk(gross))
      BY WalkEnds DEF WalkInv
  <2>2. IsLoop(E, c) /\ Closing(c) \in Walk(gross).dropped
      BY <1>3, <2>1 DEF LoopsHold
  <2> HIDE DEF E, F
  <2> QED
      BY <1>1, <2>2 DEF IsLoop, F
<1> QED
    BY <1>2, <1>3 DEF IsReported

LEMMA EndsOfLoop ==
    ASSUME NEW E, NEW c, IsLoop(E, c)
    PROVE  /\ c[1] \in Range(c) /\ c[Len(c)] \in Range(c) /\ c[1] # c[Len(c)]
           /\ Closing(c) \in Legs(c)
<1>1. /\ c \in Seq(Accounts) /\ 1 \in 1 .. Len(c) /\ Len(c) \in 1 .. Len(c) /\ Len(c) # 1
    BY DEF IsLoop
<1> QED
    BY <1>1, RangeIs, LegsAre DEF IsLoop

LEMMA BothWaysReported ==
    ASSUME NEW gross \in [Pairs -> Amount], NEW p \in Flowing(gross), Opposite(p) \in Flowing(gross)
    PROVE  \E c \in Cycles(gross) : p \in Legs(c)
<1>1. p \in Pairs /\ Opposite(p) \in Pairs
    BY NettedIs DEF Flowing
<1>2. /\ p = <<p[1], p[2]>> /\ p[1] \in Accounts /\ p[2] \in Accounts /\ p[1] # p[2]
      /\ Opposite(p) = <<p[2], p[1]>> /\ Opposite(Opposite(p)) = p
    BY <1>1, NettedIs DEF Opposite
<1> DEFINE q == IF p[1] < p[2] THEN p ELSE Opposite(p)
<1>3. q \in Reciprocal(gross)
    BY <1>2, ReportsAssumption DEF Reciprocal
<1>4. Range(q) = {p[1], p[2]}
  <2> DEFINE a == q[1]
             b == q[2]
  <2>1. q = <<a, b>> /\ {a, b} = {p[1], p[2]}
      BY <1>2
  <2> HIDE DEF a, b, q
  <2>2. DOMAIN q = {1, 2} /\ q[1] = a /\ q[2] = b
      BY <2>1
  <2> QED
      BY <2>1, <2>2 DEF Range
<1> HIDE DEF q
<1>5. PICK c \in Cycles(gross) : Range(c) = Range(q)
    BY <1>3, CyclesAre DEF IsReported
<1>6. IsLoop(Flowing(gross), c)
    BY CyclesAre, LoopsReported
<1>7. <<p[1], p[2]>> \in Legs(c)
    BY <1>4, <1>5, <1>6, TwoNodes
<1> QED
    BY <1>2, <1>7

LEMMA DroppedReported ==
    ASSUME NEW gross \in [Pairs -> Amount], NEW p \in Walk(gross).dropped
    PROVE  \E c \in Cycles(gross) : p \in Legs(c)
<1> DEFINE w == Walk(gross)
<1>1. LoopsHold(Surviving(gross), w)
    BY WalkEnds DEF WalkInv
<1>2. PICK l \in 1 .. Len(w.loops) : p = Closing(w.loops[l])
    BY <1>1 DEF LoopsHold
<1> DEFINE d == w.loops[l]
<1>3. IsReported(gross, d) /\ p = Closing(d)
    BY <1>2 DEF IsReported
<1>4. PICK c \in Cycles(gross) : Range(c) = Range(d)
    BY <1>3, CyclesAre
<1>5. IsLoop(Flowing(gross), d) /\ IsLoop(Flowing(gross), c)
    BY <1>3, CyclesAre, LoopsReported
<1>6. CASE c \in Reciprocal(gross)
  <2>1. c \in Pairs
      BY <1>6 DEF Reciprocal, Flowing
  <2> DEFINE a == c[1]
             b == c[2]
  <2>2. c = <<a, b>>
      BY <2>1, NettedIs
  <2>3. Range(c) = {a, b}
    <3> HIDE DEF a, b
    <3>1. DOMAIN c = {1, 2} /\ c[1] = a /\ c[2] = b
        BY <2>2
    <3> QED
        BY <3>1 DEF Range
  <2> HIDE DEF a, b, d
  <2>4. <<a, b>> \in Legs(c) /\ <<b, a>> \in Legs(c)
      BY <1>5, <2>3, TwoNodes
  <2>5. p = <<a, b>> \/ p = <<b, a>>
    <3>1. d[1] \in {a, b} /\ d[Len(d)] \in {a, b} /\ d[1] # d[Len(d)]
        BY <1>4, <1>5, <2>3, EndsOfLoop
    <3> QED
        BY <1>3, <3>1 DEF Closing
  <2> QED
      BY <2>4, <2>5
<1>7. CASE \E m \in 1 .. Len(w.loops) : c = w.loops[m]
  <2>1. c = d
      BY <1>1, <1>4, <1>7 DEF LoopsHold
  <2>2. Closing(c) \in Legs(c)
      BY <1>5, EndsOfLoop
  <2> QED
      BY <1>3, <2>1, <2>2
<1> QED
    BY <1>6, <1>7, CyclesAre DEF IsReported

(* What the graph draws has no loop.                                        *)
DrawnPairs(gross) == {p \in Pairs : Drawn(gross)[p] # Nothing}

LEMMA DrawnIs ==
    ASSUME NEW gross \in [Pairs -> Amount], NEW p \in Pairs
    PROVE  /\ Drawn(gross)[p] = IF p \in Walk(gross).dropped THEN Nothing ELSE Netted(gross, p)
           /\ p \in DrawnPairs(gross) <=> p \in Surviving(gross) \ Walk(gross).dropped
BY DEF Drawn, DrawnPairs, Surviving

LEMMA DrawnIsSorted ==
    ASSUME NEW gross \in [Pairs -> Amount], NEW S \in SUBSET Accounts, S # {}
    PROVE  Sorted(DrawnPairs(gross), S)
<1> DEFINE E == Surviving(gross)
           w == Walk(gross)
           D == DrawnPairs(gross)
<1>1. WalkInv(E, w) /\ w.left = {} /\ w.stack = <<>>
  <2>1. E \subseteq Pairs
      BY DEF Surviving
  <2> QED
      BY <2>1, WalkEnds, FinishedWalk DEF Finished
<1>2. D \subseteq E \ w.dropped
    BY DrawnIs DEF DrawnPairs
<1> HIDE DEF E, w, D
<1>3. CASE \E a \in S : w.mark[a] # "done"
  <2>1. PICK a \in S : w.mark[a] # "done"
      BY <1>3
  <2>2. w.mark[a] = "new"
    <3>1. 1 .. Len(w.stack) = {}
        BY <1>1
    <3>2. w.mark[a] # "stacked"
        BY <1>1, <3>1 DEF WalkInv, StackIsMarked
    <3> QED
        BY <1>1, <2>1, <3>2 DEF WalkInv, WalkTyped, Marks
  <2>3. ASSUME NEW b \in S, <<a, b>> \in D
        PROVE  FALSE
    <3> DEFINE p == <<a, b>>
    <3>1. p \in E \ w.left /\ p[1] = a
        BY <1>1, <1>2, <2>3
    <3> HIDE DEF p
    <3> QED
        BY <1>1, <2>2, <3>1 DEF WalkInv, EndsAreKnown
  <2> QED
      BY <2>3 DEF Sorted, D
<1>4. CASE \A a \in S : w.mark[a] = "done"
  <2>1. Sorted(E \ w.dropped, S)
      BY <1>1, <1>4 DEF WalkInv, DoneIsSorted
  <2> QED
      BY <1>2, <2>1 DEF Sorted, D
<1> QED
    BY <1>3, <1>4

OnLegs(gross) == UNION {Legs(c) : c \in Cycles(gross)}

LEMMA LegsFlow ==
    ASSUME NEW gross \in [Pairs -> Amount]
    PROVE  OnLegs(gross) \subseteq Flowing(gross)
<1> SUFFICES ASSUME NEW c \in Cycles(gross), NEW p \in Legs(c)
             PROVE  p \in Flowing(gross)
    BY DEF OnLegs
<1>1. IsLoop(Flowing(gross), c)
    BY CyclesAre, LoopsReported
<1> QED
    BY <1>1, LegsAre DEF IsLoop

LEMMA WholeOffLegs ==
    ASSUME NEW gross \in [Pairs -> Amount], NEW p \in Flowing(gross) \ OnLegs(gross)
    PROVE  Drawn(gross)[p] = gross[p]
<1>1. p \in Pairs
    BY DEF Flowing
<1>2. p \notin Walk(gross).dropped
    BY DroppedReported DEF OnLegs
<1>3. Opposite(p) \notin Flowing(gross)
    BY BothWaysReported DEF OnLegs
<1> QED
    BY <1>1, <1>2, <1>3, DrawnIs, NettedIs

LEMMA LoopLoses ==
    ASSUME NEW gross \in [Pairs -> Amount], NEW c \in Cycles(gross)
    PROVE  \E p \in Legs(c) : Drawn(gross)[p] # gross[p]
<1>1. /\ IsLoop(Flowing(gross), c)
      /\ c \in Reciprocal(gross) \/ Closing(c) \in Walk(gross).dropped
    BY CyclesAre, LoopsReported
<1>2. \A p \in Flowing(gross) : p \in Pairs /\ gross[p] # Nothing
    BY DEF Flowing
<1>3. CASE Closing(c) \in Walk(gross).dropped
  <2>1. Closing(c) \in Flowing(gross) /\ Closing(c) \in Legs(c)
      BY <1>1, EndsOfLoop DEF IsLoop
  <2> QED
      BY <1>2, <1>3, <2>1, DrawnIs
<1>4. CASE c \in Reciprocal(gross)
  <2> SUFFICES ASSUME \A p \in Legs(c) : Drawn(gross)[p] = gross[p]
               PROVE  FALSE
      OBVIOUS
  <2>1. c \in Flowing(gross) /\ Opposite(c) \in Flowing(gross) /\ c \in Pairs
      BY <1>2, <1>4 DEF Reciprocal
  <2> DEFINE a == c[1]
             b == c[2]
  <2>2. c = <<a, b>> /\ Opposite(c) = <<b, a>> /\ a \in Accounts /\ b \in Accounts
      BY <2>1, NettedIs DEF Opposite
  <2> HIDE DEF a, b
  <2>3. Range(c) = {a, b}
    <3>1. DOMAIN c = {1, 2} /\ c[1] = a /\ c[2] = b
        BY <2>2
    <3> QED
        BY <3>1 DEF Range
  <2>4. <<a, b>> \in Legs(c) /\ <<b, a>> \in Legs(c)
      BY <1>1, <2>3, TwoNodes
  <2>5. <<a, b>> \in DrawnPairs(gross) /\ <<b, a>> \in DrawnPairs(gross)
      BY <1>2, <2>1, <2>2, <2>4 DEF DrawnPairs
  <2>6. Sorted(DrawnPairs(gross), {a, b})
      BY <2>2, DrawnIsSorted
  <2> QED
      BY <2>5, <2>6 DEF Sorted
<1> QED
    BY <1>1, <1>3, <1>4

(* A set no flow leaves keeps a loop that enters it.                        *)
IsClosed(F, S) == \A p \in F : p[1] \in S => p[2] \in S

LEMMA StaysIn ==
    ASSUME NEW F, NEW c, IsLoop(F, c), NEW S, IsClosed(F, S), NEW j \in 1 .. Len(c), c[j] \in S
    PROVE  \A m \in j .. Len(c) : c[m] \in S
<1> DEFINE L == Len(c)
           T == {n \in 0 .. L - j : c[j + n] \in S}
<1>1. L \in Nat /\ L - j \in Nat
    BY DEF IsLoop
<1>2. \A i \in 1 .. L - 1 : c[i] \in S => c[i + 1] \in S
  <2> SUFFICES ASSUME NEW i \in 1 .. L - 1, c[i] \in S
               PROVE  c[i + 1] \in S
      OBVIOUS
  <2> DEFINE p == <<c[i], c[i + 1]>>
  <2>1. p \in F
      BY DEF IsLoop
  <2>2. p[1] = c[i] /\ p[2] = c[i + 1]
      OBVIOUS
  <2> HIDE DEF p
  <2> QED
      BY <2>1, <2>2 DEF IsClosed
<1> HIDE DEF L
<1>3. 0 \in T
    BY <1>1
<1>4. ASSUME NEW n \in 0 .. (L - j) - 1, n \in T
      PROVE  n + 1 \in T
  <2>1. j + n \in 1 .. L - 1 /\ j + (n + 1) = (j + n) + 1 /\ n + 1 \in 0 .. L - j
      BY <1>1
  <2>2. c[j + n] \in S
      BY <1>4
  <2> QED
      BY <1>2, <2>1, <2>2
<1> HIDE DEF T
<1>5. \A n \in 0 .. L - j : n \in T
    BY <1>1, <1>3, <1>4, Induct
<1>6. ASSUME NEW m \in j .. L
      PROVE  c[m] \in S
  <2>1. m - j \in 0 .. L - j /\ j + (m - j) = m
      BY <1>1
  <2> QED
      BY <1>5, <2>1 DEF T
<1> QED
    BY <1>6 DEF L

LEMMA LegComesBack ==
    ASSUME NEW F, NEW c, IsLoop(F, c), NEW S, IsClosed(F, S), NEW p \in Legs(c), p[2] \in S
    PROVE  p[1] \in S
<1> DEFINE L == Len(c)
<1>1. L \in Nat /\ L >= 2 /\ 1 \in 1 .. L /\ L \in 1 .. L /\ L \in 1 .. L
    BY DEF IsLoop
<1>2. c[1] \in S => \A m \in 1 .. L : c[m] \in S
    BY <1>1, StaysIn
<1>3. CASE p = Closing(c)
  <2>1. p[1] = c[L] /\ p[2] = c[1]
      BY <1>3 DEF Closing
  <2> QED
      BY <1>1, <1>2, <2>1
<1>4. CASE \E i \in 1 .. L - 1 : p = <<c[i], c[i + 1]>>
  <2>1. PICK i \in 1 .. L - 1 : p = <<c[i], c[i + 1]>>
      BY <1>4
  <2>2. p[1] = c[i] /\ p[2] = c[i + 1] /\ i \in 1 .. L /\ i + 1 \in 1 .. L /\ L \in i + 1 .. L
      BY <1>1, <2>1
  <2>3. c[L] \in S
      BY <2>2, StaysIn
  <2>4. c[1] \in S
    <3>1. Closing(c) \in F /\ Closing(c)[1] = c[L] /\ Closing(c)[2] = c[1]
        BY DEF IsLoop, Closing
    <3> QED
        BY <2>3, <3>1 DEF IsClosed
  <2> QED
      BY <1>2, <2>2, <2>4
<1> QED
    BY <1>3, <1>4, LegsAre

LEMMA GrossIs ==
    ASSUME CatalogInv, NEW f
    PROVE  Gross(f) \in [Pairs -> Amount]
<1>1. ASSUME NEW p \in Pairs
      PROVE  Total(ValueOf, {l \in LinksIn(f) : FlowPair(l) = p}) \in Amount
  <2> DEFINE S == {l \in LinksIn(f) : FlowPair(l) = p}
  <2>1. S \subseteq LinksIn(f)
      OBVIOUS
  <2>2. IsFiniteSet(S) /\ \A l \in S : ValueOf[l] \in Amount
      BY <2>1, LinksAre, FS_Subset
  <2> HIDE DEF S
  <2>3. Total(ValueOf, S) \in Amount
      BY <2>2, TotalUnfolds
  <2> QED
      BY <2>3 DEF S
<1> QED
    BY <1>1 DEF Gross

LEMMA FlowsAre == CatalogInv => FlowsAccounted
<1> SUFFICES ASSUME CatalogInv, NEW f \in Filters
             PROVE  LET gross == Gross(f)
                    IN  /\ \A S \in (SUBSET Accounts) \ {{}} : Sorted(DrawnPairs(gross), S)
                        /\ \A p \in Flowing(gross) \ OnLegs(gross) : Drawn(gross)[p] = gross[p]
                        /\ OnLegs(gross) \subseteq Flowing(gross)
                        /\ \A c \in Cycles(gross) : \E p \in Legs(c) : Drawn(gross)[p] # gross[p]
                        /\ \A p \in Flowing(gross) :
                              \/ p \in OneSided(f)
                              \/ \A S \in SUBSET Accounts :
                                    p[2] \in S /\ p[1] \notin S =>
                                       \E q \in Flowing(gross) : q[1] \in S /\ q[2] \notin S
    BY DEF FlowsAccounted, Sorted, DrawnPairs, OnLegs
<1> DEFINE gross == Gross(f)
           F == Flowing(gross)
<1>1. gross \in [Pairs -> Amount]
    BY GrossIs
<1>2. OneSided(f) = {p \in F \ OnLegs(gross) : Opposite(p) \notin F}
    BY DEF OneSided, OnLegs
<1> HIDE DEF gross
<1>3. ASSUME NEW p \in F, NEW S \in SUBSET Accounts, p[2] \in S, p[1] \notin S,
             ~ \E q \in F : q[1] \in S /\ q[2] \notin S
      PROVE  p \in OneSided(f)
  <2>1. IsClosed(F, S)
      BY <1>3 DEF IsClosed
  <2>2. p \notin OnLegs(gross)
    <3> SUFFICES ASSUME NEW c \in Cycles(gross), p \in Legs(c)
                 PROVE  FALSE
        BY DEF OnLegs
    <3>1. IsLoop(F, c)
        BY <1>1, CyclesAre, LoopsReported
    <3> HIDE DEF F
    <3> QED
        BY <1>3, <2>1, <3>1, LegComesBack
  <2>3. Opposite(p) \notin F
    <3>1. Opposite(p)[1] = p[2] /\ Opposite(p)[2] = p[1]
        BY DEF Opposite
    <3> QED
        BY <1>3, <3>1
  <2> QED
      BY <1>2, <2>2, <2>3
<1>4. \A S \in (SUBSET Accounts) \ {{}} : Sorted(DrawnPairs(gross), S)
    BY <1>1, DrawnIsSorted
<1> QED
    BY <1>1, <1>3, <1>4, WholeOffLegs, LegsFlow, LoopLoses DEF gross

(* The graph drawn has no loop and accounts for what it leaves out: a pair  *)
(* on no loop reported is drawn whole, a loop reported is one of flows and  *)
(* lost something, and a flow nothing brings back is listed as one-sided:   *)
(* for any links, in any amounts and currencies, however the loops cross.  *)
THEOREM LoopsAreAccounted == (CatalogSpec \/ ReportsSpec) => []FlowsAccounted
BY CatalogHolds, ReportsRunCatalog, FlowsAre, PTL
=============================================================================
