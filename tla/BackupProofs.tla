---------------------------- MODULE BackupProofs ----------------------------
(* The lock on the user's row keeps restores apart; a restore leaves a sound *)
(* ledger; and it keeps every row that stood still while it was exported:    *)
(* whatever the bundles, the ledgers, the writes and the number of requests. *)
EXTENDS Backup, WellFoundedInduction, SequenceTheorems, TLAPS

Typed ==
    /\ restores = [i \in Imports |-> restores[i]]
    /\ \A i \in Imports :
          restores[i] = [phase |-> restores[i].phase, bundle |-> restores[i].bundle]

(* Who holds the lock has counted the accounts, and is alone with the count. *)
LockInv ==
    /\ Typed
    /\ \A i \in Imports : restores[i].phase = "locked" =>
          /\ ~HasAccounts
          /\ \A j \in Imports \ {i} : restores[j].phase # "locked"

LEMMA InitLocks == BackupInit => LockInv
BY DEF BackupInit, LockInv, Typed, NotBegun

(* The export and the writes beside it stay on their side.                  *)
LEMMA SidesApart ==
    ASSUME Export \/ (\E x \in Doomed : Delete(x)) \/ (\E d \in Drafts : Write(d[1], d[2]))
    PROVE  UNCHANGED <<target, restores>>
BY DEF Export, Delete, Write, Becomes

LEMMA BeginTakesLock ==
    ASSUME LockInv, NEW i \in Imports, NEW b, BeginRestore(i, b)
    PROVE  LockInv' /\ restores'[i].phase # "done"
           /\ \A j \in Imports \ {i} : restores'[j] = restores[j]
<1>1. /\ target' = target
      /\ restores'[i] \in {[phase |-> "refused", bundle |-> <<>>], [phase |-> "locked", bundle |-> b]}
      /\ restores'[i].phase = "locked" => ~HasAccounts
      /\ \A j \in Imports \ {i} : restores'[j] = restores[j]
      /\ restores' = [j \in Imports |-> restores'[j]]
      /\ \A j \in Imports : restores[j].phase # "locked"
    BY DEF LockInv, Typed, BeginRestore, LockFree
<1>2. HasAccounts' = HasAccounts
    BY <1>1 DEF HasAccounts, Of
<1>3. Typed'
    BY <1>1 DEF LockInv, Typed
<1> QED
    BY <1>1, <1>2, <1>3 DEF LockInv

LEMMA RestoreFreesLock ==
    ASSUME LockInv, NEW i \in Imports, Restore(i)
    PROVE  LockInv' /\ ~HasAccounts /\ \A j \in Imports \ {i} : restores'[j] = restores[j]
<1>1. restores[i].phase = "locked"
    BY DEF Restore
<1>2. PICK p \in {"refused", "done"} : restores' = [restores EXCEPT ![i].phase = p]
    BY DEF Restore
<1>3. /\ \A j \in Imports \ {i} : restores'[j] = restores[j] /\ restores[j].phase # "locked"
      /\ restores'[i] = [phase |-> p, bundle |-> restores[i].bundle]
      /\ restores' = [j \in Imports |-> restores'[j]]
    BY <1>1, <1>2 DEF LockInv, Typed
<1>4. Typed'
    BY <1>3 DEF LockInv, Typed
<1> QED
    BY <1>1, <1>3, <1>4 DEF LockInv

LEMMA AccountNeedsLock ==
    ASSUME LockInv, CreateAccount
    PROVE  LockInv' /\ UNCHANGED restores
BY DEF LockInv, Typed, CreateAccount, LockFree

(* No bundle arrives beside another or beside an account: the rows of each   *)
(* restore enter a ledger that has none (backup.go:512-533).                 *)
RestoreMeets(i) == restores[i].phase # "done" /\ restores'[i].phase = "done" => ~HasAccounts

LEMMA StepKeepsLock ==
    ASSUME LockInv, [BackupNext]_backup
    PROVE  LockInv' /\ \A i \in Imports : RestoreMeets(i)
<1>1. CASE Export \/ (\E x \in Doomed : Delete(x)) \/ (\E d \in Drafts : Write(d[1], d[2]))
    BY <1>1, SidesApart DEF LockInv, Typed, HasAccounts, Of, RestoreMeets
<1>2. CASE CreateAccount
    BY <1>2, AccountNeedsLock DEF RestoreMeets
<1>3. ASSUME NEW i \in Imports, Restore(i)
      PROVE  LockInv' /\ \A j \in Imports : RestoreMeets(j)
    BY <1>3, RestoreFreesLock DEF RestoreMeets
<1>4. ASSUME NEW i \in Imports, NEW b, BeginRestore(i, b)
      PROVE  LockInv' /\ \A j \in Imports : RestoreMeets(j)
    BY <1>4, BeginTakesLock DEF RestoreMeets
<1>5. CASE UNCHANGED backup
    BY <1>5 DEF backup, LockInv, Typed, HasAccounts, Of, RestoreMeets
<1> QED
    BY <1>1, <1>2, <1>3, <1>4, <1>5 DEF BackupNext

(* The restore's stages are one transaction under the lock on the user's row, *)
(* taken before the accounts are counted: two restores at once, or a restore  *)
(* beside a new account, never mix (restoreUserBackup).                       *)
THEOREM RestoresNeverMix == BackupSpec => RestoresAlone
<1>1. LockInv /\ [BackupNext]_backup => LockInv'
    BY StepKeepsLock
<1>2. LockInv /\ [BackupNext]_backup =>
        [\A i \in Imports :
           restores[i].phase # "done" /\ restores'[i].phase = "done" => ~HasAccounts]_backup
    BY StepKeepsLock DEF RestoreMeets
<1> QED
    BY InitLocks, <1>1, <1>2, PTL DEF BackupSpec, RestoresAlone
-----------------------------------------------------------------------------
(* Runs of a step over a sequence. *)

LEMMA LeastOf ==
    ASSUME NEW T, T \subseteq Nat, T # {}
    PROVE  \E n \in T : \A m \in T : n <= m
<1> DEFINE R == OpToRel(<, Nat)
<1>1. IsWellFoundedOn(R, Nat)
    BY NatLessThanWellFounded
<1>2. \A x, y \in Nat : x < y => <<x, y>> \in R
    BY DEF OpToRel
<1> HIDE DEF R
<1>3. PICK n \in T : \A y \in T : ~ (<<y, n>> \in R)
    BY <1>1, WFMin
<1>4. ASSUME NEW m \in T
      PROVE  n <= m
  <2>1. n \in Nat /\ m \in Nat
      OBVIOUS
  <2>2. ~ (m < n)
      BY <1>2, <1>3, <2>1
  <2> QED
      BY <2>1, <2>2
<1> QED
    BY <1>4

(* Induction up to a bound, over a set.                                    *)
LEMMA Induct ==
    ASSUME NEW N \in Nat, NEW T,
           0 \in T,
           \A n \in 0..(N - 1) : n \in T => n + 1 \in T
    PROVE  \A n \in 0..N : n \in T
<1> DEFINE Missed == {n \in 0..N : n \notin T}
<1>1. SUFFICES ASSUME Missed # {}
               PROVE  FALSE
    OBVIOUS
<1>2. Missed \subseteq Nat
    OBVIOUS
<1>3. PICK n \in Missed : \A m \in Missed : n <= m
    BY <1>1, <1>2, LeastOf
<1>4. n # 0 /\ n \in 0..N /\ n \notin T
    BY <1>3
<1>5. n - 1 \in 0..(N - 1) /\ n - 1 \in 0..N /\ ~ (n <= n - 1)
    BY <1>4
<1>6. n - 1 \in T
    BY <1>3, <1>5
<1>7. (n - 1) + 1 \in T
    BY <1>5, <1>6
<1> QED
    BY <1>4, <1>7

(* A step that stays in V can be taken N times.                            *)
CanRun(V, a, N, F) ==
    \E g \in [0..N -> V] : g[0] = a /\ \A k \in 1..N : g[k] = F[<<g[k - 1], k>>]

LEMMA RunExists ==
    ASSUME NEW V, NEW a \in V, NEW N \in Nat, NEW F \in [V \X (1..N) -> V]
    PROVE  CanRun(V, a, N, F)
<1> DEFINE Runs(g, n) == g[0] = a /\ \A k \in 1..n : g[k] = F[<<g[k - 1], k>>]
           S == {n \in 0..N : \E g \in [0..n -> V] : Runs(g, n)}
<1>1. 0 \in S
  <2> DEFINE g == [k \in 0..0 |-> a]
  <2>1. g \in [0..0 -> V] /\ Runs(g, 0)
      OBVIOUS
  <2> HIDE DEF g, Runs
  <2>2. 0 \in 0..N
      OBVIOUS
  <2> QED
      BY <2>1, <2>2
<1>2. ASSUME NEW n \in 0..(N - 1), n \in S
      PROVE  n + 1 \in S
  <2>1. PICK g \in [0..n -> V] : Runs(g, n)
      BY <1>2
  <2> DEFINE h == [k \in 0..(n + 1) |-> IF k <= n THEN g[k] ELSE F[<<g[n], n + 1>>]]
  <2>2. n \in Nat /\ n + 1 \in 0..N /\ n + 1 \in 1..N
      OBVIOUS
  <2>3. F[<<g[n], n + 1>>] \in V
    <3>1. g[n] \in V
        BY <2>2
    <3>2. <<g[n], n + 1>> \in V \X (1..N)
        BY <2>2, <3>1
    <3> QED
        BY <3>2
  <2>4. h \in [0..(n + 1) -> V]
    <3>1. \A k \in 0..(n + 1) : k <= n => g[k] \in V
        BY <2>2
    <3> QED
        BY <2>3, <3>1
  <2>5. \A k \in 0..n : h[k] = g[k]
      BY <2>2
  <2>6. h[n + 1] = F[<<g[n], n + 1>>]
      BY <2>2
  <2> HIDE DEF h
  <2>7. ASSUME NEW k \in 1..(n + 1)
        PROVE  h[k] = F[<<h[k - 1], k>>]
    <3>1. CASE k = n + 1
      <4>1. k - 1 = n /\ n \in 0..n
          BY <2>2, <3>1
      <4> QED
          BY <2>5, <2>6, <3>1, <4>1
    <3>2. CASE k # n + 1
      <4>1. k \in 1..n /\ k \in 0..n /\ k - 1 \in 0..n
          BY <2>2, <3>2
      <4> QED
          BY <2>1, <2>5, <4>1
    <3> QED
        BY <3>1, <3>2
  <2>8. h[0] = a
      BY <2>1, <2>2, <2>5
  <2> QED
      BY <2>2, <2>4, <2>7, <2>8
<1> HIDE DEF S
<1>3. \A n \in 0..N : n \in S
    BY <1>1, <1>2, Induct
<1>4. N \in S
    BY <1>3
<1> QED
    BY <1>4 DEF S, CanRun

-----------------------------------------------------------------------------
(* Tables, ledgers and their references. *)

LEMMA StagesAre ==
    /\ Len(Stages) = 16 /\ Len(Stages) \in Nat
    /\ \A k \in 1..16 : Stages[k] \in DOMAIN References
    /\ \A t \in DOMAIN References : \E k \in 1..16 : Stages[k] = t
<1>1. Len(Stages) = 16
    BY DEF Stages
<1>2. DOMAIN References = {Stages[k] : k \in 1..16}
    BY DEF Stages, References
<1> QED
    BY <1>1, <1>2

(* Every row is one that may stand under its id.                             *)
IsLedger(l) == \A x \in DOMAIN l : x \in Ids /\ Fits(x, l[x])

LEMMA ColumnsMatch ==
    ASSUME NEW l, IsLedger(l), NEW x \in DOMAIN l, NEW f \in DOMAIN l[x].refs,
           l[x].refs[f] \in DOMAIN l
    PROVE  l[l[x].refs[f]].table = References[l[x].table][f]
<1> DEFINE y == l[x].refs[f]
<1>1. PICK p \in Written : p[1] = y
    BY DEF IsLedger, Ids
<1>2. p[2].table = References[l[x].table][f]
    BY <1>1 DEF IsLedger, Fits
<1>3. p[2].table = l[y].table
    BY <1>1 DEF IsLedger, Fits
<1> QED
    BY <1>2, <1>3

LEMMA GivenAreLedgers ==
    /\ IsLedger(First)
    /\ \A b \in Bundles : IsLedger(b)
    /\ \A h \in Homes : IsLedger(h)
    /\ \A d \in Drafts : d[1] \in Ids /\ Fits(d[1], d[2])
<1>1. ASSUME NEW l \in {First} \cup Bundles \cup Homes
      PROVE  IsLedger(l)
  <2>1. ASSUME NEW x \in DOMAIN l
        PROVE  <<x, l[x]>> \in Written
      BY <1>1 DEF Written, RowsOf
  <2>2. ASSUME NEW x \in DOMAIN l
        PROVE  x \in Ids /\ Fits(x, l[x])
    <3> DEFINE p == <<x, l[x]>>
    <3>1. p \in Written /\ p[1] = x /\ p[2] = l[x]
        BY <2>1, <2>2
    <3> HIDE DEF p
    <3> QED
        BY <3>1, BackupAssumption DEF Ids
  <2> QED
      BY <2>2 DEF IsLedger
<1>2. \A d \in Drafts : d \in Written
    BY DEF Written
<1> QED
    BY <1>1, <1>2, BackupAssumption DEF Ids

-----------------------------------------------------------------------------
(* Where the rows of a bundle go. *)

Lands(i, b) == ({i, 0} \X DOMAIN b) \cup DOMAIN target

PlacesIn(i, b) == UNION {[D -> Lands(i, b)] : D \in SUBSET DOMAIN b}

LEMMA PlacesAreIn ==
    ASSUME NEW i, NEW b, NEW m, NEW D \in SUBSET DOMAIN b, m \in [D -> Lands(i, b)]
    PROVE  m \in PlacesIn(i, b)
BY DEF PlacesIn

(* Of the payees of a name one survives, an account's if there is one.       *)
LEMMA SurvivorIs ==
    ASSUME NEW b, NEW x \in Of(b, "payees")
    PROVE  LET s == Survivor(b, b[x].name)
           IN  /\ s \in Of(b, "payees") /\ b[s].name = b[x].name
               /\ ~Folded(b, s)
<1> DEFINE same == Named(b, "payees", b[x].name)
           linked == {p \in same : b[p].refs.account # None}
           S == IF linked = {} THEN same ELSE linked
           s == Survivor(b, b[x].name)
<1>1. x \in same
    BY DEF Named
<1>2. s = CHOOSE p \in S : TRUE
    BY DEF Survivor
<1>3. S # {} /\ S \subseteq same
    BY <1>1
<1>4. s \in same
    BY <1>2, <1>3
<1> HIDE DEF s
<1>5. s \in Of(b, "payees") /\ b[s].name = b[x].name
    BY <1>4 DEF Named
<1> QED
    BY <1>5 DEF s, Folded

(* A row goes to an id of its own, or to a row of its table that the ledger    *)
(* or the bundle has in its stead.                                           *)
Lodged(i, b, x, y) ==
    \/ b[x].table = "settings" /\ y = <<0, x>>
    \/ b[x].table # "settings" /\ y = <<i, x>> /\ (b[x].table = "payees" => ~Folded(b, x))
    \/ b[x].table \in {"groups", "categories"} /\ y \in Of(target, b[x].table)
    \/ b[x].table = "payees" /\ Folded(b, x) /\ y = <<i, Survivor(b, b[x].name)>>

LEMMA PlaceIsLodging ==
    ASSUME NEW m, NEW i, NEW b, NEW x \in DOMAIN b
    PROVE  Lodged(i, b, x, PlaceFor(m, i, b, x)) /\ PlaceFor(m, i, b, x) \in Lands(i, b)
<1> DEFINE y == PlaceFor(m, i, b, x)
<1>1. CASE b[x].table = "settings"
    BY <1>1 DEF PlaceFor, Lodged, Lands
<1>2. CASE b[x].table = "groups"
  <2> DEFINE known == Named(target, "groups", b[x].name) \ {<<0, g>> : g \in Global}
  <2>1. y = IF known = {} THEN <<i, x>> ELSE CHOOSE g \in known : TRUE
      BY <1>2 DEF PlaceFor
  <2>2. known \subseteq Of(target, "groups") /\ Of(target, "groups") \subseteq DOMAIN target
      BY DEF Named, Of
  <2> HIDE DEF known, y
  <2>3. y = <<i, x>> \/ y \in Of(target, "groups")
      BY <2>1, <2>2
  <2>4. y \in Lands(i, b)
      BY <2>2, <2>3 DEF Lands
  <2> QED
      BY <1>2, <2>3, <2>4 DEF Lodged, y
<1>3. CASE b[x].table = "categories"
  <2> DEFINE known == Same(m, i, b, x)
  <2>1. y = IF known = {} THEN <<i, x>> ELSE CHOOSE c \in known : TRUE
      BY <1>3 DEF PlaceFor
  <2>2. known \subseteq Of(target, "categories") /\ Of(target, "categories") \subseteq DOMAIN target
      BY DEF Same, Named, Of
  <2> HIDE DEF known, y
  <2>3. y = <<i, x>> \/ y \in Of(target, "categories")
      BY <2>1, <2>2
  <2>4. y \in Lands(i, b)
      BY <2>2, <2>3 DEF Lands
  <2> QED
      BY <1>3, <2>3, <2>4 DEF Lodged, y
<1>4. CASE b[x].table = "payees" /\ Folded(b, x)
  <2>1. y = <<i, Survivor(b, b[x].name)>>
      BY <1>4 DEF PlaceFor
  <2>2. Survivor(b, b[x].name) \in DOMAIN b
      BY <1>4, SurvivorIs DEF Of
  <2> HIDE DEF y
  <2> QED
      BY <1>4, <2>1, <2>2 DEF Lodged, Lands, y
<1>5. CASE b[x].table \notin {"settings", "groups", "categories"}
           /\ ~(b[x].table = "payees" /\ Folded(b, x))
    BY <1>5 DEF PlaceFor, Lodged, Lands
<1> QED
    BY <1>1, <1>2, <1>3, <1>4, <1>5

LEMMA StageStays ==
    ASSUME NEW i, NEW b, NEW t, NEW m \in PlacesIn(i, b)
    PROVE  Stage(m, i, b, t) \in PlacesIn(i, b)
<1> DEFINE new == {y \in Of(b, t) : Placeable(m, b[y])}
           D == DOMAIN m \cup new
           n == Stage(m, i, b, t)
<1>1. PICK C \in SUBSET DOMAIN b : m \in [C -> Lands(i, b)]
    BY DEF PlacesIn
<1>2. D \in SUBSET DOMAIN b
    BY <1>1 DEF Of
<1>3. n = [x \in D |-> IF x \in DOMAIN m THEN m[x] ELSE PlaceFor(m, i, b, x)]
    BY DEF Stage, Over
<1>4. ASSUME NEW x \in D
      PROVE  (IF x \in DOMAIN m THEN m[x] ELSE PlaceFor(m, i, b, x)) \in Lands(i, b)
    BY <1>1, <1>2, <1>4, PlaceIsLodging
<1> HIDE DEF D, n
<1>5. n \in [D -> Lands(i, b)]
    BY <1>3, <1>4
<1> QED
    BY <1>2, <1>5, PlacesAreIn DEF n

(* The stages one by one.                                                    *)
Reaches(g, i, b) ==
    /\ g[0] = <<>>
    /\ \A k \in 1..16 : g[k] = Stage(g[k - 1], i, b, Stages[k])

StagesReach(i, b) == \E g : Reaches(g, i, b) /\ Places(i, b) = g[16]

LEMMA PlacesAreReached ==
    ASSUME NEW i, NEW b
    PROVE  StagesReach(i, b)
<1> DEFINE V == PlacesIn(i, b)
           N == Len(Stages)
           Solves(h) == h = [k \in 0..N |-> IF k = 0 THEN <<>>
                                            ELSE Stage(h[k - 1], i, b, Stages[k])]
           G == CHOOSE h : Solves(h)
           F == [x \in V \X (1..N) |-> Stage(x[1], i, b, Stages[x[2]])]
<1>1. Places(i, b) = G[N]
    BY DEF Places
<1>2. N = 16 /\ N \in Nat
    BY StagesAre
<1>3. <<>> \in V
  <2> DEFINE D == {}
  <2>1. <<>> \in [D -> Lands(i, b)] /\ D \in SUBSET DOMAIN b
      OBVIOUS
  <2> HIDE DEF D
  <2> QED
      BY <2>1, PlacesAreIn
<1> HIDE DEF N
<1>4. F \in [V \X (1..N) -> V]
    BY StageStays
<1> HIDE DEF V
<1>5. PICK g \in [0..N -> V] : g[0] = <<>> /\ \A k \in 1..N : g[k] = F[<<g[k - 1], k>>]
  <2> HIDE DEF F
  <2>1. CanRun(V, <<>>, N, F)
      BY <1>2, <1>3, <1>4, RunExists
  <2> QED
      BY <2>1 DEF CanRun
<1>6. ASSUME NEW k \in 1..N
      PROVE  g[k] = Stage(g[k - 1], i, b, Stages[k])
  <2>1. k - 1 \in 0..N
      BY <1>2
  <2>2. <<g[k - 1], k>> \in V \X (1..N)
      BY <2>1
  <2> QED
      BY <1>5, <2>2
<1> HIDE DEF F
<1>7. Solves(g)
  <2>1. \A k \in 0..N : k = 0 \/ k \in 1..N
      BY <1>2
  <2> QED
      BY <1>5, <1>6, <2>1
<1>8. Solves(G)
    BY <1>7
<1> HIDE DEF G
<1>9. G[0] = <<>> /\ \A k \in 1..N : G[k] = Stage(G[k - 1], i, b, Stages[k])
    BY <1>2, <1>8
<1> HIDE DEF Solves
<1>10. Reaches(G, i, b)
    BY <1>2, <1>9 DEF Reaches
<1> QED
    BY <1>1, <1>2, <1>10 DEF StagesReach

(* What the stages make of a bundle: every row that needs no other goes in, a *)
(* row goes in with all it needs, and goes where it belongs.                 *)
Placement(m, i, b) ==
    /\ DOMAIN m \subseteq DOMAIN b
    /\ \A x \in DOMAIN m :
          /\ Lodged(i, b, x, m[x])
          /\ b[x].table # "categories" => \A f \in Needed(b[x]) : b[x].refs[f] \in DOMAIN m

LEMMA StageAdds ==
    ASSUME NEW i, NEW b, NEW m, NEW t
    PROVE  LET n == Stage(m, i, b, t)
           IN  /\ DOMAIN n = DOMAIN m \cup {y \in Of(b, t) : Placeable(m, b[y])}
               /\ \A x \in DOMAIN m : n[x] = m[x]
               /\ \A x \in DOMAIN n \ DOMAIN m :
                     n[x] = PlaceFor(m, i, b, x) /\ x \in Of(b, t) /\ Placeable(m, b[x])
               /\ Placement(m, i, b) => Placement(n, i, b)
<1> DEFINE n == Stage(m, i, b, t)
<1>1. /\ DOMAIN n = DOMAIN m \cup {y \in Of(b, t) : Placeable(m, b[y])}
      /\ \A x \in DOMAIN m : n[x] = m[x]
      /\ \A x \in DOMAIN n \ DOMAIN m :
            n[x] = PlaceFor(m, i, b, x) /\ x \in Of(b, t) /\ Placeable(m, b[x])
    BY DEF Stage, Over
<1> HIDE DEF n
<1>2. ASSUME Placement(m, i, b)
      PROVE  Placement(n, i, b)
  <2>1. DOMAIN n \subseteq DOMAIN b
      BY <1>1, <1>2 DEF Placement, Of
  <2>2. ASSUME NEW x \in DOMAIN n
        PROVE  /\ Lodged(i, b, x, n[x])
               /\ b[x].table # "categories" => \A f \in Needed(b[x]) : b[x].refs[f] \in DOMAIN n
    <3>1. CASE x \in DOMAIN m
        BY <1>1, <1>2, <3>1 DEF Placement
    <3>2. CASE x \notin DOMAIN m
      <4>1. Lodged(i, b, x, n[x])
          BY <1>1, <2>1, <2>2, <3>2, PlaceIsLodging
      <4>2. Placeable(m, b[x])
          BY <1>1, <2>2, <3>2
      <4> QED
          BY <1>1, <4>1, <4>2 DEF Placeable
    <3> QED
        BY <3>1, <3>2
  <2> QED
      BY <2>1, <2>2 DEF Placement
<1> QED
    BY <1>1, <1>2 DEF n

(* A row that needs nothing is placed at the stage of its table.             *)
LEMMA PlacesHold ==
    ASSUME NEW i, NEW b
    PROVE  /\ Placement(Places(i, b), i, b)
           /\ \A x \in DOMAIN b : b[x].table \in DOMAIN References /\ Needed(b[x]) = {}
                                    => x \in DOMAIN Places(i, b)
<1>1. PICK g : Reaches(g, i, b) /\ Places(i, b) = g[16]
    BY PlacesAreReached DEF StagesReach
<1> DEFINE Free == {x \in DOMAIN b : b[x].table \in DOMAIN References /\ Needed(b[x]) = {}}
           Holds(k) == /\ Placement(g[k], i, b)
                       /\ \A x \in Free : (\E j \in 1..k : b[x].table = Stages[j]) => x \in DOMAIN g[k]
           T == {k \in 0..16 : Holds(k)}
<1>2. 0 \in T
  <2>1. DOMAIN g[0] = {}
      BY <1>1 DEF Reaches
  <2>2. Placement(g[0], i, b)
      BY <2>1 DEF Placement
  <2> QED
      BY <2>2
<1>3. ASSUME NEW k \in 0..15, k \in T
      PROVE  k + 1 \in T
  <2>1. k + 1 \in 1..16 /\ k + 1 \in 0..16 /\ (k + 1) - 1 = k
      OBVIOUS
  <2>2. g[k + 1] = Stage(g[k], i, b, Stages[k + 1])
      BY <1>1, <2>1 DEF Reaches
  <2>3. /\ DOMAIN g[k + 1] = DOMAIN g[k] \cup {y \in Of(b, Stages[k + 1]) : Placeable(g[k], b[y])}
        /\ Placement(g[k + 1], i, b)
    <3> DEFINE m == g[k]
               t == Stages[k + 1]
    <3>1. Placement(m, i, b)
        BY <1>3
    <3> HIDE DEF m, t
    <3>2. /\ DOMAIN Stage(m, i, b, t) = DOMAIN m \cup {y \in Of(b, t) : Placeable(m, b[y])}
          /\ Placement(Stage(m, i, b, t), i, b)
        BY <3>1, StageAdds
    <3> QED
        BY <2>2, <3>2 DEF m, t
  <2>4. ASSUME NEW x \in Free, NEW j \in 1..(k + 1), b[x].table = Stages[j]
        PROVE  x \in DOMAIN g[k + 1]
    <3>1. CASE j = k + 1
      <4>1. x \in Of(b, Stages[k + 1]) /\ Placeable(g[k], b[x])
          BY <2>4, <3>1 DEF Of, Placeable
      <4> QED
          BY <2>3, <4>1
    <3>2. CASE j # k + 1
      <4>1. j \in 1..k
          BY <3>2
      <4> QED
          BY <1>3, <2>3, <2>4, <4>1
    <3> QED
        BY <3>1, <3>2
  <2> QED
      BY <2>1, <2>3, <2>4
<1> HIDE DEF T
<1>4. \A n \in 0..16 : n \in T
  <2> DEFINE N == 16
  <2>1. N \in Nat /\ N - 1 = 15
      OBVIOUS
  <2>2. \A n \in 0..(N - 1) : n \in T => n + 1 \in T
      BY <1>3, <2>1
  <2> HIDE DEF N
  <2>3. \A n \in 0..N : n \in T
      BY <1>2, <2>1, <2>2, Induct
  <2> QED
      BY <2>3 DEF N
<1>5. 16 \in 0..16 /\ Holds(16)
    BY <1>4 DEF T
<1> QED
    BY <1>1, <1>5, StagesAre

-----------------------------------------------------------------------------
(* The rows a restore inserts. *)

(* No row was restored under this id, and what came first has its own table. *)
NewIn(i) == \A y \in DOMAIN target : y[1] # i

TablesKept ==
    \A p \in Written : <<0, p[1]>> \in DOMAIN target => target[<<0, p[1]>>].table = p[2].table

Restorable(m, i, b) ==
    IsLedger(b) /\ i # 0 /\ NewIn(i) /\ TablesKept /\ Placement(m, i, b)

IsFallback(i, y, r) ==
    y = <<i, "Imported">> /\ r = [table |-> "groups", name |-> "Imported", default |-> FALSE, refs |-> <<>>]

IsImage(m, i, b, x, y, r) ==
    /\ y = m[x] /\ y[2] = x /\ r = Image(m, i, b, x)
    /\ IF b[x].table = "settings" THEN y = <<0, x>>
       ELSE y = <<i, x>> /\ (b[x].table = "payees" => ~Folded(b, x))

Kept(m, i, b) ==
    {x \in DOMAIN m : m[x] \in {<<i, x>>, <<0, x>>} /\
                      (m[x] \notin DOMAIN target \/ b[x].table = "settings")}

LEMMA KeptIs ==
    ASSUME NEW m, NEW i, NEW b, Restorable(m, i, b), NEW x \in DOMAIN m
    PROVE  /\ x \in Kept(m, i, b) <=> m[x] = <<i, x>> \/ b[x].table = "settings"
           /\ x \in Kept(m, i, b) =>
                 IF b[x].table = "settings" THEN m[x] = <<0, x>>
                 ELSE m[x] = <<i, x>> /\ (b[x].table = "payees" => ~Folded(b, x))
           /\ x \notin Kept(m, i, b) =>
                 \/ b[x].table \in {"groups", "categories"} /\ m[x] \in Of(target, b[x].table)
                 \/ b[x].table = "payees" /\ Folded(b, x) /\ m[x] = <<i, Survivor(b, b[x].name)>>
<1>1. Lodged(i, b, x, m[x])
    BY DEF Restorable, Placement
<1>2. <<i, x>> \notin DOMAIN target
    BY DEF Restorable, NewIn
<1>3. \A t : Of(target, t) \subseteq DOMAIN target
    BY DEF Of
<1>4. ASSUME b[x].table = "payees", Folded(b, x)
      PROVE  Survivor(b, b[x].name) # x
  <2>1. x \in Of(b, "payees")
      BY <1>4 DEF Of, Restorable, Placement
  <2> QED
      BY <1>4, <2>1, SurvivorIs
<1>5. i # 0
    BY DEF Restorable
<1>6. CASE b[x].table = "settings"
    BY <1>1, <1>6 DEF Lodged, Kept
<1>7. CASE b[x].table # "settings" /\ m[x] = <<i, x>>
    BY <1>1, <1>2, <1>3, <1>4, <1>7 DEF Lodged, Kept
<1>8. CASE b[x].table # "settings" /\ m[x] # <<i, x>>
  <2>1. x \notin Kept(m, i, b)
      BY <1>1, <1>3, <1>5, <1>8 DEF Lodged, Kept
  <2> QED
      BY <1>1, <1>8, <2>1 DEF Lodged
<1> QED
    BY <1>6, <1>7, <1>8

Inserts(m, i, b, new) ==
    /\ \A y \in DOMAIN new :
          \/ IsFallback(i, y, new[y])
          \/ \E x \in Kept(m, i, b) : IsImage(m, i, b, x, y, new[y])
    /\ \A x \in Kept(m, i, b) :
          m[x] \in DOMAIN new /\ IsImage(m, i, b, x, m[x], new[m[x]])
    /\ (\E x \in Kept(m, i, b) : b[x].table = "categories" /\
                                 GroupFor(m, i, b[x].refs.group) = <<i, "Imported">>)
         => <<i, "Imported">> \in DOMAIN new
            /\ IsFallback(i, <<i, "Imported">>, new[<<i, "Imported">>])

LEMMA InsertedAre ==
    ASSUME NEW m, NEW i, NEW b, Restorable(m, i, b)
    PROVE  Inserts(m, i, b, Inserted(m, i, b))
<1> DEFINE K == Kept(m, i, b)
           rows == [y \in {m[x] : x \in K} |-> Image(m, i, b, y[2])]
           used == {rows[y].refs.group : y \in Of(rows, "categories")}
           group == [table |-> "groups", name |-> "Imported", default |-> FALSE, refs |-> <<>>]
           other == [y \in {<<i, "Imported">>} |-> group]
           new == Inserted(m, i, b)
<1>1. new = IF <<i, "Imported">> \in used THEN Over(rows, other) ELSE rows
    BY DEF Inserted, Kept
<1>2. \A x \in K : IsImage(m, i, b, x, m[x], Image(m, i, b, x))
    BY KeptIs DEF IsImage, Kept
<1>3. \A x \in K : m[x] \in DOMAIN rows /\ m[x][2] = x /\ rows[m[x]] = Image(m, i, b, x)
    BY <1>2 DEF IsImage
<1>4. \A y \in DOMAIN rows : \E x \in K : IsImage(m, i, b, x, y, rows[y])
  <2>1. DOMAIN rows = {m[x] : x \in K}
      OBVIOUS
  <2> HIDE DEF rows, K
  <2> QED
      BY <1>2, <1>3, <2>1
<1>5. DOMAIN other = {<<i, "Imported">>} /\ IsFallback(i, <<i, "Imported">>, other[<<i, "Imported">>])
    BY DEF IsFallback
<1>6. <<i, "Imported">> \notin DOMAIN rows
  <2>1. ASSUME NEW x \in K
        PROVE  m[x] # <<i, "Imported">>
    <3>1. x \in DOMAIN b
        BY DEF Restorable, Placement, Kept
    <3>2. x # "Imported"
        BY <3>1, BackupAssumption DEF Restorable, IsLedger
    <3>3. m[x] \in {<<i, x>>, <<0, x>>}
        BY DEF Kept
    <3> QED
        BY <3>2, <3>3
  <2> QED
      BY <2>1
<1>7. ASSUME NEW x \in K, b[x].table = "categories",
             GroupFor(m, i, b[x].refs.group) = <<i, "Imported">>
      PROVE  <<i, "Imported">> \in used
  <2>1. Fits(x, b[x])
      BY DEF Kept, Restorable, Placement, IsLedger
  <2>2. DOMAIN b[x].refs = {"group"}
      BY <1>7, <2>1 DEF Fits, References
  <2>3. /\ Image(m, i, b, x).table = "categories"
        /\ Image(m, i, b, x).refs = [f \in DOMAIN b[x].refs |-> Mapped(m, i, b, b[x], f)]
      BY <1>7 DEF Image
  <2>4. Mapped(m, i, b, b[x], "group") = <<i, "Imported">>
      BY <1>7 DEF Mapped
  <2>5. Image(m, i, b, x).refs.group = <<i, "Imported">>
      BY <2>2, <2>3, <2>4
  <2>6. m[x] \in Of(rows, "categories") /\ rows[m[x]].refs.group = <<i, "Imported">>
      BY <1>3, <2>3, <2>5 DEF Of
  <2> QED
      BY <2>6
<1> HIDE DEF K, rows, used, other
<1>8. CASE <<i, "Imported">> \notin used
    BY <1>1, <1>2, <1>3, <1>4, <1>7, <1>8 DEF K, Inserts
<1>9. CASE <<i, "Imported">> \in used
  <2>1. new = Over(rows, other)
      BY <1>1, <1>9
  <2> HIDE DEF new
  <2>2. /\ DOMAIN new = DOMAIN rows \cup {<<i, "Imported">>}
        /\ \A y \in DOMAIN rows : new[y] = rows[y]
        /\ new[<<i, "Imported">>] = other[<<i, "Imported">>]
      BY <1>5, <1>6, <2>1 DEF Over
  <2>3. \A y \in DOMAIN new :
           IsFallback(i, y, new[y]) \/ \E x \in K : IsImage(m, i, b, x, y, new[y])
    <3>1. ASSUME NEW y \in DOMAIN new
          PROVE  IsFallback(i, y, new[y]) \/ \E x \in K : IsImage(m, i, b, x, y, new[y])
      <4>1. CASE y \in DOMAIN rows
          BY <1>4, <2>2, <4>1
      <4>2. CASE y = <<i, "Imported">>
          BY <1>5, <2>2, <4>2
      <4> QED
          BY <2>2, <4>1, <4>2
    <3> QED
        BY <3>1
  <2>4. \A x \in K : m[x] \in DOMAIN new /\ IsImage(m, i, b, x, m[x], new[m[x]])
      BY <1>2, <1>3, <2>2
  <2> QED
      BY <1>5, <2>2, <2>3, <2>4 DEF K, new, Inserts
<1> QED
    BY <1>8, <1>9

-----------------------------------------------------------------------------
(* What a restore leaves. *)

Restored(m, i, b) == Over(Inserted(m, i, b), target)

Receives(R, new) ==
    /\ DOMAIN R = DOMAIN new \cup DOMAIN target
    /\ \A y \in DOMAIN new : R[y] = new[y]
    /\ \A y \in DOMAIN target \ DOMAIN new : R[y] = target[y]
    /\ \A y \in DOMAIN target : R[y].table = target[y].table
    /\ \A y \in DOMAIN target : target[y].table # "settings" => R[y] = target[y]

LEMMA RestoredIs ==
    ASSUME NEW m, NEW i, NEW b, Restorable(m, i, b)
    PROVE  Receives(Restored(m, i, b), Inserted(m, i, b))
<1> DEFINE R == Restored(m, i, b)
           new == Inserted(m, i, b)
<1>1. /\ DOMAIN R = DOMAIN new \cup DOMAIN target
      /\ \A y \in DOMAIN new : R[y] = new[y]
      /\ \A y \in DOMAIN target \ DOMAIN new : R[y] = target[y]
    BY DEF Restored, Over
<1>2. ASSUME NEW y \in DOMAIN target, y \in DOMAIN new
      PROVE  new[y].table = "settings" /\ target[y].table = "settings"
  <2>1. y[1] # i
      BY <1>2 DEF Restorable, NewIn
  <2>2. ~IsFallback(i, y, new[y])
      BY <2>1 DEF IsFallback
  <2>3. PICK x \in Kept(m, i, b) : IsImage(m, i, b, x, y, new[y])
    <3>1. Inserts(m, i, b, new)
        BY InsertedAre
    <3> HIDE DEF new
    <3> QED
        BY <1>2, <2>2, <3>1 DEF Inserts, new
  <2>4. b[x].table = "settings" /\ y = <<0, x>> /\ new[y] = Image(m, i, b, x)
      BY <2>1, <2>3 DEF IsImage
  <2>5. new[y].table = "settings"
      BY <2>4 DEF Image
  <2>6. x \in DOMAIN b
      BY DEF Kept, Restorable, Placement
  <2>7. PICK p \in Written : p[1] = x
      BY <2>6 DEF Restorable, IsLedger, Ids
  <2>8. p[2].table = "settings"
      BY <2>4, <2>6, <2>7 DEF Restorable, IsLedger, Fits
  <2>9. target[y].table = "settings"
      BY <1>2, <2>4, <2>7, <2>8 DEF Restorable, TablesKept
  <2> QED
      BY <2>5, <2>9
<1> HIDE DEF R, new
<1>3. ASSUME NEW y \in DOMAIN target
      PROVE  R[y].table = target[y].table /\ (target[y].table # "settings" => R[y] = target[y])
    BY <1>1, <1>2
<1> QED
    BY <1>1, <1>3 DEF R, new, Receives

(* Wherever a row goes, there is a row of its table.                         *)
Arrives(R, y, t) == y \in DOMAIN R /\ R[y].table = t

LEMMA PlacesAreThere ==
    ASSUME NEW m, NEW i, NEW b, Restorable(m, i, b), NEW x \in DOMAIN m,
           Of(b, "payees") \subseteq DOMAIN m
    PROVE  Arrives(Restored(m, i, b), m[x], b[x].table)
<1> DEFINE R == Restored(m, i, b)
           new == Inserted(m, i, b)
<1>1. Receives(R, new) /\ Inserts(m, i, b, new)
    BY RestoredIs, InsertedAre
<1> HIDE DEF R, new
<1>2. ASSUME NEW z \in Kept(m, i, b)
      PROVE  Arrives(R, m[z], b[z].table)
  <2>1. m[z] \in DOMAIN new /\ new[m[z]] = Image(m, i, b, z)
      BY <1>1 DEF Inserts, IsImage
  <2>2. Image(m, i, b, z).table = b[z].table
      BY DEF Image
  <2> QED
      BY <1>1, <2>1, <2>2 DEF Receives, Arrives
<1>3. ASSUME NEW t, NEW y \in Of(target, t)
      PROVE  Arrives(R, y, t)
    BY <1>1, <1>3 DEF Of, Receives, Arrives
<1>4. CASE x \in Kept(m, i, b)
    BY <1>2, <1>4 DEF R
<1>5. CASE x \notin Kept(m, i, b) /\ m[x] \in Of(target, b[x].table)
    BY <1>3, <1>5 DEF R
<1>6. CASE b[x].table = "payees" /\ Folded(b, x) /\ m[x] = <<i, Survivor(b, b[x].name)>>
  <2> DEFINE s == Survivor(b, b[x].name)
  <2>1. x \in Of(b, "payees")
      BY <1>6 DEF Of, Restorable, Placement
  <2>2. s \in Of(b, "payees") /\ ~Folded(b, s)
      BY <2>1, SurvivorIs
  <2>3. m[x] = <<i, s>>
      BY <1>6
  <2> HIDE DEF s
  <2>4. s \in DOMAIN m /\ b[s].table = "payees"
      BY <2>2 DEF Of
  <2>5. Lodged(i, b, s, m[s])
      BY <2>4 DEF Restorable, Placement
  <2>6. m[s] = <<i, s>>
      BY <2>2, <2>4, <2>5 DEF Lodged
  <2>7. s \in Kept(m, i, b)
      BY <2>4, <2>6, KeptIs
  <2>8. Arrives(R, m[s], b[s].table)
      BY <1>2, <2>7
  <2> QED
      BY <1>6, <2>3, <2>4, <2>6, <2>8 DEF R
<1>7. \/ x \in Kept(m, i, b)
      \/ x \notin Kept(m, i, b) /\ m[x] \in Of(target, b[x].table)
      \/ b[x].table = "payees" /\ Folded(b, x) /\ m[x] = <<i, Survivor(b, b[x].name)>>
    BY KeptIs
<1> QED
    BY <1>4, <1>5, <1>6, <1>7

(* A category finds a group.                                                 *)
LEMMA GroupIsThere ==
    ASSUME NEW m, NEW i, NEW b, Restorable(m, i, b), Of(b, "payees") \subseteq DOMAIN m,
           NEW x \in Kept(m, i, b), b[x].table = "categories"
    PROVE  Arrives(Restored(m, i, b), GroupFor(m, i, b[x].refs.group), "groups")
<1> DEFINE h == b[x].refs.group
           g == GroupFor(m, i, h)
           R == Restored(m, i, b)
           new == Inserted(m, i, b)
<1>1. x \in DOMAIN b /\ Fits(x, b[x]) /\ IsLedger(b)
    BY DEF Kept, Restorable, Placement, IsLedger
<1>2. DOMAIN b[x].refs = {"group"} /\ References["categories"]["group"] = "groups"
    BY <1>1 DEF Fits, References
<1>3. Receives(R, new) /\ Inserts(m, i, b, new)
    BY RestoredIs, InsertedAre
<1>4. g = IF h \in DOMAIN m THEN m[h]
          ELSE IF <<0, h>> \in Of(target, "groups") THEN <<0, h>> ELSE Fallback(i)
    BY DEF GroupFor
<1>5. h = b[x].refs["group"]
    OBVIOUS
<1> HIDE DEF R, new, h
<1>6. ASSUME NEW y \in Of(target, "groups")
      PROVE  Arrives(R, y, "groups")
    BY <1>3 DEF Of, Receives, Arrives
<1>7. ASSUME h \in DOMAIN m
      PROVE  Arrives(R, g, "groups")
  <2>1. h \in DOMAIN b
      BY <1>7 DEF Restorable, Placement
  <2>2. b[h].table = "groups"
      BY <1>1, <1>2, <1>5, <2>1, ColumnsMatch
  <2>3. Arrives(R, m[h], b[h].table)
      BY <1>7, PlacesAreThere DEF R
  <2> HIDE DEF g
  <2> QED
      BY <1>4, <1>7, <2>2, <2>3
<1>8. ASSUME g = Fallback(i)
      PROVE  Arrives(R, g, "groups")
  <2> DEFINE known == Named(target, "groups", "Imported") \ {<<0, c>> : c \in Global}
  <2>1. Fallback(i) = IF known = {} THEN <<i, "Imported">> ELSE CHOOSE c \in known : TRUE
      BY DEF Fallback
  <2>2. known \subseteq Of(target, "groups")
      BY DEF Named
  <2>3. CASE known # {}
    <3> HIDE DEF known
    <3>1. Fallback(i) \in Of(target, "groups")
        BY <2>1, <2>2, <2>3
    <3> HIDE DEF g
    <3> QED
        BY <1>6, <1>8, <3>1
  <2>4. CASE known = {}
    <3>1. g = <<i, "Imported">>
        BY <1>8, <2>1, <2>4
    <3>2. g \in DOMAIN new /\ IsFallback(i, g, new[g])
        BY <1>3, <3>1 DEF Inserts, h
    <3> HIDE DEF g
    <3>3. new[g].table = "groups"
        BY <3>2 DEF IsFallback
    <3> QED
        BY <1>3, <3>2, <3>3 DEF Receives, Arrives
  <2> QED
      BY <2>3, <2>4
<1> HIDE DEF g
<1>9. Arrives(R, g, "groups")
    BY <1>4, <1>6, <1>7, <1>8
<1> QED
    BY <1>9 DEF g, h, R

(* A column of a row the restore inserted.                                   *)
LEMMA ImageIs ==
    ASSUME NEW m, NEW i, NEW b, Restorable(m, i, b), NEW x \in Kept(m, i, b)
    PROVE  LET r == Image(m, i, b, x)
           IN  /\ x \in DOMAIN b /\ Fits(x, b[x]) /\ x \in DOMAIN m
               /\ r.table = b[x].table /\ DOMAIN r.refs = DOMAIN b[x].refs
               /\ DOMAIN r.refs = DOMAIN References[r.table] /\ r.table \in DOMAIN References
               /\ Needed(r) = Needed(b[x])
               /\ \A f \in DOMAIN b[x].refs : r.refs[f] = Mapped(m, i, b, b[x], f)
<1> DEFINE r == Image(m, i, b, x)
<1>1. x \in DOMAIN b /\ Fits(x, b[x]) /\ x \in DOMAIN m
    BY DEF Kept, Restorable, Placement, IsLedger
<1>2. /\ r.table = b[x].table
      /\ r.refs = [f \in DOMAIN b[x].refs |-> Mapped(m, i, b, b[x], f)]
    BY DEF Image
<1> HIDE DEF r
<1>3. DOMAIN r.refs = DOMAIN b[x].refs
    BY <1>2
<1>4. Needed(r) = Needed(b[x])
    BY <1>2, <1>3 DEF Needed
<1>5. \A f \in DOMAIN b[x].refs : r.refs[f] = Mapped(m, i, b, b[x], f)
    BY <1>2
<1> QED
    BY <1>1, <1>2, <1>3, <1>4, <1>5 DEF Fits, r

LEMMA ColumnsAre ==
    /\ \A t \in DOMAIN References : "group" \in DOMAIN References[t] => t = "categories"
    /\ \A t \in DOMAIN References : "cycle" \in DOMAIN References[t] => t = "transactions"
    /\ DOMAIN References["categories"] = {"group"}
    /\ DOMAIN References["transactions"] = {"account", "category", "payee", "cycle"}
    /\ DOMAIN References["cycles"] = {"account"}
    /\ DOMAIN References["accounts"] = {}
    /\ References["transactions"]["account"] = "accounts"
    /\ References["transactions"]["cycle"] = "cycles"
    /\ DOMAIN Optional = {"payees", "transactions", "series", "rules"}
    /\ Optional["transactions"] = {"category", "payee", "cycle"}
BY DEF References, Optional

(* Every column of a row in a sound ledger.                                  *)
Resolves(l, r, f) ==
    \/ r.refs[f] = None /\ f \notin Needed(r)
    \/ r.refs[f] \in DOMAIN l /\ l[r.refs[f]].table = References[r.table][f]

LEMMA ImageResolves ==
    ASSUME NEW m, NEW i, NEW b, Restorable(m, i, b), Of(b, "payees") \subseteq DOMAIN m,
           NEW x \in Kept(m, i, b), NEW f \in DOMAIN b[x].refs
    PROVE  Resolves(Restored(m, i, b), Image(m, i, b, x), f)
<1> DEFINE r == Image(m, i, b, x)
           R == Restored(m, i, b)
           v == b[x].refs[f]
<1>1. /\ x \in DOMAIN b /\ Fits(x, b[x]) /\ x \in DOMAIN m
      /\ r.table = b[x].table /\ r.table \in DOMAIN References
      /\ Needed(r) = Needed(b[x])
      /\ DOMAIN b[x].refs = DOMAIN References[r.table]
      /\ r.refs[f] = Mapped(m, i, b, b[x], f)
    BY ImageIs
<1> HIDE DEF r, R
<1>2. CASE f = "group"
  <2>1. b[x].table = "categories"
      BY <1>1, <1>2, ColumnsAre
  <2>2. r.refs[f] = GroupFor(m, i, b[x].refs.group)
      BY <1>1, <1>2 DEF Mapped
  <2>3. Arrives(R, r.refs[f], "groups")
      BY <2>1, <2>2, GroupIsThere DEF R
  <2>4. References[r.table][f] = "groups"
      BY <1>1, <1>2, <2>1 DEF References
  <2> QED
      BY <2>3, <2>4 DEF Resolves, Arrives, r, R
<1>3. CASE f # "group" /\ v \in DOMAIN m /\ (f = "cycle" => OwnCycle(b, b[x]))
  <2>1. r.refs[f] = m[v]
      BY <1>1, <1>3 DEF Mapped
  <2>2. v \in DOMAIN b
      BY <1>3 DEF Restorable, Placement
  <2>3. b[v].table = References[b[x].table][f]
      BY <1>1, <2>2, ColumnsMatch DEF Restorable
  <2> HIDE DEF v
  <2>4. Arrives(R, m[v], b[v].table)
      BY <1>3, PlacesAreThere DEF R
  <2> QED
      BY <1>1, <2>1, <2>3, <2>4 DEF Resolves, Arrives, r, R
<1>4. CASE f # "group" /\ ~(v \in DOMAIN m /\ (f = "cycle" => OwnCycle(b, b[x])))
  <2>1. r.refs[f] = None
      BY <1>1, <1>4 DEF Mapped
  <2>2. f \notin Needed(b[x])
    <3>1. CASE f = "cycle"
      <4>1. b[x].table = "transactions"
          BY <1>1, <3>1, ColumnsAre
      <4> QED
          BY <3>1, <4>1, ColumnsAre DEF Needed
    <3>2. CASE f # "cycle"
      <4>1. b[x].table # "categories"
          BY <1>1, <1>4, ColumnsAre
      <4> QED
          BY <1>1, <1>4, <3>2, <4>1 DEF Restorable, Placement
    <3> QED
        BY <3>1, <3>2
  <2> QED
      BY <1>1, <2>1, <2>2 DEF Resolves, r
<1> QED
    BY <1>2, <1>3, <1>4

ShapesKept ==
    \A y \in DOMAIN target :
        /\ target[y].table \in DOMAIN References
        /\ DOMAIN target[y].refs = DOMAIN References[target[y].table]

LEMMA SoundIs ==
    ASSUME NEW l
    PROVE  Sound(l) <=>
             /\ \A x \in DOMAIN l : \A f \in DOMAIN l[x].refs : Resolves(l, l[x], f)
             /\ \A t \in Of(l, "transactions") :
                   l[t].refs.cycle # None => l[l[t].refs.cycle].refs.account = l[t].refs.account
             /\ \A p, q \in Of(l, "payees") : l[p].name = l[q].name => p = q
             /\ \A c, d \in Of(l, "accounts") : l[c].default /\ l[d].default => c = d
BY Zenon DEF Sound, Resolves

LEMMA RestoreIsSound ==
    ASSUME NEW m, NEW i, NEW b, Restorable(m, i, b), Of(b, "payees") \subseteq DOMAIN m,
           Sound(target), ShapesKept, ~HasAccounts, ~Refused(m, i, b)
    PROVE  Sound(Restored(m, i, b))
<1> DEFINE R == Restored(m, i, b)
           new == Inserted(m, i, b)
<1>1. Receives(R, new) /\ Inserts(m, i, b, new)
    BY RestoredIs, InsertedAre
<1>2. \A p \in Of(new, "payees") :
         Named(target, "payees", new[p].name) \cup Named(new, "payees", new[p].name) = {p}
    BY DEF Refused
<1> HIDE DEF R, new
<1>3. /\ \A x \in DOMAIN target : \A f \in DOMAIN target[x].refs : Resolves(target, target[x], f)
      /\ \A p, q \in Of(target, "payees") : target[p].name = target[q].name => p = q
    BY SoundIs
<1>4. Of(target, "accounts") = {}
    BY DEF HasAccounts
<1>5. Of(target, "transactions") = {}
  <2>1. SUFFICES ASSUME NEW t \in Of(target, "transactions")
                 PROVE  FALSE
      OBVIOUS
  <2>2. t \in DOMAIN target /\ target[t].table = "transactions"
      BY DEF Of
  <2>3. "account" \in DOMAIN target[t].refs /\ "account" \in Needed(target[t])
      BY <2>2, ColumnsAre DEF ShapesKept, Needed
  <2>4. Resolves(target, target[t], "account")
      BY <1>3, <2>2, <2>3
  <2>5. target[t].refs["account"] \in Of(target, "accounts")
      BY <2>2, <2>3, <2>4, ColumnsAre DEF Resolves, Of
  <2> QED
      BY <1>4, <2>5
<1>6. ASSUME NEW y \in DOMAIN new, ~IsFallback(i, y, new[y])
      PROVE  \E x \in Kept(m, i, b) : y = m[x] /\ new[y] = Image(m, i, b, x)
    BY <1>1, <1>6 DEF Inserts, IsImage
<1>7. ASSUME NEW y \in DOMAIN R, NEW f \in DOMAIN R[y].refs
      PROVE  Resolves(R, R[y], f)
  <2>1. CASE y \in DOMAIN new /\ IsFallback(i, y, new[y])
      BY <1>1, <1>7, <2>1 DEF IsFallback, Receives
  <2>2. CASE y \in DOMAIN new /\ ~IsFallback(i, y, new[y])
    <3>1. PICK x \in Kept(m, i, b) : new[y] = Image(m, i, b, x)
        BY <1>6, <2>2
    <3>2. R[y] = Image(m, i, b, x)
        BY <1>1, <2>2, <3>1 DEF Receives
    <3>3. f \in DOMAIN b[x].refs
        BY <1>7, <3>2, ImageIs
    <3> QED
        BY <3>2, <3>3, ImageResolves DEF R
  <2>3. CASE y \notin DOMAIN new
    <3>1. y \in DOMAIN target /\ R[y] = target[y]
        BY <1>1, <2>3, <1>7 DEF Receives
    <3>2. Resolves(target, target[y], f)
        BY <1>3, <1>7, <3>1
    <3> QED
        BY <1>1, <3>1, <3>2 DEF Resolves, Receives
  <2> QED
      BY <2>1, <2>2, <2>3
<1>8. ASSUME NEW t \in Of(R, "transactions"), R[t].refs.cycle # None
      PROVE  R[R[t].refs.cycle].refs.account = R[t].refs.account
  <2>1. t \in DOMAIN R /\ R[t].table = "transactions"
      BY DEF Of
  <2>2. t \in DOMAIN new /\ ~IsFallback(i, t, new[t])
      BY <1>1, <1>5, <2>1 DEF Receives, Of, IsFallback
  <2>3. PICK x \in Kept(m, i, b) : new[t] = Image(m, i, b, x)
      BY <1>6, <2>2
  <2>4. R[t] = Image(m, i, b, x)
      BY <1>1, <2>2, <2>3 DEF Receives
  <2> DEFINE c == b[x].refs.cycle
             a == b[x].refs.account
  <2>5. /\ b[x].table = "transactions" /\ x \in DOMAIN b
        /\ "cycle" \in DOMAIN b[x].refs /\ "account" \in DOMAIN b[x].refs
      BY <2>1, <2>4, ImageIs, ColumnsAre
  <2>6. /\ R[t].refs["cycle"] = Mapped(m, i, b, b[x], "cycle")
        /\ R[t].refs["account"] = Mapped(m, i, b, b[x], "account")
      BY <2>4, <2>5, ImageIs
  <2>7. c \in DOMAIN m /\ OwnCycle(b, b[x]) /\ R[t].refs.cycle = m[c]
      BY <1>8, <2>6 DEF Mapped
  <2>8. c \in DOMAIN b /\ b[c].refs.account = a
      BY <2>7 DEF OwnCycle
  <2>9. b[x].refs["cycle"] = c /\ b[x].refs["account"] = a
      OBVIOUS
  <2> HIDE DEF c, a
  <2>10. b[c].table = "cycles"
      BY <2>5, <2>8, <2>9, ColumnsMatch, ColumnsAre DEF Restorable
  <2>11. c \in Kept(m, i, b)
      BY <2>7, <2>10, KeptIs
  <2>12. m[c] \in DOMAIN new /\ new[m[c]] = Image(m, i, b, c)
      BY <1>1, <2>11 DEF Inserts, IsImage
  <2>13. R[m[c]] = Image(m, i, b, c)
      BY <1>1, <2>12 DEF Receives
  <2>14. "account" \in DOMAIN b[c].refs
    <3>1. Fits(c, b[c])
        BY <2>11, ImageIs
    <3> QED
        BY <2>10, <3>1, ColumnsAre DEF Fits
  <2>15. R[m[c]].refs["account"] = Mapped(m, i, b, b[c], "account")
      BY <2>11, <2>13, <2>14, ImageIs
  <2>16. Mapped(m, i, b, b[c], "account") = Mapped(m, i, b, b[x], "account")
      BY <2>8, <2>9 DEF Mapped
  <2> QED
      BY <2>6, <2>7, <2>15, <2>16
<1>9. ASSUME NEW p \in Of(R, "payees"), NEW q \in Of(R, "payees"), R[p].name = R[q].name
      PROVE  p = q
  <2>1. ASSUME NEW u \in Of(R, "payees")
        PROVE  \/ u \in Of(new, "payees") /\ R[u] = new[u]
               \/ u \in Of(target, "payees") /\ R[u] = target[u]
      BY <1>1 DEF Receives, Of
  <2>2. ASSUME NEW u \in Of(new, "payees"), NEW w \in Of(R, "payees"), new[u].name = R[w].name
        PROVE  u = w
    <3>1. w \in Named(target, "payees", new[u].name) \cup Named(new, "payees", new[u].name)
        BY <2>1, <2>2 DEF Named
    <3> QED
        BY <1>2, <3>1
  <2> QED
      BY <1>3, <1>9, <2>1, <2>2
<1>10. ASSUME NEW c \in Of(R, "accounts"), NEW d \in Of(R, "accounts"), R[c].default, R[d].default
       PROVE  c = d
  <2> DEFINE only == CHOOSE e \in Of(b, "accounts") : b[e].default
  <2>1. ASSUME NEW e \in Of(R, "accounts"), R[e].default
        PROVE  e = m[only]
    <3>1. e \in DOMAIN new /\ new[e].table = "accounts" /\ new[e].default
        BY <1>1, <1>4, <2>1 DEF Receives, Of
    <3>2. ~IsFallback(i, e, new[e])
        BY <3>1 DEF IsFallback
    <3>3. PICK x \in Kept(m, i, b) : e = m[x] /\ new[e] = Image(m, i, b, x)
        BY <1>6, <3>1, <3>2
    <3>4. x = only
        BY <3>1, <3>3 DEF Image
    <3> QED
        BY <3>3, <3>4
  <2> QED
      BY <1>10, <2>1
<1> QED
    BY <1>7, <1>8, <1>9, <1>10, SoundIs DEF R

-----------------------------------------------------------------------------
(* The ledgers on both sides, step by step. *)

Homed == \A y \in DOMAIN target : y[1] \in {0} \cup {i \in Imports : restores[i].phase = "done"}

RestoreInv ==
    /\ LockInv
    /\ IsLedger(source) /\ IsLedger(bundle)
    /\ \A i \in Imports : restores[i].phase = "locked" => IsLedger(restores[i].bundle)
    /\ Sound(target) /\ ShapesKept /\ TablesKept /\ Homed

LEMMA InitRestores == BackupInit => RestoreInv
<1> SUFFICES ASSUME BackupInit
             PROVE  RestoreInv
    OBVIOUS
<1>1. LockInv
    BY InitLocks
<1>2. IsLedger(source) /\ IsLedger(bundle)
    BY GivenAreLedgers DEF BackupInit, IsLedger
<1>3. \A i \in Imports : restores[i].phase # "locked"
    BY DEF BackupInit, NotBegun
<1>4. PICK h \in Homes :
         target = [y \in {<<0, x>> : x \in DOMAIN h} |->
                     [h[y[2]] EXCEPT !.refs = [f \in DOMAIN @ |->
                                IF @[f] = None THEN None ELSE <<0, @[f]>>]]]
    BY DEF BackupInit
<1>5. IsLedger(h) /\ Sound(h) /\ Of(h, "accounts") = {}
    BY GivenAreLedgers, BackupAssumption
<1>6. ASSUME NEW x \in DOMAIN h
      PROVE  LET r == target[<<0, x>>]
             IN  /\ r.table = h[x].table /\ r.name = h[x].name /\ r.default = h[x].default
                 /\ DOMAIN r.refs = DOMAIN h[x].refs /\ Needed(r) = Needed(h[x])
                 /\ DOMAIN h[x].refs = DOMAIN References[h[x].table]
                 /\ h[x].table \in DOMAIN References
                 /\ \A f \in DOMAIN h[x].refs :
                       r.refs[f] = IF h[x].refs[f] = None THEN None ELSE <<0, h[x].refs[f]>>
  <2> DEFINE r == target[<<0, x>>]
             refs == [f \in DOMAIN h[x].refs |->
                         IF h[x].refs[f] = None THEN None ELSE <<0, h[x].refs[f]>>]
  <2>1. Fits(x, h[x])
      BY <1>5 DEF IsLedger
  <2>2. r = [h[x] EXCEPT !.refs = refs]
      BY <1>4
  <2>3. h[x] = [table |-> h[x].table, name |-> h[x].name, default |-> h[x].default, refs |-> h[x].refs]
      BY <2>1 DEF Fits
  <2>4. r = [table |-> h[x].table, name |-> h[x].name, default |-> h[x].default, refs |-> refs]
    <3> HIDE DEF r, refs
    <3> QED
        BY <2>2, <2>3
  <2>5. /\ r.table = h[x].table /\ r.name = h[x].name /\ r.default = h[x].default
        /\ r.refs = refs
    <3> HIDE DEF r, refs
    <3> QED
        BY <2>4
  <2> HIDE DEF r
  <2>6. DOMAIN r.refs = DOMAIN h[x].refs
      BY <2>5
  <2>7. Needed(r) = Needed(h[x])
      BY <2>5, <2>6 DEF Needed
  <2> QED
      BY <2>1, <2>5, <2>6, <2>7 DEF Fits, r
<1>7. DOMAIN target = {<<0, x>> : x \in DOMAIN h}
    BY <1>4
<1>8. Homed
    BY <1>7 DEF Homed
<1>9. ShapesKept
    BY <1>6, <1>7 DEF ShapesKept
<1>10. TablesKept
  <2>1. ASSUME NEW p \in Written, <<0, p[1]>> \in DOMAIN target
        PROVE  target[<<0, p[1]>>].table = p[2].table
    <3>1. p[1] \in DOMAIN h
        BY <1>7, <2>1
    <3>2. p[2].table = h[p[1]].table
        BY <1>5, <3>1 DEF IsLedger, Fits
    <3> QED
        BY <1>6, <3>1, <3>2
  <2> QED
      BY <2>1 DEF TablesKept
<1>11. Sound(target)
  <2>1. /\ \A x \in DOMAIN h : \A f \in DOMAIN h[x].refs : Resolves(h, h[x], f)
        /\ \A p, q \in Of(h, "payees") : h[p].name = h[q].name => p = q
      BY <1>5, SoundIs
  <2>2. None \notin DOMAIN h
      BY <1>5, BackupAssumption DEF IsLedger
  <2>3. ASSUME NEW x \in DOMAIN h, NEW f \in DOMAIN h[x].refs
        PROVE  Resolves(target, target[<<0, x>>], f)
    <3>1. Resolves(h, h[x], f)
        BY <2>1
    <3>2. CASE h[x].refs[f] = None
        BY <1>6, <2>2, <3>1, <3>2 DEF Resolves
    <3>3. CASE h[x].refs[f] # None
      <4> DEFINE z == h[x].refs[f]
      <4>1. z \in DOMAIN h /\ h[z].table = References[h[x].table][f]
          BY <3>1, <3>3 DEF Resolves
      <4>2. target[<<0, x>>].refs[f] = <<0, z>> /\ target[<<0, x>>].table = h[x].table
          BY <1>6, <3>3
      <4> HIDE DEF z
      <4>3. <<0, z>> \in DOMAIN target /\ target[<<0, z>>].table = h[z].table
          BY <1>6, <1>7, <4>1
      <4> QED
          BY <4>1, <4>2, <4>3 DEF Resolves
    <3> QED
        BY <3>2, <3>3
  <2>4. \A y \in DOMAIN target : \A f \in DOMAIN target[y].refs : Resolves(target, target[y], f)
      BY <1>6, <1>7, <2>3
  <2>5. Of(h, "transactions") = {}
    <3>1. SUFFICES ASSUME NEW t \in Of(h, "transactions")
                   PROVE  FALSE
        OBVIOUS
    <3>2. t \in DOMAIN h /\ h[t].table = "transactions"
        BY DEF Of
    <3>3. "account" \in DOMAIN h[t].refs /\ "account" \in Needed(h[t])
        BY <1>6, <3>2, ColumnsAre DEF Needed
    <3>4. Resolves(h, h[t], "account")
        BY <2>1, <3>2, <3>3
    <3>5. h[t].refs["account"] \in Of(h, "accounts")
        BY <3>2, <3>3, <3>4, ColumnsAre DEF Resolves, Of
    <3> QED
        BY <1>5, <3>5
  <2>6. Of(target, "transactions") = {}
      BY <1>6, <1>7, <2>5 DEF Of
  <2>7. Of(target, "accounts") = {}
      BY <1>5, <1>6, <1>7 DEF Of
  <2>8. ASSUME NEW p \in Of(target, "payees"), NEW q \in Of(target, "payees"),
               target[p].name = target[q].name
        PROVE  p = q
    <3>1. PICK u \in DOMAIN h : p = <<0, u>>
        BY <1>7 DEF Of
    <3>2. PICK w \in DOMAIN h : q = <<0, w>>
        BY <1>7 DEF Of
    <3>3. u \in Of(h, "payees") /\ w \in Of(h, "payees") /\ h[u].name = h[w].name
        BY <1>6, <2>8, <3>1, <3>2 DEF Of
    <3> QED
        BY <2>1, <3>1, <3>2, <3>3
  <2> QED
      BY <2>4, <2>6, <2>7, <2>8, SoundIs
<1> QED
    BY <1>1, <1>2, <1>3, <1>8, <1>9, <1>10, <1>11 DEF RestoreInv

(* A ledger that is put over another has the rows of both.                   *)
LEMMA OverIs ==
    ASSUME NEW f, NEW g
    PROVE  /\ DOMAIN Over(f, g) = DOMAIN f \cup DOMAIN g
           /\ \A x \in DOMAIN f : Over(f, g)[x] = f[x]
           /\ \A x \in DOMAIN g \ DOMAIN f : Over(f, g)[x] = g[x]
BY DEF Over

LEMMA OverIsLedger ==
    ASSUME NEW f, NEW g, IsLedger(f), IsLedger(g)
    PROVE  IsLedger(Over(f, g))
<1> DEFINE l == Over(f, g)
<1>1. /\ DOMAIN l = DOMAIN f \cup DOMAIN g
      /\ \A x \in DOMAIN f : l[x] = f[x]
      /\ \A x \in DOMAIN g \ DOMAIN f : l[x] = g[x]
    BY OverIs
<1> HIDE DEF l
<1>2. IsLedger(l)
    BY <1>1 DEF IsLedger
<1> QED
    BY <1>2 DEF l

(* Export and writes keep the ledgers of their side.                         *)
LEMMA SidesStayLedgers ==
    ASSUME IsLedger(source), IsLedger(bundle),
           Export \/ (\E x \in Doomed : Delete(x)) \/ (\E d \in Drafts : Write(d[1], d[2]))
    PROVE  IsLedger(source') /\ IsLedger(bundle')
<1>1. CASE Export
  <2> DEFINE g == [x \in Rows(Queries[asked + 1]) |-> source[x]]
  <2>1. source' = source /\ bundle' = Over(bundle, g)
      BY <1>1 DEF Export
  <2>2. \A q : Rows(q) \subseteq DOMAIN source
      BY DEF Rows, Of
  <2>3. IsLedger(g)
      BY <2>2 DEF IsLedger
  <2> HIDE DEF g
  <2> QED
      BY <2>1, <2>3, OverIsLedger
<1>2. ASSUME NEW x \in Doomed, Delete(x)
      PROVE  IsLedger(source') /\ IsLedger(bundle')
  <2> DEFINE gone == Cascade(source, With(x))
             cleared(r) == [r EXCEPT !.refs = [f \in DOMAIN @ |->
                                                 IF @[f] \in gone THEN None ELSE @[f]]]
  <2>1. /\ source' = [y \in DOMAIN source \ gone |-> cleared(source[y])]
        /\ bundle' = bundle
      BY <1>2 DEF Delete, Becomes
  <2> HIDE DEF gone
  <2>2. ASSUME NEW y \in DOMAIN source
        PROVE  y \in Ids /\ Fits(y, cleared(source[y]))
    <3> DEFINE r == source[y]
               refs == [f \in DOMAIN r.refs |-> IF r.refs[f] \in gone THEN None ELSE r.refs[f]]
               c == [table |-> r.table, name |-> r.name, default |-> r.default, refs |-> refs]
    <3>1. y \in Ids /\ Fits(y, r)
        BY DEF IsLedger
    <3>2. r = [table |-> r.table, name |-> r.name, default |-> r.default, refs |-> r.refs]
        BY <3>1 DEF Fits
    <3>3. cleared(r) = [r EXCEPT !.refs = refs]
        OBVIOUS
    <3>4. cleared(r) = c
      <4> HIDE DEF r, refs, cleared
      <4> QED
          BY <3>2, <3>3
    <3>5. /\ c.table = r.table /\ c.name = r.name /\ c.default = r.default
          /\ DOMAIN c.refs = DOMAIN r.refs
          /\ \A f \in DOMAIN r.refs : c.refs[f] = None \/ c.refs[f] = r.refs[f]
        OBVIOUS
    <3>6. c = [table |-> c.table, name |-> c.name, default |-> c.default, refs |-> c.refs]
        OBVIOUS
    <3> HIDE DEF c, r
    <3>7. \A p \in Written : p[1] # None
        BY BackupAssumption DEF Ids
    <3>8. Fits(y, c)
        BY <3>1, <3>5, <3>6, <3>7 DEF Fits
    <3> QED
        BY <3>1, <3>4, <3>8 DEF r
  <2> HIDE DEF cleared
  <2> QED
      BY <2>1, <2>2 DEF IsLedger
<1>3. ASSUME NEW d \in Drafts, Write(d[1], d[2])
      PROVE  IsLedger(source') /\ IsLedger(bundle')
  <2> DEFINE g == [y \in {d[1]} |-> d[2]]
  <2>1. source' = Over(g, source) /\ bundle' = bundle
      BY <1>3 DEF Write, Becomes
  <2>2. IsLedger(g)
      BY GivenAreLedgers DEF IsLedger
  <2> HIDE DEF g
  <2> QED
      BY <2>1, <2>2, OverIsLedger
<1> QED
    BY <1>1, <1>2, <1>3

LEMMA AccountKeepsSound ==
    ASSUME RestoreInv, CreateAccount
    PROVE  Sound(target)' /\ ShapesKept' /\ TablesKept' /\ Homed'
<1> DEFINE a == <<0, "account">>
           r == [table |-> "accounts", name |-> "account", default |-> FALSE, refs |-> <<>>]
           g == [y \in {a} |-> r]
           T == target'
<1>1. T = Over(target, g) /\ restores' = restores /\ ~HasAccounts
    BY DEF CreateAccount
<1>2. DOMAIN g = {a} /\ g[a] = r
    OBVIOUS
<1> HIDE DEF g
<1>3. /\ DOMAIN T = DOMAIN target \cup {a}
      /\ \A y \in DOMAIN target : T[y] = target[y]
      /\ a \notin DOMAIN target => T[a] = r
  <2>1. /\ DOMAIN Over(target, g) = DOMAIN target \cup DOMAIN g
        /\ \A x \in DOMAIN target : Over(target, g)[x] = target[x]
        /\ \A x \in DOMAIN g \ DOMAIN target : Over(target, g)[x] = g[x]
      BY OverIs
  <2> HIDE DEF a, r
  <2> QED
      BY <1>1, <1>2, <2>1
<1>4. r.table = "accounts" /\ r.default = FALSE /\ DOMAIN r.refs = {}
    OBVIOUS
<1> HIDE DEF r, T
<1>5. /\ \A x \in DOMAIN target : \A f \in DOMAIN target[x].refs : Resolves(target, target[x], f)
      /\ \A t \in Of(target, "transactions") :
            target[t].refs.cycle # None =>
                target[target[t].refs.cycle].refs.account = target[t].refs.account
      /\ \A p, q \in Of(target, "payees") : target[p].name = target[q].name => p = q
    BY SoundIs DEF RestoreInv
<1>6. Of(target, "accounts") = {}
    BY <1>1 DEF HasAccounts
<1>7. ASSUME NEW t \in DOMAIN target
      PROVE  target[t].table # "transactions"
  <2>1. SUFFICES ASSUME target[t].table = "transactions"
                 PROVE  FALSE
      OBVIOUS
  <2>2. "account" \in DOMAIN target[t].refs /\ "account" \in Needed(target[t])
      BY <2>1, ColumnsAre DEF RestoreInv, ShapesKept, Needed
  <2>3. Resolves(target, target[t], "account")
      BY <1>5, <2>2
  <2>4. target[t].refs["account"] \in Of(target, "accounts")
      BY <2>1, <2>2, <2>3, ColumnsAre DEF Resolves, Of
  <2> QED
      BY <1>6, <2>4
<1>8. Sound(T)
  <2>1. \A x \in DOMAIN T : \A f \in DOMAIN T[x].refs : Resolves(T, T[x], f)
      BY <1>3, <1>4, <1>5 DEF Resolves
  <2>2. Of(T, "transactions") = {}
      BY <1>3, <1>4, <1>7 DEF Of
  <2>3. \A p, q \in Of(T, "payees") : T[p].name = T[q].name => p = q
      BY <1>3, <1>4, <1>5 DEF Of
  <2>4. \A c, d \in Of(T, "accounts") : T[c].default /\ T[d].default => c = d
      BY <1>3, <1>4, <1>6 DEF Of
  <2> QED
      BY <2>1, <2>2, <2>3, <2>4, SoundIs
<1>9. \A y \in DOMAIN T : T[y].table \in DOMAIN References
                          /\ DOMAIN T[y].refs = DOMAIN References[T[y].table]
  <2>1. "accounts" \in DOMAIN References
      BY DEF References
  <2> QED
    <3>1. ASSUME NEW y \in DOMAIN T
          PROVE  T[y].table \in DOMAIN References /\ DOMAIN T[y].refs = DOMAIN References[T[y].table]
      <4>1. CASE y \in DOMAIN target
          BY <1>3, <4>1 DEF RestoreInv, ShapesKept
      <4>2. CASE y \notin DOMAIN target
        <5>1. T[y] = r
            BY <1>3, <3>1, <4>2
        <5>2. DOMAIN References["accounts"] = {}
            BY ColumnsAre
        <5> QED
            BY <1>4, <2>1, <5>1, <5>2
      <4> QED
          BY <4>1, <4>2
    <3> QED
        BY <3>1
<1>10. \A p \in Written : <<0, p[1]>> \in DOMAIN T => T[<<0, p[1]>>].table = p[2].table
  <2>1. \A p \in Written : p[1] # "account"
      BY BackupAssumption DEF Ids
  <2> QED
      BY <1>3, <2>1 DEF RestoreInv, TablesKept
<1>11. \A y \in DOMAIN T : y[1] \in {0} \cup {i \in Imports : restores[i].phase = "done"}
    BY <1>3 DEF RestoreInv, Homed
<1> QED
    BY <1>1, <1>8, <1>9, <1>10, <1>11 DEF T, ShapesKept, TablesKept, Homed

LEMMA PayeesArePlaced ==
    ASSUME NEW i, NEW b, IsLedger(b)
    PROVE  Of(b, "payees") \subseteq DOMAIN Places(i, b)
<1>1. SUFFICES ASSUME NEW p \in Of(b, "payees")
               PROVE  p \in DOMAIN Places(i, b)
    OBVIOUS
<1>2. p \in DOMAIN b /\ b[p].table = "payees" /\ Fits(p, b[p])
    BY DEF Of, IsLedger
<1>3. Needed(b[p]) = {} /\ b[p].table \in DOMAIN References
    BY <1>2 DEF Fits, References, Optional, Needed
<1> QED
    BY <1>2, <1>3, PlacesHold

LEMMA RestoreKeepsSound ==
    ASSUME RestoreInv, NEW i \in Imports, Restore(i)
    PROVE  Sound(target)' /\ ShapesKept' /\ TablesKept' /\ Homed'
<1> DEFINE b == restores[i].bundle
           m == Places(i, b)
           R == Restored(m, i, b)
           new == Inserted(m, i, b)
<1>1. /\ restores[i].phase = "locked"
      /\ \/ restores' = [restores EXCEPT ![i].phase = "refused"] /\ target' = target
         \/ /\ ~Refused(m, i, b)
            /\ restores' = [restores EXCEPT ![i].phase = "done"]
            /\ target' = R
    BY DEF Restore, Restored
<1>2. LockInv /\ IsLedger(b) /\ i # 0 /\ Sound(target) /\ ShapesKept /\ TablesKept /\ Homed
    BY <1>1, BackupAssumption DEF RestoreInv
<1>3. ~HasAccounts
    BY <1>1, <1>2 DEF LockInv
<1>4. Restorable(m, i, b)
    BY <1>1, <1>2, PlacesHold DEF Restorable, NewIn, Homed
<1>5. Of(b, "payees") \subseteq DOMAIN m
    BY <1>2, PayeesArePlaced
<1> HIDE DEF m, b, R
<1>6. \A j \in Imports \ {i} : restores'[j] = restores[j]
    BY <1>1, <1>2 DEF LockInv, Typed
<1>7. CASE target' = target
  <2>1. \A y \in DOMAIN target : y[1] \in {0} \cup {j \in Imports : restores'[j].phase = "done"}
      BY <1>1, <1>2, <1>6 DEF Homed
  <2> QED
      BY <1>2, <1>7, <2>1 DEF Homed, ShapesKept, TablesKept
<1>8. CASE target' = R /\ ~Refused(m, i, b) /\ restores' = [restores EXCEPT ![i].phase = "done"]
  <2>1. Sound(R)
      BY <1>2, <1>3, <1>4, <1>5, <1>8, RestoreIsSound DEF R
  <2>2. Receives(R, new) /\ Inserts(m, i, b, new)
      BY <1>4, RestoredIs, InsertedAre DEF R
  <2> HIDE DEF new
  <2>3. restores'[i].phase = "done"
      BY <1>2, <1>8 DEF LockInv, Typed
  <2>4. ASSUME NEW y \in DOMAIN R
        PROVE  /\ R[y].table \in DOMAIN References
               /\ DOMAIN R[y].refs = DOMAIN References[R[y].table]
               /\ y[1] \in {0} \cup {j \in Imports : restores'[j].phase = "done"}
    <3>1. CASE y \in DOMAIN new /\ IsFallback(i, y, new[y])
      <4>1. "groups" \in DOMAIN References /\ DOMAIN References["groups"] = DOMAIN <<>>
          BY DEF References
      <4>2. R[y].table = "groups" /\ R[y].refs = <<>> /\ y[1] = i
          BY <2>2, <3>1 DEF IsFallback, Receives
      <4> QED
          BY <2>3, <4>1, <4>2
    <3>2. CASE y \in DOMAIN new /\ ~IsFallback(i, y, new[y])
      <4>1. PICK x \in Kept(m, i, b) : IsImage(m, i, b, x, y, new[y])
          BY <2>2, <3>2 DEF Inserts
      <4>2. R[y] = Image(m, i, b, x) /\ y[1] \in {0, i}
          BY <2>2, <3>2, <4>1 DEF IsImage, Receives
      <4>3. R[y].table \in DOMAIN References /\ DOMAIN R[y].refs = DOMAIN References[R[y].table]
          BY <1>4, <4>2, ImageIs
      <4> QED
          BY <2>3, <4>2, <4>3
    <3>3. CASE y \notin DOMAIN new
      <4>1. y \in DOMAIN target /\ R[y] = target[y]
          BY <2>2, <2>4, <3>3 DEF Receives
      <4>2. y[1] \in {0} \cup {j \in Imports : restores[j].phase = "done"}
          BY <1>2, <4>1 DEF Homed
      <4> QED
          BY <1>2, <1>6, <2>3, <4>1, <4>2 DEF ShapesKept
    <3> QED
        BY <3>1, <3>2, <3>3
  <2>5. ASSUME NEW p \in Written, <<0, p[1]>> \in DOMAIN R
        PROVE  R[<<0, p[1]>>].table = p[2].table
    <3> DEFINE y == <<0, p[1]>>
    <3>1. y[1] = 0 /\ y[2] = p[1]
        OBVIOUS
    <3>2. y \in DOMAIN R
        BY <2>5
    <3> HIDE DEF y
    <3>3. CASE y \in DOMAIN target
        BY <1>2, <2>2, <3>3 DEF TablesKept, Receives, y
    <3>4. CASE y \notin DOMAIN target
      <4>1. y \in DOMAIN new /\ R[y] = new[y]
          BY <2>2, <3>2, <3>4 DEF Receives
      <4>2. ~IsFallback(i, y, new[y])
          BY <1>2, <3>1 DEF IsFallback
      <4>3. PICK x \in Kept(m, i, b) : IsImage(m, i, b, x, y, new[y])
          BY <2>2, <4>1, <4>2 DEF Inserts
      <4>4. x = p[1] /\ new[y] = Image(m, i, b, x)
          BY <3>1, <4>3 DEF IsImage
      <4>5. Fits(x, b[x]) /\ new[y].table = b[x].table
          BY <1>4, <4>4, ImageIs
      <4>6. p[2].table = b[x].table
          BY <4>4, <4>5 DEF Fits
      <4> QED
          BY <4>1, <4>5, <4>6 DEF y
    <3> QED
        BY <3>3, <3>4
  <2> QED
      BY <1>8, <2>1, <2>4, <2>5 DEF Homed, ShapesKept, TablesKept
<1> QED
    BY <1>1, <1>7, <1>8

LEMMA StepKeepsSound ==
    ASSUME RestoreInv, [BackupNext]_backup
    PROVE  RestoreInv'
<1>1. LockInv'
    BY StepKeepsLock DEF RestoreInv
<1>2. CASE Export \/ (\E x \in Doomed : Delete(x)) \/ (\E d \in Drafts : Write(d[1], d[2]))
  <2>1. UNCHANGED <<target, restores>> /\ IsLedger(source') /\ IsLedger(bundle')
      BY <1>2, SidesApart, SidesStayLedgers DEF RestoreInv
  <2> QED
      BY <1>1, <2>1 DEF RestoreInv, ShapesKept, TablesKept, Homed
<1>3. CASE CreateAccount
  <2>1. Sound(target)' /\ ShapesKept' /\ TablesKept' /\ Homed'
      BY <1>3, AccountKeepsSound
  <2>2. UNCHANGED <<source, bundle, restores>>
      BY <1>3 DEF CreateAccount
  <2> QED
      BY <1>1, <2>1, <2>2 DEF RestoreInv
<1>4. ASSUME NEW i \in Imports, Restore(i)
      PROVE  RestoreInv'
  <2>1. Sound(target)' /\ ShapesKept' /\ TablesKept' /\ Homed'
      BY <1>4, RestoreKeepsSound
  <2>2. UNCHANGED <<source, bundle>>
      BY <1>4 DEF Restore
  <2>3. \A j \in Imports : restores'[j].phase # "locked"
    <3>1. restores[i].phase = "locked"
        BY <1>4 DEF Restore
    <3>2. \A j \in Imports \ {i} : restores'[j] = restores[j] /\ restores[j].phase # "locked"
        BY <1>4, <3>1, RestoreFreesLock DEF RestoreInv, LockInv
    <3>3. restores'[i].phase # "locked"
        BY <1>4 DEF Restore, RestoreInv, LockInv, Typed
    <3> QED
        BY <3>2, <3>3
  <2> QED
      BY <1>1, <2>1, <2>2, <2>3 DEF RestoreInv
<1>5. ASSUME NEW i \in Imports, NEW b, IsLedger(b), BeginRestore(i, b)
      PROVE  RestoreInv'
  <2>1. UNCHANGED <<source, bundle, target>>
      BY <1>5 DEF BeginRestore
  <2>2. /\ restores'[i] \in {[phase |-> "refused", bundle |-> <<>>], [phase |-> "locked", bundle |-> b]}
        /\ \A j \in Imports \ {i} : restores'[j] = restores[j]
        /\ restores[i].phase # "done"
      BY <1>5 DEF BeginRestore, RestoreInv, LockInv, Typed, NotBegun
  <2>3. \A j \in Imports : restores'[j].phase = "locked" => IsLedger(restores'[j].bundle)
      BY <1>5, <2>2 DEF RestoreInv
  <2>4. \A j \in Imports : restores'[j].phase = "done" <=> restores[j].phase = "done"
      BY <2>2
  <2>5. Homed'
      BY <2>1, <2>4 DEF RestoreInv, Homed
  <2> QED
      BY <1>1, <2>1, <2>3, <2>5 DEF RestoreInv, ShapesKept, TablesKept
<1>6. CASE UNCHANGED backup
    BY <1>1, <1>6 DEF backup, RestoreInv, ShapesKept, TablesKept, Homed
<1> QED
    BY <1>2, <1>3, <1>4, <1>5, <1>6, GivenAreLedgers DEF BackupNext, RestoreInv

(* Whatever was written while a bundle was read, and whatever an older or an    *)
(* edited bundle holds, what a restore leaves breaks no reference, pairs no row *)
(* with another account's cycle, and has one default account and one payee of a *)
(* name (restoreUserBackup's order of stages and its skips).                  *)
THEOREM RestoredLedgersAreSound == BackupSpec => []RestoredIsSound
<1>1. RestoreInv /\ [BackupNext]_backup => RestoreInv'
    BY StepKeepsSound
<1>2. RestoreInv => RestoredIsSound
    BY DEF RestoreInv, RestoredIsSound
<1> QED
    BY InitRestores, <1>1, <1>2, PTL DEF BackupSpec

-----------------------------------------------------------------------------
(* The export, and the rows that stand still beside it. *)

LEMMA QueriesAre ==
    /\ Len(Queries) = 17
    /\ \A t \in DOMAIN References : \E k \in 1..17 : Queries[k] = t
    /\ 5 \in 1..17 /\ Queries[5] = "globalCategories"
    /\ \A k \in 1..17 : k # 5 => Queries[k] \in DOMAIN References
    /\ "globalCategories" \notin DOMAIN References
<1> DEFINE A == SubSeq(Stages, 1, 4)
           C == SubSeq(Stages, 5, 16)
           g == <<"globalCategories">>
           S == DOMAIN References \cup {"globalCategories"}
<1>1. Len(Stages) = 16 /\ \A k \in 1..16 : Stages[k] \in S
    BY StagesAre
<1>2. Queries = (A \o g) \o C
    BY <1>1 DEF Queries, InsertAt
<1>3. A \in Seq(S) /\ Len(A) = 4 /\ \A k \in 1..4 : A[k] = Stages[k]
  <2>1. 1 \in Int /\ 4 \in Int /\ \A k \in 1..4 : Stages[k] \in S
      BY <1>1
  <2> HIDE DEF S
  <2>2. Len(A) = 4 /\ A \in Seq(S) /\ \A k \in 1..(4 - 1 + 1) : A[k] = Stages[1 + k - 1]
      BY <2>1, SubSeqProperties
  <2> QED
      BY <2>2
<1>4. C \in Seq(S) /\ Len(C) = 12 /\ \A k \in 1..12 : C[k] = Stages[k + 4]
  <2>1. 5 \in Int /\ 16 \in Int /\ \A k \in 5..16 : Stages[k] \in S
      BY <1>1
  <2> HIDE DEF S
  <2>2. Len(C) = 12 /\ C \in Seq(S) /\ \A k \in 1..(16 - 5 + 1) : C[k] = Stages[5 + k - 1]
      BY <2>1, SubSeqProperties
  <2>3. \A k \in 1..12 : 5 + k - 1 = k + 4
      OBVIOUS
  <2> QED
      BY <2>2, <2>3
<1>5. g \in Seq(S) /\ Len(g) = 1 /\ g[1] = "globalCategories"
    OBVIOUS
<1> HIDE DEF A, C, g, S
<1> DEFINE B == A \o g
<1>7. B \in Seq(S) /\ Len(B) = 5 /\ B[5] = "globalCategories" /\ \A k \in 1..4 : B[k] = Stages[k]
  <2>1. /\ A \o g \in Seq(S) /\ Len(A \o g) = Len(A) + Len(g)
        /\ \A k \in 1 .. Len(A) + Len(g) : (A \o g)[k] = IF k <= Len(A) THEN A[k] ELSE g[k - Len(A)]
      BY <1>3, <1>5, ConcatProperties
  <2> QED
      BY <1>3, <1>5, <2>1
<1> HIDE DEF B
<1>8. Queries = B \o C
    BY <1>2 DEF B
<1>9. /\ Len(Queries) = 17
      /\ \A k \in 1..17 : Queries[k] = IF k <= 5 THEN B[k] ELSE C[k - 5]
  <2>1. /\ Len(B \o C) = Len(B) + Len(C)
        /\ \A k \in 1 .. Len(B) + Len(C) : (B \o C)[k] = IF k <= Len(B) THEN B[k] ELSE C[k - Len(B)]
      BY <1>4, <1>7, ConcatProperties
  <2>2. Len(B) = 5 /\ Len(B) + Len(C) = 17
      BY <1>4, <1>7
  <2> QED
      BY <1>8, <2>1, <2>2
<1>10. /\ \A k \in 1..4 : Queries[k] = Stages[k]
       /\ \A k \in 5..16 : Queries[k + 1] = Stages[k]
       /\ Queries[5] = "globalCategories"
  <2>1. \A k \in 1..4 : k \in 1..17 /\ k <= 5
      OBVIOUS
  <2>2. \A k \in 5..16 : k + 1 \in 1..17 /\ ~(k + 1 <= 5) /\ (k + 1) - 5 \in 1..12
                         /\ ((k + 1) - 5) + 4 = k
      OBVIOUS
  <2> QED
      BY <1>4, <1>7, <1>9, <2>1, <2>2
<1>11. ASSUME NEW t \in DOMAIN References
       PROVE  \E k \in 1..17 : Queries[k] = t
  <2>1. PICK j \in 1..16 : Stages[j] = t
      BY StagesAre
  <2>2. j \in 1..4 \/ j \in 5..16
      OBVIOUS
  <2>3. CASE j \in 1..4
      BY <1>10, <2>1, <2>3
  <2>4. CASE j \in 5..16
      BY <1>10, <2>1, <2>4
  <2> QED
      BY <2>2, <2>3, <2>4
<1>12. ASSUME NEW k \in 1..17, k # 5
       PROVE  Queries[k] \in DOMAIN References
  <2>1. k \in 1..4 \/ (k - 1 \in 5..16 /\ (k - 1) + 1 = k)
      BY <1>12
  <2>2. CASE k \in 1..4
      BY <1>10, <2>2, StagesAre
  <2>3. CASE k - 1 \in 5..16 /\ (k - 1) + 1 = k
    <3>1. Queries[(k - 1) + 1] = Stages[k - 1]
        BY <1>10, <2>3
    <3>2. k - 1 \in 1..16
        BY <2>3
    <3> QED
        BY <2>3, <3>1, <3>2, StagesAre
  <2> QED
      BY <2>1, <2>2, <2>3
<1>13. "globalCategories" \notin DOMAIN References
    BY DEF References
<1> QED
    BY <1>9, <1>10, <1>11, <1>12, <1>13

(* The rows nobody has written are those the ledger began with.              *)
Still == DOMAIN First \ touched

Refers(r, c) ==
    \/ r.table \in {"transactions", "series", "rules"} /\ r.refs["category"] = c
    \/ r.table = "rules" /\ r.refs["filterCategory"] = c

(* What the k-th query has to find.                                          *)
Due(k, x) ==
    IF Queries[k] = "globalCategories"
    THEN /\ x \in Global /\ First[x].table = "categories"
         /\ \E y \in Still : Refers(First[y], x)
    ELSE x \notin Global /\ First[x].table = Queries[k]

ExportInv ==
    /\ \A x \in DOMAIN source \ touched : x \in Still /\ source[x] = First[x]
    /\ \A x \in Still : x \in DOMAIN source /\ source[x] = First[x]
    /\ \A x \in DOMAIN bundle \ touched : x \in Still /\ bundle[x] = First[x]
    /\ asked \in 0..17
    /\ \A k \in 1..asked : \A x \in Still : Due(k, x) => x \in DOMAIN bundle

LEMMA WritesAreSeen ==
    ASSUME ExportInv, NEW l, Becomes(l)
    PROVE  ExportInv'
<1>1. /\ source' = l /\ UNCHANGED <<asked, bundle>>
      /\ touched' = touched \cup {x \in DOMAIN source \cup DOMAIN l :
                                    x \notin DOMAIN source \cap DOMAIN l \/ source[x] # l[x]}
    BY DEF Becomes
<1>2. touched \subseteq touched'
    BY <1>1
<1>3. /\ \A x \in DOMAIN l \ touched' : x \in DOMAIN source \ touched /\ source[x] = l[x]
      /\ \A x \in DOMAIN source \ touched' : x \in DOMAIN l /\ source[x] = l[x]
    BY <1>1
<1>4. Still' \subseteq Still /\ \A x \in DOMAIN First : x \notin touched' => x \in Still'
    BY <1>2 DEF Still
<1>5. \A x \in Still' : x \notin touched'
    BY DEF Still
<1>6. /\ \A x \in DOMAIN l \ touched' : x \in Still' /\ l[x] = First[x]
      /\ \A x \in Still' : x \in DOMAIN l /\ l[x] = First[x]
      /\ \A x \in DOMAIN bundle \ touched' : x \in Still' /\ bundle[x] = First[x]
  <2>1. \A x \in Still : x \in DOMAIN First
      BY DEF Still
  <2> QED
      BY <1>2, <1>3, <1>4, <1>5, <2>1 DEF ExportInv
<1>7. ASSUME NEW k \in 1..asked, NEW x \in Still', Due(k, x)'
      PROVE  x \in DOMAIN bundle
  <2>1. Due(k, x)
      BY <1>4, <1>7 DEF Due
  <2> QED
      BY <1>4, <1>7, <2>1 DEF ExportInv
<1> QED
    BY <1>1, <1>6, <1>7 DEF ExportInv

LEMMA QueryFinds ==
    ASSUME ExportInv, Export, IsLedger(source)
    PROVE  ExportInv'
<1> DEFINE q == Queries[asked + 1]
           g == [x \in Rows(q) |-> source[x]]
<1>1. /\ asked \in 0..17 /\ asked < 17 /\ asked' = asked + 1
      /\ bundle' = Over(bundle, g) /\ UNCHANGED <<source, touched>>
    BY QueriesAre DEF Export, ExportInv
<1>2. DOMAIN g = Rows(q) /\ \A x \in Rows(q) : g[x] = source[x]
    OBVIOUS
<1> HIDE DEF g
<1>3. /\ DOMAIN bundle' = DOMAIN bundle \cup Rows(q)
      /\ \A x \in DOMAIN bundle : bundle'[x] = bundle[x]
      /\ \A x \in Rows(q) \ DOMAIN bundle : bundle'[x] = source[x]
  <2>1. /\ DOMAIN Over(bundle, g) = DOMAIN bundle \cup DOMAIN g
        /\ \A x \in DOMAIN bundle : Over(bundle, g)[x] = bundle[x]
        /\ \A x \in DOMAIN g \ DOMAIN bundle : Over(bundle, g)[x] = g[x]
      BY OverIs
  <2> HIDE DEF q
  <2> QED
      BY <1>1, <1>2, <2>1
<1>4. Still' = Still
    BY <1>1 DEF Still
<1>5. Rows(q) \subseteq DOMAIN source
    BY DEF Rows, Of
<1>6. ASSUME NEW x \in Still, Due(asked + 1, x)
      PROVE  x \in Rows(q)
  <2>1. x \in DOMAIN source /\ source[x] = First[x]
      BY DEF ExportInv
  <2>2. CASE q = "globalCategories"
    <3>1. x \in Global /\ First[x].table = "categories"
        BY <1>6, <2>2 DEF Due
    <3>2. PICK y \in Still : Refers(First[y], x)
        BY <1>6, <2>2 DEF Due
    <3>3. y \in DOMAIN source /\ source[y] = First[y]
        BY DEF ExportInv
    <3>4. Referenced(source, x)
        BY <3>2, <3>3 DEF Refers, Referenced, Uses, Of
    <3> QED
        BY <2>1, <2>2, <3>1, <3>4 DEF Rows, Of
  <2>3. CASE q # "globalCategories"
      BY <1>6, <2>1, <2>3 DEF Due, Rows, Of
  <2> QED
      BY <2>2, <2>3
<1> HIDE DEF q
<1>7. \A x \in DOMAIN bundle' \ touched' : x \in Still' /\ bundle'[x] = First[x]
    BY <1>1, <1>3, <1>4, <1>5 DEF ExportInv
<1>8. ASSUME NEW k \in 1..(asked + 1), NEW x \in Still, Due(k, x)
      PROVE  x \in DOMAIN bundle'
  <2>1. k = asked + 1 \/ k \in 1..asked
      BY <1>1
  <2> QED
      BY <1>3, <1>6, <1>8, <2>1 DEF ExportInv
<1>9. \A k, x : Due(k, x)' = Due(k, x)
    BY <1>4 DEF Due
<1>10. /\ \A x \in DOMAIN source' \ touched' : x \in Still' /\ source'[x] = First[x]
       /\ \A x \in Still' : x \in DOMAIN source' /\ source'[x] = First[x]
    BY <1>1, <1>4 DEF ExportInv
<1>11. asked' \in 0..17
    BY <1>1
<1> QED
    BY <1>1, <1>4, <1>7, <1>8, <1>9, <1>10, <1>11 DEF ExportInv

LEMMA ReferenceColumns ==
    /\ \A t \in DOMAIN References : \A f \in DOMAIN References[t] :
          /\ References[t][f] = "groups" => f = "group"
          /\ References[t][f] = "categories" =>
                \/ f = "category" /\ t \in {"transactions", "series", "rules"}
                \/ f = "filterCategory" /\ t = "rules"
BY DEF References

(* Once all queries are made, a row that stood still is in the bundle, and so is *)
(* what it refers to, if that stood too.                                     *)
LEMMA StillIsExported ==
    ASSUME ExportInv, asked = 17
    PROVE  /\ \A x \in Still \ Global : x \in DOMAIN bundle
           /\ \A x \in Still : \A f \in DOMAIN First[x].refs :
                 f # "group" /\ First[x].refs[f] \in Still => First[x].refs[f] \in DOMAIN bundle
           /\ \A x \in Still \cap DOMAIN bundle : bundle[x] = First[x]
<1>1. ASSUME NEW x \in Still
      PROVE  x \in DOMAIN First /\ Fits(x, First[x])
    BY GivenAreLedgers DEF Still, IsLedger
<1>2. ASSUME NEW k \in 1..17, NEW x \in Still, Due(k, x)
      PROVE  x \in DOMAIN bundle
    BY <1>2 DEF ExportInv
<1>3. ASSUME NEW x \in Still \ Global
      PROVE  x \in DOMAIN bundle
  <2>1. PICK k \in 1..17 : Queries[k] = First[x].table
      BY <1>1, QueriesAre DEF Fits
  <2>2. Due(k, x)
    <3>1. First[x].table \in DOMAIN References
        BY <1>1 DEF Fits
    <3>2. Queries[k] # "globalCategories"
        BY <2>1, <3>1, QueriesAre
    <3> QED
        BY <2>1, <3>2 DEF Due
  <2> QED
      BY <1>2, <2>2
<1>4. ASSUME NEW x \in Still, NEW f \in DOMAIN First[x].refs, f # "group",
             First[x].refs[f] \in Still
      PROVE  First[x].refs[f] \in DOMAIN bundle
  <2> DEFINE y == First[x].refs[f]
             t == First[x].table
  <2>1. CASE y \notin Global
      BY <1>3, <1>4, <2>1
  <2>2. CASE y \in Global
    <3>1. y \in DOMAIN First /\ Fits(y, First[y]) /\ Fits(x, First[x])
        BY <1>1, <1>4
    <3>2. First[y].table = References[t][f]
        BY <1>1, <3>1, ColumnsMatch, GivenAreLedgers
    <3>3. t \in DOMAIN References /\ f \in DOMAIN References[t]
        BY <3>1 DEF Fits
    <3>4. First[y].table \in {"groups", "categories"}
        BY <2>2, <3>1 DEF Fits
    <3>5. First[y].table = "categories"
        BY <1>4, <3>2, <3>3, <3>4, ReferenceColumns
    <3>6. \/ f = "category" /\ t \in {"transactions", "series", "rules"}
          \/ f = "filterCategory" /\ t = "rules"
        BY <3>2, <3>3, <3>5, ReferenceColumns
    <3>7. Refers(First[x], y)
        BY <3>6 DEF Refers
    <3> HIDE DEF y, t
    <3>8. Due(5, y)
        BY <2>2, <3>5, <3>7, QueriesAre DEF Due
    <3>9. y \in Still
        BY <1>4 DEF y
    <3> QED
        BY <1>2, <3>8, <3>9, QueriesAre DEF y
  <2> QED
      BY <2>1, <2>2
<1>5. \A x \in Still \cap DOMAIN bundle : bundle[x] = First[x]
    BY DEF ExportInv, Still
<1> QED
    BY <1>3, <1>4, <1>5

-----------------------------------------------------------------------------
(* The steady rows of an exported ledger are restored. *)

StandsIn(g) == g[0] = {} /\ \A k \in 1..16 : g[k] = Stood(g[k - 1], Stages[k])

SteadyReached == \E g : StandsIn(g) /\ Steady = g[16]

LEMMA SteadyIsReached == SteadyReached
<1> DEFINE V == SUBSET DOMAIN source
           N == Len(Stages)
           Solves(h) == h = [k \in 0..N |-> IF k = 0 THEN {} ELSE Stood(h[k - 1], Stages[k])]
           G == CHOOSE h : Solves(h)
           F == [x \in V \X (1..N) |-> Stood(x[1], Stages[x[2]])]
<1>1. Steady = G[N]
    BY DEF Steady
<1>2. N = 16 /\ N \in Nat
    BY StagesAre
<1>3. {} \in V
    OBVIOUS
<1> HIDE DEF N
<1>4. F \in [V \X (1..N) -> V]
    BY DEF Stood, Of
<1> HIDE DEF V
<1>5. PICK g \in [0..N -> V] : g[0] = {} /\ \A k \in 1..N : g[k] = F[<<g[k - 1], k>>]
  <2> HIDE DEF F
  <2>1. CanRun(V, {}, N, F)
      BY <1>2, <1>3, <1>4, RunExists
  <2> QED
      BY <2>1 DEF CanRun
<1>6. ASSUME NEW k \in 1..N
      PROVE  g[k] = Stood(g[k - 1], Stages[k])
  <2>1. k - 1 \in 0..N
      BY <1>2
  <2>2. <<g[k - 1], k>> \in V \X (1..N)
      BY <2>1
  <2> QED
      BY <1>5, <2>2
<1> HIDE DEF F
<1>7. Solves(g)
  <2>1. \A k \in 0..N : k = 0 \/ k \in 1..N
      BY <1>2
  <2> QED
      BY <1>5, <1>6, <2>1
<1>8. Solves(G)
    BY <1>7
<1> HIDE DEF G
<1>9. G[0] = {} /\ \A k \in 1..N : G[k] = Stood(G[k - 1], Stages[k])
    BY <1>2, <1>8
<1> HIDE DEF Solves
<1>10. StandsIn(G)
    BY <1>2, <1>9 DEF StandsIn
<1> QED
    BY <1>1, <1>2, <1>10 DEF SteadyReached

(* Stage by stage, a steady row of the bundle is placed.                     *)
LEMMA SteadyIsPlaced ==
    ASSUME ExportInv, asked = 17, NEW i
    PROVE  /\ Steady \subseteq Still
           /\ Steady \cap DOMAIN bundle \subseteq DOMAIN Places(i, bundle)
<1>1. PICK g : StandsIn(g) /\ Steady = g[16]
    BY SteadyIsReached DEF SteadyReached
<1>2. PICK h : Reaches(h, i, bundle) /\ Places(i, bundle) = h[16]
    BY PlacesAreReached DEF StagesReach
<1> DEFINE T == {k \in 0..16 : g[k] \subseteq Still /\ g[k] \cap DOMAIN bundle \subseteq DOMAIN h[k]}
<1>3. 0 \in T
    BY <1>1 DEF StandsIn
<1>4. ASSUME NEW k \in 0..15, k \in T
      PROVE  k + 1 \in T
  <2>1. k + 1 \in 1..16 /\ k + 1 \in 0..16 /\ (k + 1) - 1 = k
      OBVIOUS
  <2> DEFINE t == Stages[k + 1]
             m == h[k]
             S == g[k]
  <2>2. g[k + 1] = Stood(S, t) /\ h[k + 1] = Stage(m, i, bundle, t)
      BY <1>1, <1>2, <2>1 DEF StandsIn, Reaches
  <2>3. S \subseteq Still /\ S \cap DOMAIN bundle \subseteq DOMAIN m
      BY <1>4
  <2> HIDE DEF t, m, S
  <2>4. DOMAIN Stage(m, i, bundle, t) = DOMAIN m \cup {y \in Of(bundle, t) : Placeable(m, bundle[y])}
      BY StageAdds
  <2>5. ASSUME NEW x \in Stood(S, t), x \notin S
        PROVE  x \in Still /\ (x \in DOMAIN bundle => x \in DOMAIN Stage(m, i, bundle, t))
    <3>1. /\ x \in DOMAIN source \ touched /\ source[x].table = t
          /\ \A f \in Needed(source[x]) : source[x].refs[f] \in S
        BY <2>5 DEF Stood, Of
    <3>2. x \in Still /\ source[x] = First[x]
        BY <3>1 DEF ExportInv
    <3>3. ASSUME x \in DOMAIN bundle
          PROVE  Placeable(m, bundle[x]) /\ x \in Of(bundle, t)
      <4>1. bundle[x] = First[x]
          BY <3>2, <3>3, StillIsExported
      <4>2. x \in DOMAIN First /\ Fits(x, First[x])
          BY <3>2, GivenAreLedgers DEF Still, IsLedger
      <4>3. ASSUME First[x].table # "categories", NEW f \in Needed(First[x])
            PROVE  First[x].refs[f] \in DOMAIN m
        <5>1. f \in DOMAIN First[x].refs
            BY DEF Needed
        <5>2. f # "group"
            BY <4>2, <4>3, <5>1, ColumnsAre DEF Fits
        <5>3. First[x].refs[f] \in S
            BY <3>1, <3>2
        <5>4. First[x].refs[f] \in DOMAIN bundle
            BY <2>3, <3>2, <5>1, <5>2, <5>3, StillIsExported
        <5> QED
            BY <2>3, <5>3, <5>4
      <4> QED
          BY <3>1, <3>2, <3>3, <4>1, <4>3 DEF Placeable, Of
    <3> QED
        BY <2>4, <3>2, <3>3
  <2>6. Stood(S, t) \subseteq Still
      BY <2>3, <2>5
  <2>7. Stood(S, t) \cap DOMAIN bundle \subseteq DOMAIN Stage(m, i, bundle, t)
      BY <2>3, <2>4, <2>5
  <2> QED
      BY <2>1, <2>2, <2>6, <2>7
<1> HIDE DEF T
<1>5. \A n \in 0..16 : n \in T
  <2> DEFINE N == 16
  <2>1. N \in Nat /\ N - 1 = 15
      OBVIOUS
  <2>2. \A n \in 0..(N - 1) : n \in T => n + 1 \in T
      BY <1>4, <2>1
  <2> HIDE DEF N
  <2>3. \A n \in 0..N : n \in T
      BY <1>3, <2>1, <2>2, Induct
  <2> QED
      BY <2>3 DEF N
<1>6. 16 \in T
    BY <1>5
<1> QED
    BY <1>1, <1>2, <1>6 DEF T

(* What SteadyIsKept says of a row, and that the row is there.               *)
RowKept(x, m, T) ==
    /\ x \in DOMAIN m /\ m[x] \in DOMAIN T
    /\ \A f \in DOMAIN source[x].refs :
          source[x].refs[f] \in Steady /\ f # "group" =>
             source[x].refs[f] \in DOMAIN m /\ T[m[x]].refs[f] = m[source[x].refs[f]]

LEMMA RestoreKeepsSteady ==
    ASSUME ExportInv, asked = 17, NEW i, Restorable(Places(i, bundle), i, bundle),
           NEW x \in Steady \ Global
    PROVE  RowKept(x, Places(i, bundle), Restored(Places(i, bundle), i, bundle))
<1> DEFINE m == Places(i, bundle)
           R == Restored(m, i, bundle)
           new == Inserted(m, i, bundle)
<1>1. /\ x \in Still /\ x \in DOMAIN bundle /\ bundle[x] = First[x] /\ x \in DOMAIN m
      /\ source[x] = First[x] /\ x \in DOMAIN First /\ Fits(x, First[x])
  <2>1. x \in Still /\ x \in DOMAIN bundle /\ x \in DOMAIN m
      BY SteadyIsPlaced, StillIsExported
  <2> QED
      BY <2>1, StillIsExported, GivenAreLedgers DEF ExportInv, Still, IsLedger
<1>2. Receives(R, new) /\ Inserts(m, i, bundle, new)
    BY RestoredIs, InsertedAre
<1>3. Of(bundle, "payees") \subseteq DOMAIN m
    BY PayeesArePlaced DEF Restorable
<1>4. Arrives(R, m[x], bundle[x].table)
    BY <1>1, <1>3, PlacesAreThere
<1>5. ASSUME NEW f \in DOMAIN First[x].refs, First[x].refs[f] \in Steady, f # "group"
      PROVE  First[x].refs[f] \in DOMAIN m /\ R[m[x]].refs[f] = m[First[x].refs[f]]
  <2> DEFINE y == First[x].refs[f]
  <2>1. y \in Still /\ y \in DOMAIN bundle /\ bundle[y] = First[y] /\ y \in DOMAIN m
    <3>1. y \in Still
        BY <1>5, SteadyIsPlaced
    <3>2. y \in DOMAIN bundle
        BY <1>1, <1>5, <3>1, StillIsExported
    <3> QED
        BY <1>5, <3>1, <3>2, SteadyIsPlaced, StillIsExported
  <2>2. f \in DOMAIN References[First[x].table] /\ First[x].table \in DOMAIN References
      BY <1>1 DEF Fits
  <2>3. bundle[x].table \notin {"groups", "categories"}
    <3>1. DOMAIN References["groups"] = {}
        BY DEF References
    <3> QED
        BY <1>1, <1>5, <2>2, <3>1, ColumnsAre
  <2>4. y # None
      BY <2>1, BackupAssumption DEF Restorable, IsLedger
  <2>5. ~(bundle[x].table = "payees" /\ Folded(bundle, x))
    <3>1. DOMAIN References["payees"] = {"account"}
        BY DEF References
    <3>2. bundle[x].table = "payees" => y = bundle[x].refs.account
        BY <1>1, <2>2, <3>1
    <3> QED
        BY <2>4, <3>2 DEF Folded
  <2> HIDE DEF m
  <2>6. x \in Kept(m, i, bundle)
      BY <1>1, <2>3, <2>5, KeptIs DEF m
  <2>7. m[x] \in DOMAIN new /\ new[m[x]] = Image(m, i, bundle, x)
      BY <1>2, <2>6 DEF Inserts, IsImage
  <2> HIDE DEF new, R
  <2>8. R[m[x]] = Image(m, i, bundle, x)
      BY <1>2, <2>7 DEF Receives
  <2>9. R[m[x]].refs[f] = Mapped(m, i, bundle, bundle[x], f)
      BY <1>1, <2>6, <2>8, ImageIs DEF m
  <2>10. f = "cycle" => OwnCycle(bundle, bundle[x])
    <3>1. SUFFICES ASSUME f = "cycle"
                   PROVE  OwnCycle(bundle, bundle[x])
        OBVIOUS
    <3>2. x \in Of(First, "transactions") /\ y = First[x].refs.cycle
        BY <1>1, <2>2, <3>1, ColumnsAre DEF Of
    <3>3. First[y].refs.account = First[x].refs.account
        BY <2>4, <3>2, BackupAssumption, SoundIs
    <3> QED
        BY <1>1, <2>1, <3>2, <3>3 DEF OwnCycle
  <2> QED
      BY <1>1, <1>5, <2>1, <2>9, <2>10 DEF Mapped
<1> HIDE DEF m, R
<1> QED
    BY <1>1, <1>4, <1>5 DEF RowKept, Arrives, m, R

-----------------------------------------------------------------------------
(* Export, writes and restores keep what SteadyIsKept says.                  *)

SteadyOf(l, t) ==
    LET among[k \in 0 .. Len(Stages)] ==
            IF k = 0 THEN {}
            ELSE among[k - 1] \cup {x \in Of(l, Stages[k]) \ t :
                                      \A f \in Needed(l[x]) : l[x].refs[f] \in among[k - 1]}
    IN  among[Len(Stages)]

LEMMA SteadyStays ==
    ASSUME UNCHANGED <<source, touched>>
    PROVE  Steady' = Steady
<1>1. Steady = SteadyOf(source, touched)
    BY DEF Steady, SteadyOf, Stood
<1>2. Steady' = SteadyOf(source', touched')
    BY DEF Steady, SteadyOf, Stood
<1> QED
    BY <1>1, <1>2

(* A restore runs on the ledger before any export, or on what a whole export read. *)
Running(i) == restores[i].phase \in {"locked", "done"}

KeptInv ==
    /\ RestoreInv /\ ExportInv
    /\ \A i \in Imports : Running(i) => asked = 0 \/ (asked = 17 /\ restores[i].bundle = bundle)
    /\ asked = 17 /\ (\E i \in Imports : restores[i].phase = "done") =>
          \A x \in Steady \ Global : RowKept(x, placed, target)

LEMMA InitKeeps == BackupInit => KeptInv
<1> SUFFICES ASSUME BackupInit
             PROVE  KeptInv
    OBVIOUS
<1>1. RestoreInv
    BY InitRestores
<1>2. source = First /\ asked = 0 /\ bundle = <<>> /\ touched = {}
    BY DEF BackupInit
<1>3. ExportInv
    BY <1>2 DEF ExportInv, Still
<1>4. \A i \in Imports : ~Running(i)
    BY DEF BackupInit, NotBegun, Running
<1> QED
    BY <1>1, <1>2, <1>3, <1>4 DEF KeptInv

LEMMA BesideKeeps ==
    ASSUME KeptInv,
           Export \/ (\E x \in Doomed : Delete(x)) \/ (\E d \in Drafts : Write(d[1], d[2]))
    PROVE  KeptInv'
<1>1. RestoreInv'
    BY StepKeepsSound DEF KeptInv, BackupNext
<1>2. ExportInv'
  <2>1. CASE Export
      BY <2>1, QueryFinds DEF KeptInv, RestoreInv
  <2>2. CASE \E x \in Doomed : Delete(x)
    <3>1. \E l : Becomes(l)
        BY <2>2 DEF Delete
    <3> QED
        BY <3>1, WritesAreSeen DEF KeptInv
  <2>3. CASE \E d \in Drafts : Write(d[1], d[2])
    <3>1. \E l : Becomes(l)
        BY <2>3 DEF Write
    <3> QED
        BY <3>1, WritesAreSeen DEF KeptInv
  <2> QED
      BY <2>1, <2>2, <2>3
<1>3. NoRestore /\ restores' = restores
    BY SidesApart DEF Export, Delete, Write, Beside
<1>4. \A i \in Imports : restores'[i].phase = "none"
    BY <1>3 DEF NoRestore, NotBegun
<1> QED
    BY <1>1, <1>2, <1>4 DEF KeptInv, Running

(* What holds of the export while its side stands still.                     *)
LEMMA ExportStays ==
    ASSUME ExportInv, UNCHANGED <<source, asked, bundle, touched>>
    PROVE  ExportInv' /\ \A x, m, T : RowKept(x, m, T)' <=> RowKept(x, m, T)
<1>1. Still' = Still /\ Steady' = Steady
    BY SteadyStays DEF Still
<1>2. \A k, x : Due(k, x)' = Due(k, x)
    BY <1>1 DEF Due
<1> QED
    BY <1>1, <1>2 DEF ExportInv, RowKept

LEMMA RestoreKeeps ==
    ASSUME KeptInv, NEW i \in Imports, Restore(i)
    PROVE  KeptInv'
<1> DEFINE b == restores[i].bundle
           m == Places(i, b)
           R == Restored(m, i, b)
<1>1. /\ restores[i].phase = "locked"
      /\ UNCHANGED <<source, asked, bundle, touched>>
      /\ \/ /\ restores' = [restores EXCEPT ![i].phase = "refused"]
            /\ UNCHANGED <<target, placed>>
         \/ /\ restores' = [restores EXCEPT ![i].phase = "done"]
            /\ target' = R /\ placed' = m
    BY DEF Restore, Restored
<1>2. RestoreInv /\ RestoreInv' /\ ExportInv
    BY StepKeepsSound DEF KeptInv, BackupNext
<1>3. ExportInv' /\ Steady' = Steady
    BY <1>1, <1>2, ExportStays, SteadyStays
<1>4. asked = 0 \/ (asked = 17 /\ b = bundle)
    BY <1>1 DEF KeptInv, Running
<1>5. Restorable(m, i, b)
    BY <1>1, <1>2, PlacesHold, BackupAssumption DEF RestoreInv, LockInv, Restorable, NewIn, Homed
<1>6. ASSUME asked = 17, NEW x \in Steady \ Global
      PROVE  RowKept(x, m, R)
    BY <1>2, <1>4, <1>5, <1>6, RestoreKeepsSteady
<1> HIDE DEF b, m, R
<1>7. /\ \A j \in Imports \ {i} : restores'[j] = restores[j]
      /\ restores'[i].bundle = b
      /\ restores'[i].phase \in {"refused", "done"}
      /\ restores'[i].phase = "refused" => UNCHANGED <<target, placed>>
      /\ restores'[i].phase = "done" => target' = R /\ placed' = m
    BY <1>1, <1>2 DEF RestoreInv, LockInv, Typed, b
<1>8. \A j \in Imports : Running(j)' => asked' = 0 \/ (asked' = 17 /\ restores'[j].bundle = bundle')
    BY <1>1, <1>4, <1>7 DEF KeptInv, Running
<1>9. ASSUME asked' = 17, NEW j \in Imports, restores'[j].phase = "done", NEW x \in Steady' \ Global
      PROVE  RowKept(x, placed, target)'
  <2>1. x \in Steady \ Global /\ asked = 17
      BY <1>1, <1>3, <1>9
  <2>2. CASE restores'[i].phase = "done"
    <3>1. RowKept(x, m, R)
        BY <1>6, <2>1
    <3>2. placed' = m /\ target' = R
        BY <1>7, <2>2
    <3> QED
        BY <1>1, <1>3, <3>1, <3>2 DEF RowKept
  <2>3. CASE restores'[i].phase = "refused"
    <3>1. restores[j].phase = "done" /\ UNCHANGED <<target, placed>>
        BY <1>7, <1>9, <2>3
    <3>2. RowKept(x, placed, target)
        BY <2>1, <3>1 DEF KeptInv
    <3> QED
        BY <1>1, <1>3, <3>1, <3>2 DEF RowKept
  <2> QED
      BY <1>7, <2>2, <2>3
<1> QED
    BY <1>2, <1>3, <1>8, <1>9 DEF KeptInv

LEMMA BeginKeeps ==
    ASSUME KeptInv, NEW i \in Imports, NEW b, BeginRestore(i, b), RestoreInv',
           asked = 0 \/ (asked = 17 /\ b = bundle)
    PROVE  KeptInv'
<1>1. /\ UNCHANGED <<source, asked, bundle, touched, target, placed>>
      /\ restores' = [restores EXCEPT ![i] =
                        IF HasAccounts THEN [phase |-> "refused", bundle |-> <<>>]
                        ELSE [phase |-> "locked", bundle |-> b]]
    BY DEF BeginRestore
<1>2. /\ \A j \in Imports \ {i} : restores'[j] = restores[j]
      /\ restores'[i].phase # "done"
      /\ Running(i)' => restores'[i].bundle = b
    BY <1>1 DEF KeptInv, RestoreInv, LockInv, Typed, Running
<1>3. ExportInv' /\ Steady' = Steady
    BY <1>1, ExportStays, SteadyStays DEF KeptInv
<1>4. \A j \in Imports : Running(j)' => asked' = 0 \/ (asked' = 17 /\ restores'[j].bundle = bundle')
    BY <1>1, <1>2 DEF KeptInv, Running
<1>5. \A x : RowKept(x, placed, target)' <=> RowKept(x, placed, target)
    BY <1>1, <1>3 DEF RowKept
<1> QED
    BY <1>1, <1>2, <1>3, <1>4, <1>5 DEF KeptInv

LEMMA AccountKeeps ==
    ASSUME KeptInv, CreateAccount
    PROVE  KeptInv'
<1> DEFINE g == [y \in {<<0, "account">>} |->
                    [table |-> "accounts", name |-> "account", default |-> FALSE, refs |-> <<>>]]
<1>1. UNCHANGED <<source, asked, bundle, touched, restores, placed>> /\ target' = Over(target, g)
    BY DEF CreateAccount
<1> HIDE DEF g
<1>2. DOMAIN target \subseteq DOMAIN target' /\ \A y \in DOMAIN target : target'[y] = target[y]
    BY <1>1, OverIs
<1>3. RestoreInv' /\ ExportInv' /\ Steady' = Steady
    BY <1>1, StepKeepsSound, ExportStays, SteadyStays DEF KeptInv, BackupNext
<1>4. \A x : RowKept(x, placed, target) => RowKept(x, placed, target)'
    BY <1>1, <1>2, <1>3 DEF RowKept
<1> QED
    BY <1>1, <1>3, <1>4 DEF KeptInv, Running

LEMMA StepKeepsKept ==
    ASSUME KeptInv, [BackupNext]_backup
    PROVE  KeptInv'
<1>1. CASE Export \/ (\E x \in Doomed : Delete(x)) \/ (\E d \in Drafts : Write(d[1], d[2]))
    BY <1>1, BesideKeeps
<1>2. CASE CreateAccount
    BY <1>2, AccountKeeps
<1>3. ASSUME NEW i \in Imports, Restore(i)
      PROVE  KeptInv'
    BY <1>3, RestoreKeeps
<1>4. RestoreInv'
    BY StepKeepsSound DEF KeptInv
<1>5. ASSUME NEW i \in Imports, asked = 0, NEW b \in Bundles, BeginRestore(i, b)
      PROVE  KeptInv'
    BY <1>4, <1>5, BeginKeeps
<1>6. ASSUME NEW i \in Imports, asked = Len(Queries), BeginRestore(i, bundle)
      PROVE  KeptInv'
    BY <1>4, <1>6, QueriesAre, BeginKeeps
<1>7. CASE UNCHANGED backup
  <2>1. UNCHANGED <<source, asked, bundle, touched, target, restores, placed>>
      BY <1>7 DEF backup
  <2>2. ExportInv' /\ Steady' = Steady
      BY <2>1, ExportStays, SteadyStays DEF KeptInv
  <2> QED
      BY <1>4, <2>1, <2>2 DEF KeptInv, Running, RowKept
<1> QED
    BY <1>1, <1>2, <1>3, <1>5, <1>6, <1>7 DEF BackupNext

LEMMA KeptInvKeeps == KeptInv => SteadyIsKept
BY QueriesAre DEF KeptInv, SteadyIsKept, RowKept

(* A row nobody wrote while the bundle was read is restored, and refers to   *)
(* what it referred to wherever that stood too, however the rest of the      *)
(* bundle was torn by the writes beside the export (buildUserBackup,         *)
(* restoreUserBackup; "faithful copy including the relationships").          *)
THEOREM UntouchedRowsAreRestored == BackupSpec => []SteadyIsKept
<1>1. KeptInv /\ [BackupNext]_backup => KeptInv'
    BY StepKeepsKept
<1> QED
    BY InitKeeps, <1>1, KeptInvKeeps, PTL DEF BackupSpec

-----------------------------------------------------------------------------
(* The steady rows are all there could be: stages in the order of their      *)
(* references leave out no row that stood still with all it needs.           *)

LEMMA ParentsComeFirst ==
    /\ \A j, k \in 1..16 : Stages[j] = Stages[k] => j = k
    /\ \A j, k \in 1..16 : \A f \in DOMAIN References[Stages[k]] :
          Stages[j] = References[Stages[k]][f] => j < k
<1> DEFINE Rank == [settings |-> 1, accounts |-> 2, groups |-> 3, categories |-> 4,
                    payees |-> 5, cycles |-> 6, transactions |-> 7, links |-> 8,
                    loanAttachments |-> 9, loanSchedules |-> 10, loanTransfers |-> 11,
                    loanDisbursements |-> 12, series |-> 13, terms |-> 14,
                    seriesAttachments |-> 15, rules |-> 16]
<1>1. \A k \in 1..16 : Rank[Stages[k]] = k
    BY DEF Stages
<1>2. \A t \in DOMAIN References : \A f \in DOMAIN References[t] : Rank[References[t][f]] < Rank[t]
  <2>1. \A t \in DOMAIN References : \A f \in DOMAIN References[t] :
           \/ References[t][f] = "accounts" /\ t \notin {"settings", "accounts"}
           \/ References[t][f] = "groups" /\ t = "categories"
           \/ References[t][f] \in {"categories", "payees"} /\ t \in {"transactions", "series", "rules"}
           \/ References[t][f] = "cycles" /\ t = "transactions"
           \/ References[t][f] = "transactions"
                /\ t \in {"links", "loanAttachments", "loanDisbursements", "seriesAttachments"}
           \/ References[t][f] = "series" /\ t \in {"terms", "seriesAttachments"}
      BY DEF References
  <2>2. /\ Rank["accounts"] = 2 /\ Rank["groups"] = 3 /\ Rank["categories"] = 4
        /\ Rank["payees"] = 5 /\ Rank["cycles"] = 6 /\ Rank["transactions"] = 7
        /\ Rank["series"] = 13 /\ Rank["links"] = 8 /\ Rank["loanAttachments"] = 9
        /\ Rank["loanDisbursements"] = 12 /\ Rank["terms"] = 14
        /\ Rank["seriesAttachments"] = 15 /\ Rank["rules"] = 16
      OBVIOUS
  <2>3. \A t \in DOMAIN References : t \notin {"settings", "accounts"} => Rank[t] \in 3..16
      BY DEF References
  <2> HIDE DEF Rank
  <2> QED
      BY <2>1, <2>2, <2>3
<1> HIDE DEF Rank
<1>3. \A k \in 1..16 : Stages[k] \in DOMAIN References
    BY StagesAre
<1> QED
    BY <1>1, <1>2, <1>3

Whole ==
    \A x \in DOMAIN source \ touched :
       (\A f \in Needed(source[x]) : source[x].refs[f] \in Steady) => x \in Steady

LEMMA SteadyIsWhole ==
    ASSUME IsLedger(source)
    PROVE  Whole
<1>1. SUFFICES ASSUME NEW x \in DOMAIN source \ touched,
                      \A f \in Needed(source[x]) : source[x].refs[f] \in Steady
               PROVE  x \in Steady
    BY DEF Whole
<1>2. PICK g : StandsIn(g) /\ Steady = g[16]
    BY SteadyIsReached DEF SteadyReached
<1> DEFINE Holds(k) == /\ \A j \in 0..k : g[j] \subseteq g[k]
                       /\ \A y \in g[k] : /\ y \in DOMAIN source
                                          /\ \A j \in 1..16 : source[y].table = Stages[j] => y \in g[j]
           T == {k \in 0..16 : Holds(k)}
<1>3. 0 \in T
    BY <1>2 DEF StandsIn
<1>4. ASSUME NEW k \in 0..15, k \in T
      PROVE  k + 1 \in T
  <2>1. k + 1 \in 1..16 /\ k + 1 \in 0..16 /\ (k + 1) - 1 = k
      OBVIOUS
  <2>2. g[k + 1] = Stood(g[k], Stages[k + 1])
      BY <1>2, <2>1 DEF StandsIn
  <2>3. Holds(k)
      BY <1>4
  <2>4. \A j \in 0..(k + 1) : g[j] \subseteq g[k + 1]
    <3>1. \A j \in 0..(k + 1) : j \in 0..k \/ j = k + 1
        OBVIOUS
    <3> QED
        BY <2>2, <2>3, <3>1 DEF Stood
  <2>5. ASSUME NEW y \in g[k + 1]
        PROVE  y \in DOMAIN source /\ \A j \in 1..16 : source[y].table = Stages[j] => y \in g[j]
    <3>1. CASE y \in g[k]
        BY <2>3, <3>1
    <3>2. CASE y \notin g[k]
      <4>1. y \in DOMAIN source /\ source[y].table = Stages[k + 1]
          BY <2>2, <2>5, <3>2 DEF Stood, Of
      <4> QED
          BY <2>1, <2>5, <4>1, ParentsComeFirst
    <3> QED
        BY <3>1, <3>2
  <2> QED
      BY <2>1, <2>4, <2>5
<1> HIDE DEF T
<1>5. \A n \in 0..16 : n \in T
  <2> DEFINE N == 16
  <2>1. N \in Nat /\ N - 1 = 15
      OBVIOUS
  <2>2. \A n \in 0..(N - 1) : n \in T => n + 1 \in T
      BY <1>4, <2>1
  <2> HIDE DEF N
  <2>3. \A n \in 0..N : n \in T
      BY <1>3, <2>1, <2>2, Induct
  <2> QED
      BY <2>3 DEF N
<1>6. \A n \in 0..16 : Holds(n)
    BY <1>5 DEF T
<1>7. x \in DOMAIN source /\ Fits(x, source[x])
    BY <1>1 DEF IsLedger
<1>8. PICK k \in 1..16 : Stages[k] = source[x].table
    BY <1>7, StagesAre DEF Fits
<1>9. ASSUME NEW f \in Needed(source[x])
      PROVE  source[x].refs[f] \in g[k - 1]
  <2> DEFINE y == source[x].refs[f]
  <2>1. f \in DOMAIN source[x].refs /\ y \in g[16]
      BY <1>1, <1>2 DEF Needed
  <2>2. y \in DOMAIN source
      BY <1>6, <2>1
  <2>3. source[y].table = References[source[x].table][f]
      BY <1>7, <2>1, <2>2, ColumnsMatch
  <2>4. Fits(y, source[y])
      BY <2>2 DEF IsLedger
  <2> HIDE DEF y
  <2>5. PICK j \in 1..16 : Stages[j] = source[y].table
      BY <2>4, StagesAre DEF Fits
  <2>6. y \in g[j]
      BY <1>6, <2>1, <2>5 DEF y
  <2>7. j < k
    <3>1. f \in DOMAIN References[Stages[k]]
        BY <1>7, <1>8, <2>1 DEF Fits
    <3> QED
        BY <1>8, <2>3, <2>5, <3>1, ParentsComeFirst
  <2>8. j \in 0..(k - 1) /\ k - 1 \in 0..16
      BY <2>7
  <2> QED
      BY <1>6, <2>6, <2>8 DEF y
<1>10. x \in g[k]
  <2>1. g[k] = Stood(g[k - 1], Stages[k])
      BY <1>2 DEF StandsIn
  <2> QED
      BY <1>1, <1>8, <1>9, <2>1 DEF Stood, Of
<1>11. g[k] \subseteq g[16]
  <2>1. k \in 0..16 /\ 16 \in 0..16
      OBVIOUS
  <2> QED
      BY <1>6, <2>1
<1> QED
    BY <1>2, <1>10, <1>11

(* No row is left out of UntouchedRowsAreRestored by the order of the stages: *)
(* one that nobody wrote is steady as soon as all it needs is ("accounts, then *)
(* groups, then categories ...", restoreUserBackup).                         *)
THEOREM NoSteadyRowIsMissed == BackupSpec => []Whole
<1>1. RestoreInv /\ [BackupNext]_backup => RestoreInv'
    BY StepKeepsSound
<1>2. RestoreInv => Whole
    BY SteadyIsWhole DEF RestoreInv
<1> QED
    BY InitRestores, <1>1, <1>2, PTL DEF BackupSpec
=============================================================================
