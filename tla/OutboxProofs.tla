---------------------------- MODULE OutboxProofs ----------------------------
(***************************************************************************)
(* What the merge of Merge and the queue of Outbox promise, for every set  *)
(* of rows, fields, values, keys and tabs.                                 *)
(*                                                                         *)
(* The outbox's invariant says what its copies have to do with each other: *)
(* an entry of the queue, or of the copy a flush walks, stands for exactly *)
(* the writes promised under its key (Known); what a flush has found out   *)
(* about the entry it is at is still so (Sorted), whatever other tabs, the *)
(* user and other devices did since; and a row is made under a key only if *)
(* that key stands for no row, or for one that is gone (CreatedKnown).     *)
(***************************************************************************)
EXTENDS Outbox, TLAPS, WellFoundedInduction, SequenceTheorems

-----------------------------------------------------------------------------
(* The three-way merge.                                                    *)

(* Rows stay rows under a PATCH: a cleared column is read back as absent.  *)
LEMMA OverlayIsRow ==
    ASSUME NEW row \in Row, NEW patch \in Patch
    PROVE  Overlay(row, patch) \in Row
<1>1. SUFFICES ASSUME NEW f \in Fields
               PROVE  Overlay(row, patch)[f] \in RowValues
    BY DEF Row, Overlay
<1>2. row[f] \in RowValues
    BY DEF Row
<1>3. patch[f] # Absent => Project(patch[f]) \in RowValues
    BY DEF Patch, PatchValues, RowValues, Project
<1> QED
    BY <1>2, <1>3 DEF Overlay

(* A PATCH leaves alone every field its body does not name: the offline    *)
(* write of one field never disturbs another (client.ts sends the diff).   *)
THEOREM UnnamedFieldsKept ==
    ASSUME NEW row \in Row, NEW patch \in Patch,
           NEW f \in Fields \ Carried(patch)
    PROVE  Overlay(row, patch)[f] = row[f]
BY DEF Overlay, Carried

(* diffAgainstBase is a normal form: what it leaves carries no value the   *)
(* base already holds, so taking the diff again changes nothing.           *)
LEMMA DiffIdempotent ==
    ASSUME NEW base \in Patch, NEW mine \in Patch
    PROVE  DiffAgainstBase(base, DiffAgainstBase(base, mine))
             = DiffAgainstBase(base, mine)
BY DEF DiffAgainstBase

(* Where nobody else wrote the row, nothing is held for the user: merging  *)
(* against the very row the edit was made on has no conflict.              *)
THEOREM NoConflictOnOwnBase ==
    ASSUME NEW base \in Row, NEW mine \in Patch
    PROVE  Conflicts(base, mine, base) = {}
BY DEF Conflicts, Verdict

(* A field in conflict is one both sides moved, to different values: the   *)
(* dialog never asks about a field either side left alone.                 *)
THEOREM ConflictMeansBothMoved ==
    ASSUME NEW base \in Patch, NEW mine \in Patch, NEW theirs \in Row,
           NEW f \in Conflicts(base, mine, theirs)
    PROVE  /\ f \in Carried(mine)
           /\ mine[f] # base[f]
           /\ theirs[f] # base[f]
           /\ mine[f] # theirs[f]
BY DEF Conflicts, Verdict, UserChanged, Carried

(* A write that merged clean replaces only the value it was made against:  *)
(* where the flush changes a field, the server held the recorded base.     *)
(* (A field whose patch repeats its base is exempt: mergeFields takes it   *)
(* for no change, and flushOutbox sends it all the same.)                  *)
THEOREM CleanMergeReplacesBase ==
    ASSUME NEW base \in Patch, NEW mine \in Patch, NEW theirs \in Row,
           NEW f \in Fields,
           f \notin Conflicts(base, mine, theirs),
           mine[f] # base[f],
           Overlay(theirs, mine)[f] # theirs[f]
    PROVE  theirs[f] = base[f]
<1>1. mine[f] # Absent
    BY DEF Overlay
<1>2. Verdict(base[f], mine[f], theirs[f]) \in {"mine", "agree"}
    BY <1>1 DEF Conflicts, Verdict, UserChanged
<1>3. mine[f] # theirs[f]
  <2>1. SUFFICES ASSUME mine[f] = theirs[f]
                 PROVE  FALSE
      OBVIOUS
  <2>2. theirs[f] \in RowValues
      BY DEF Row
  <2>3. mine[f] # Cleared
      BY <2>1, <2>2, DistinctMarks DEF RowValues
  <2>4. Overlay(theirs, mine)[f] = theirs[f]
      BY <1>1, <2>1, <2>3 DEF Overlay, Project
  <2> QED
      BY <2>4
<1> QED
    BY <1>2, <1>3 DEF Verdict

(* Sending is merging.  The flush posts the user's own patch, not the row  *)
(* mergeFields computed; for a clean merge of a true diff the server then  *)
(* holds exactly the merged row.                                           *)
THEOREM SendingIsMerging ==
    ASSUME NEW base \in Patch, NEW mine \in Patch, NEW theirs \in Row,
           mine = DiffAgainstBase(base, mine),
           Conflicts(base, mine, theirs) = {}
    PROVE  Overlay(theirs, mine)
             = [f \in Fields |-> Project(Merged(base, mine, theirs)[f])]
<1>1. SUFFICES ASSUME NEW f \in Fields
               PROVE  Overlay(theirs, mine)[f]
                        = Project(Merged(base, mine, theirs)[f])
    BY DEF Overlay
<1>2. theirs[f] # Cleared
    BY DistinctMarks DEF Row, RowValues
<1>3. mine[f] # Absent => mine[f] # base[f]
    BY DEF DiffAgainstBase
<1>4. Verdict(base[f], mine[f], theirs[f]) # "conflict"
    BY DEF Conflicts
<1>5. CASE mine[f] = Absent
  <2>1. Verdict(base[f], mine[f], theirs[f]) = "theirs"
      BY <1>5 DEF Verdict, UserChanged
  <2> QED
      BY <1>2, <1>5, <2>1 DEF Overlay, Merged, Project
<1>6. CASE mine[f] # Absent
  <2>1. Overlay(theirs, mine)[f] = Project(mine[f])
      BY <1>6 DEF Overlay
  <2>2. CASE theirs[f] = base[f]
    <3>1. Verdict(base[f], mine[f], theirs[f]) = "mine"
        BY <1>3, <1>6, <2>2 DEF Verdict, UserChanged
    <3> QED
        BY <2>1, <3>1 DEF Merged
  <2>3. CASE theirs[f] # base[f]
    <3>1. Verdict(base[f], mine[f], theirs[f]) = "agree" /\ mine[f] = theirs[f]
        BY <1>3, <1>4, <1>6, <2>3 DEF Verdict, UserChanged
    <3> QED
        BY <2>1, <3>1 DEF Merged
  <2> QED
      BY <2>2, <2>3
<1> QED
    BY <1>5, <1>6
-----------------------------------------------------------------------------
(* Sequences: what `filter` leaves.                                        *)

(* Every set of naturals has a least element.                              *)
LEMMA LeastOf ==
    ASSUME NEW T, T \subseteq Nat, T # {}
    PROVE  \E n \in T : \A m \in T : n <= m
<1> DEFINE R == OpToRel(<, Nat)
<1>1. IsWellFoundedOn(R, Nat)
    BY NatLessThanWellFounded
<1>2. \A x, y \in Nat : x < y => <<x, y>> \in R
    BY DEF OpToRel
<1> HIDE DEF R
<1>3. PICK n \in T : \A y \in T : ~ (<<y, n>> \in R)
    BY <1>1, WFMin
<1>4. ASSUME NEW m \in T
      PROVE  n <= m
  <2>1. n \in Nat /\ m \in Nat
      OBVIOUS
  <2>2. ~ (m < n)
      BY <1>2, <1>3, <2>1
  <2> QED
      BY <2>1, <2>2
<1> QED
    BY <1>4

(* Induction up to a bound, over a set: what holds of 0 and passes from    *)
(* each number to the next holds of them all.                              *)
LEMMA Induct ==
    ASSUME NEW N \in Nat, NEW T,
           0 \in T,
           \A n \in 0..(N - 1) : n \in T => n + 1 \in T
    PROVE  \A n \in 0..N : n \in T
<1> DEFINE Missing == {n \in 0..N : n \notin T}
<1>1. SUFFICES ASSUME Missing # {}
               PROVE  FALSE
    OBVIOUS
<1>2. Missing \subseteq Nat
    OBVIOUS
<1>3. PICK n \in Missing : \A m \in Missing : n <= m
    BY <1>1, <1>2, LeastOf
<1>4. n # 0 /\ n \in 0..N /\ n \notin T
    BY <1>3
<1>5. n - 1 \in 0..(N - 1) /\ n - 1 \in 0..N /\ ~ (n <= n - 1)
    BY <1>4
<1>6. n - 1 \in T
    BY <1>3, <1>5
<1>7. (n - 1) + 1 \in T
    BY <1>5, <1>6
<1> QED
    BY <1>4, <1>7

(* One step of the recursion of Selected.                                  *)
SelectedStep(s, at, g, n) ==
    IF n = 0 THEN <<>>
    ELSE IF n \in at THEN Append(g[n - 1], s[n]) ELSE g[n - 1]

(* The recursion of Selected has a solution.                               *)
LEMMA SelectedUnfolds ==
    ASSUME NEW S, NEW s \in Seq(S), NEW at
    PROVE  \E g : /\ g = [n \in 0..Len(s) |-> SelectedStep(s, at, g, n)]
                  /\ Selected(s, at) = g[Len(s)]
<1> DEFINE N == Len(s)
           Solves(g, m) == g = [n \in 0..m |-> SelectedStep(s, at, g, n)]
           G == CHOOSE g : Solves(g, N)
           T == {m \in 0..N : \E g : Solves(g, m)}
<1>1. Selected(s, at) = G[N]
    BY DEF Selected, SelectedStep
<1>2. N \in Nat
    OBVIOUS
<1>3. 0 \in T
  <2> DEFINE g == [n \in 0..0 |-> <<>>]
  <2>1. Solves(g, 0)
      BY DEF SelectedStep
  <2> QED
      BY <1>2, <2>1
<1>4. ASSUME NEW m \in 0..(N - 1), m \in T
      PROVE  m + 1 \in T
  <2>1. PICK g : Solves(g, m)
      BY <1>4
  <2> DEFINE h == [n \in 0..(m + 1) |-> IF n <= m THEN g[n] ELSE SelectedStep(s, at, g, m + 1)]
  <2>2. m \in Nat /\ m + 1 \in 0..N
      BY <1>2
  <2>3. ASSUME NEW n \in 0..(m + 1)
        PROVE  h[n] = SelectedStep(s, at, h, n)
    <3>1. h[n] = SelectedStep(s, at, g, n)
      <4>1. CASE n <= m
        <5>1. n \in 0..m
            BY <2>2, <4>1
        <5> QED
            BY <2>1, <4>1, <5>1
      <4>2. CASE ~ (n <= m)
        <5>1. n = m + 1
            BY <2>2, <4>2
        <5> QED
            BY <4>2, <5>1
      <4> QED
          BY <4>1, <4>2
    <3>2. n # 0 => n - 1 \in 0..(m + 1) /\ n - 1 <= m
        BY <2>2
    <3>3. n # 0 => h[n - 1] = g[n - 1]
        BY <3>2
    <3> HIDE DEF h
    <3> QED
        BY <3>1, <3>3 DEF SelectedStep
  <2>4. DOMAIN h = 0..(m + 1) /\ h = [n \in 0..(m + 1) |-> h[n]]
      OBVIOUS
  <2> HIDE DEF h
  <2>5. Solves(h, m + 1)
      BY <2>3, <2>4
  <2> QED
      BY <2>2, <2>5
<1> HIDE DEF T
<1>5. \A m \in 0..N : m \in T
    BY <1>2, <1>3, <1>4, Induct
<1> USE DEF T
<1>6. \E g : Solves(g, N)
    BY <1>2, <1>5
<1>7. Solves(G, N)
    BY <1>6
<1> HIDE DEF G
<1> QED
    BY <1>1, <1>7

(* What `filter` leaves: a sequence no longer than the one it was given,   *)
(* made of the elements at the positions given, and of all of them.        *)
LEMMA SelectedFacts ==
    ASSUME NEW S, NEW s \in Seq(S), NEW at
    PROVE  /\ Selected(s, at) \in Seq(S)
           /\ Len(Selected(s, at)) <= Len(s)
           /\ \A j \in 1..Len(Selected(s, at)) :
                 \E i \in 1..Len(s) : i \in at /\ Selected(s, at)[j] = s[i]
           /\ \A i \in 1..Len(s) : i \in at =>
                 \E j \in 1..Len(Selected(s, at)) : Selected(s, at)[j] = s[i]
<1> DEFINE N == Len(s)
<1>1. PICK g : g = [n \in 0..N |-> SelectedStep(s, at, g, n)] /\ Selected(s, at) = g[N]
    BY SelectedUnfolds
<1> DEFINE Right(n, q) ==
              /\ q \in Seq(S)
              /\ Len(q) <= n
              /\ \A j \in 1..Len(q) : \E i \in 1..n : i \in at /\ q[j] = s[i]
              /\ \A i \in 1..n : i \in at => \E j \in 1..Len(q) : q[j] = s[i]
           T == {n \in 0..N : Right(n, g[n])}
<1>2. N \in Nat
    OBVIOUS
<1>3. g[0] = <<>>
    BY <1>1, <1>2 DEF SelectedStep
<1>4. 0 \in T
  <2>1. <<>> \in Seq(S) /\ Len(<<>>) = 0
      OBVIOUS
  <2>2. Right(0, <<>>)
      BY <2>1
  <2> HIDE DEF Right
  <2> QED
      BY <1>2, <1>3, <2>2
<1>5. ASSUME NEW n \in 0..(N - 1), n \in T
      PROVE  n + 1 \in T
  <2>1. n \in Nat /\ n + 1 \in 1..N /\ n + 1 \in 0..N /\ n + 1 # 0 /\ (n + 1) - 1 = n
      BY <1>2
  <2>2. g[n + 1] = IF n + 1 \in at THEN Append(g[n], s[n + 1]) ELSE g[n]
      BY <1>1, <2>1 DEF SelectedStep
  <2>3. Right(n, g[n])
      BY <1>5
  <2>4. s[n + 1] \in S
      BY <2>1
  <2> DEFINE q == g[n]
             x == s[n + 1]
  <2>5. Right(n, q)
      BY <2>3
  <2>6. CASE n + 1 \in at
    <3> DEFINE p == Append(q, x)
    <3>1. /\ p \in Seq(S)
          /\ Len(p) = Len(q) + 1
          /\ p[Len(q) + 1] = x
          /\ \A j \in 1..Len(q) : p[j] = q[j]
        BY <2>4, <2>5
    <3>2. Len(q) \in Nat
        BY <2>5
    <3> HIDE DEF p, q
    <3>3. ASSUME NEW j \in 1..Len(p)
          PROVE  \E i \in 1..(n + 1) : i \in at /\ p[j] = s[i]
      <4>1. CASE j \in 1..Len(q)
        <5>1. PICK i \in 1..n : i \in at /\ q[j] = s[i]
            BY <2>5, <4>1
        <5>2. i \in 1..(n + 1) /\ p[j] = s[i]
            BY <2>1, <3>1, <4>1, <5>1
        <5> QED
            BY <5>1, <5>2
      <4>2. CASE j = Len(q) + 1
        <5>1. n + 1 \in 1..(n + 1)
            BY <2>1
        <5> QED
            BY <2>6, <3>1, <4>2, <5>1
      <4> QED
          BY <3>1, <3>2, <4>1, <4>2
    <3>4. ASSUME NEW i \in 1..(n + 1), i \in at
          PROVE  \E j \in 1..Len(p) : p[j] = s[i]
      <4>1. CASE i \in 1..n
        <5>1. PICK j \in 1..Len(q) : q[j] = s[i]
            BY <2>5, <3>4, <4>1
        <5>2. j \in 1..Len(p) /\ p[j] = q[j]
            BY <3>1, <3>2, <5>1
        <5> QED
            BY <5>1, <5>2
      <4>2. CASE i = n + 1
        <5>1. Len(q) + 1 \in 1..Len(p)
            BY <3>1, <3>2
        <5> QED
            BY <3>1, <4>2, <5>1
      <4> QED
          BY <2>1, <4>1, <4>2
    <3>5. Len(p) <= n + 1
        BY <2>1, <2>5, <3>1, <3>2
    <3>6. Right(n + 1, p)
        BY <3>1, <3>3, <3>4, <3>5
    <3>7. g[n + 1] = p
        BY <2>2, <2>6 DEF p, q
    <3> QED
        BY <2>1, <3>6, <3>7
  <2>7. CASE n + 1 \notin at
    <3> HIDE DEF q
    <3>1. ASSUME NEW j \in 1..Len(q)
          PROVE  \E i \in 1..(n + 1) : i \in at /\ q[j] = s[i]
      <4>1. PICK i \in 1..n : i \in at /\ q[j] = s[i]
          BY <2>5
      <4>2. i \in 1..(n + 1)
          BY <2>1
      <4> QED
          BY <4>1, <4>2
    <3>2. \A i \in 1..(n + 1) : i \in at => i \in 1..n
        BY <2>1, <2>7
    <3>3. Len(q) \in Nat /\ Len(q) <= n
        BY <2>5
    <3>4. Right(n + 1, q)
        BY <2>1, <2>5, <3>1, <3>2, <3>3
    <3>5. g[n + 1] = q
        BY <2>2, <2>7 DEF q
    <3> QED
        BY <2>1, <3>4, <3>5
  <2> QED
      BY <2>6, <2>7
<1> HIDE DEF T
<1>6. \A n \in 0..N : n \in T
    BY <1>2, <1>4, <1>5, Induct
<1>7. N \in T
    BY <1>2, <1>6
<1> QED
    BY <1>1, <1>7 DEF T

-----------------------------------------------------------------------------
(* Types.                                                                  *)

LEMMA NoPatchIsPatch == NoPatch \in Patch
BY DEF NoPatch, Patch, PatchValues

LEMMA RowIsPatch == Row \subseteq Patch
BY DEF Row, Patch, RowValues, PatchValues

(* The fields of a queued entry, set one at a time.                        *)
SameWrite(e, x) ==
    x.key = e.key /\ x.kind = e.kind /\ x.rows = e.rows /\ x.base = e.base /\ x.patch = e.patch

LEMMA SetError ==
    ASSUME NEW e \in Entry, NEW b \in BOOLEAN
    PROVE  LET x == [e EXCEPT !.error = b] IN
           /\ x \in Entry /\ SameWrite(e, x)
           /\ x.error = b /\ x.gone = e.gone /\ x.conflict = e.conflict /\ x.answer = e.answer
BY DEF Entry, SameWrite

LEMMA SetGone ==
    ASSUME NEW e \in Entry, NEW b \in BOOLEAN
    PROVE  LET x == [e EXCEPT !.gone = b] IN
           /\ x \in Entry /\ SameWrite(e, x)
           /\ x.error = e.error /\ x.gone = b /\ x.conflict = e.conflict /\ x.answer = e.answer
BY DEF Entry, SameWrite

LEMMA SetConflict ==
    ASSUME NEW e \in Entry, NEW units \in SUBSET (Rows \X Fields)
    PROVE  LET x == [e EXCEPT !.conflict = units] IN
           /\ x \in Entry /\ SameWrite(e, x)
           /\ x.error = e.error /\ x.gone = e.gone /\ x.conflict = units /\ x.answer = e.answer
BY DEF Entry, SameWrite

LEMMA SetAnswer ==
    ASSUME NEW e \in Entry, NEW answer \in [Fields -> {"none", "mine", "theirs"}]
    PROVE  LET x == [e EXCEPT !.answer = answer] IN
           /\ x \in Entry /\ SameWrite(e, x)
           /\ x.error = e.error /\ x.gone = e.gone /\ x.conflict = e.conflict /\ x.answer = answer
BY DEF Entry, SameWrite

(* What the mutators make of an entry: the same write, with the new marks. *)
LEMMA MarksKeepTheWrite ==
    ASSUME NEW e \in Entry
    PROVE  /\ \A units \in SUBSET (Rows \X Fields) :
                 LET x == HeldForConflict(e, units) IN
                 x \in Entry /\ SameWrite(e, x) /\ ~x.gone /\ x.answer = e.answer
           /\ LET x == HeldAsGone(e) IN
              x \in Entry /\ SameWrite(e, x) /\ x.gone /\ x.answer = e.answer
           /\ LET x == MarkedRejected(e) IN
              x \in Entry /\ SameWrite(e, x) /\ x.gone = e.gone /\ x.answer = e.answer
           /\ \A answer \in [Fields -> {"none", "mine", "theirs"}] :
                 LET x == Resolved(e, answer) IN
                 x \in Entry /\ SameWrite(e, x) /\ x.gone = e.gone /\ x.answer = answer
<1>1. ASSUME NEW units \in SUBSET (Rows \X Fields)
      PROVE  LET x == HeldForConflict(e, units) IN
             x \in Entry /\ SameWrite(e, x) /\ ~x.gone /\ x.answer = e.answer
  <2> DEFINE a == [e EXCEPT !.conflict = units]
             b == [a EXCEPT !.error = FALSE]
             c == [b EXCEPT !.gone = FALSE]
  <2>1. a \in Entry /\ SameWrite(e, a) /\ a.answer = e.answer
      BY SetConflict
  <2> HIDE DEF a
  <2>2. b \in Entry /\ SameWrite(a, b) /\ b.answer = a.answer
      BY <2>1, SetError
  <2> HIDE DEF b
  <2>3. c \in Entry /\ SameWrite(b, c) /\ c.answer = b.answer /\ c.gone = FALSE
      BY <2>2, SetGone
  <2>4. SameWrite(e, c)
      BY <2>1, <2>2, <2>3 DEF SameWrite
  <2>5. HeldForConflict(e, units) = c
      BY DEF HeldForConflict, a, b
  <2> HIDE DEF c
  <2> QED
      BY <2>1, <2>2, <2>3, <2>4, <2>5
<1>2. LET x == HeldAsGone(e) IN
      x \in Entry /\ SameWrite(e, x) /\ x.gone /\ x.answer = e.answer
  <2> DEFINE a == [e EXCEPT !.gone = TRUE]
             b == [a EXCEPT !.error = FALSE]
             c == [b EXCEPT !.conflict = {}]
  <2>1. a \in Entry /\ SameWrite(e, a) /\ a.answer = e.answer /\ a.gone = TRUE
      BY SetGone
  <2> HIDE DEF a
  <2>2. b \in Entry /\ SameWrite(a, b) /\ b.answer = a.answer /\ b.gone = a.gone
      BY <2>1, SetError
  <2> HIDE DEF b
  <2>3. c \in Entry /\ SameWrite(b, c) /\ c.answer = b.answer /\ c.gone = b.gone
      BY <2>2, SetConflict
  <2>4. SameWrite(e, c)
      BY <2>1, <2>2, <2>3 DEF SameWrite
  <2>5. HeldAsGone(e) = c
      BY DEF HeldAsGone, a, b
  <2> HIDE DEF c
  <2> QED
      BY <2>1, <2>2, <2>3, <2>4, <2>5
<1>3. LET x == MarkedRejected(e) IN
      x \in Entry /\ SameWrite(e, x) /\ x.gone = e.gone /\ x.answer = e.answer
    BY SetError DEF MarkedRejected
<1>4. ASSUME NEW answer \in [Fields -> {"none", "mine", "theirs"}]
      PROVE  LET x == Resolved(e, answer) IN
             x \in Entry /\ SameWrite(e, x) /\ x.gone = e.gone /\ x.answer = answer
  <2> DEFINE a == [e EXCEPT !.answer = answer]
             b == [a EXCEPT !.conflict = {}]
  <2>1. a \in Entry /\ SameWrite(e, a) /\ a.answer = answer /\ a.gone = e.gone
      BY SetAnswer
  <2> HIDE DEF a
  <2>2. b \in Entry /\ SameWrite(a, b) /\ b.answer = a.answer /\ b.gone = a.gone
      BY <2>1, SetConflict
  <2>3. SameWrite(e, b)
      BY <2>1, <2>2 DEF SameWrite
  <2>4. Resolved(e, answer) = b
      BY DEF Resolved, a
  <2> HIDE DEF b
  <2> QED
      BY <2>1, <2>2, <2>3, <2>4
<1> QED
    BY <1>1, <1>2, <1>3, <1>4

(* A write enters the queue as an entry that is neither held nor answered. *)
LEMMA NewEntryIsEntry ==
    ASSUME NEW k \in Keys, NEW kind \in {"create", "edit", "bulk"},
           NEW rows \in SUBSET Rows, NEW base \in [Rows -> Patch], NEW patch \in Patch
    PROVE  LET e == NewEntry(k, kind, rows, base, patch) IN
           /\ e \in Entry
           /\ e.key = k /\ e.kind = kind /\ e.rows = rows /\ e.patch = patch
           /\ ~e.gone /\ e.answer = Unanswered
<1>1. Unanswered \in [Fields -> {"none", "mine", "theirs"}]
    BY DEF Unanswered
<1> QED
    BY <1>1 DEF NewEntry, Entry

(* The flush of a tab: at rest, beginning an entry, one row further, and   *)
(* written under by somebody else.                                         *)
LEMMA FlushTypes ==
    /\ NoFlush \in Flush
    /\ \A todo \in Seq(Entry) :
          /\ EntriesLeft(todo) \in Flush
          /\ todo = <<>> => EntriesLeft(todo).pc = "idle"
          /\ todo # <<>> =>
                LET x == EntriesLeft(todo) IN
                x.pc = "plan" /\ x.todo = todo /\ x.clean = {} /\ x.units = {}
                /\ x.lost = {} /\ x.skipped = {} /\ x.moved = {}
<1>1. <<>> \in Seq(Entry)
    OBVIOUS
<1>2. NoFlush \in Flush
    BY <1>1 DEF NoFlush, Flush, PCs
<1>3. ASSUME NEW todo \in Seq(Entry), todo # <<>>
      PROVE  LET x == EntriesLeft(todo) IN
             /\ x \in Flush
             /\ x.pc = "plan" /\ x.todo = todo /\ x.clean = {} /\ x.units = {}
             /\ x.lost = {} /\ x.skipped = {} /\ x.moved = {}
  <2>1. EntriesLeft(todo) = [pc |-> "plan", todo |-> todo, clean |-> {}, units |-> {},
                             lost |-> {}, skipped |-> {}, moved |-> {}]
      BY <1>3 DEF EntriesLeft, NoFlush
  <2> QED
      BY <2>1 DEF Flush, PCs
<1>4. EntriesLeft(<<>>) = NoFlush /\ NoFlush.pc = "idle"
    BY DEF EntriesLeft, NoFlush
<1> QED
    BY <1>2, <1>3, <1>4

SameFlush(fl, x) ==
    x.pc = fl.pc /\ x.todo = fl.todo /\ x.clean = fl.clean /\ x.units = fl.units
    /\ x.lost = fl.lost /\ x.skipped = fl.skipped

LEMMA SetMoved ==
    ASSUME NEW fl \in Flush, NEW units \in SUBSET (Rows \X Fields)
    PROVE  LET x == [fl EXCEPT !.moved = units] IN
           x \in Flush /\ SameFlush(fl, x) /\ x.moved = units
BY DEF Flush, SameFlush

LEMMA SetAnswered ==
    ASSUME NEW fl \in Flush
    PROVE  LET x == [fl EXCEPT !.pc = "answered"] IN
           /\ x \in Flush /\ x.pc = "answered"
           /\ x.todo = fl.todo /\ x.clean = fl.clean /\ x.units = fl.units
           /\ x.lost = fl.lost /\ x.skipped = fl.skipped /\ x.moved = fl.moved
BY DEF Flush, PCs

LEMMA MovedUnderFacts ==
    ASSUME TypeOK, NEW t \in Tabs
    PROVE  /\ MovedUnder(t) \in Flush
           /\ SameFlush(tab[t], MovedUnder(t))
           /\ tab[t].moved \subseteq MovedUnder(t).moved
           /\ tab[t].pc # "idle" => Changing \subseteq MovedUnder(t).moved
<1>1. tab[t] \in Flush
    BY DEF TypeOK
<1>2. Changing \in SUBSET (Rows \X Fields)
    BY DEF Changing
<1>3. tab[t].moved \in SUBSET (Rows \X Fields)
    BY <1>1 DEF Flush
<1>4. CASE tab[t].pc = "idle"
    BY <1>1, <1>4 DEF MovedUnder, SameFlush
<1>5. CASE tab[t].pc # "idle"
  <2> DEFINE units == tab[t].moved \cup Changing
  <2>1. MovedUnder(t) = [tab[t] EXCEPT !.moved = units]
      BY <1>5 DEF MovedUnder
  <2>2. units \in SUBSET (Rows \X Fields) /\ tab[t].moved \subseteq units /\ Changing \subseteq units
      BY <1>2, <1>3
  <2> HIDE DEF units
  <2> QED
      BY <1>1, <2>1, <2>2, SetMoved
<1> QED
    BY <1>4, <1>5

(* The entry a tab is at.                                                  *)
LEMMA CurrentIsEntry ==
    ASSUME TypeOK, NEW t \in Tabs, tab[t].todo # <<>>
    PROVE  /\ Current(t) \in Entry
           /\ Current(t) = tab[t].todo[1] /\ 1 \in 1..Len(tab[t].todo)
           /\ Tail(tab[t].todo) \in Seq(Entry)
           /\ \A i \in 1..Len(Tail(tab[t].todo)) :
                 /\ i + 1 \in 1..Len(tab[t].todo)
                 /\ Tail(tab[t].todo)[i] = tab[t].todo[i + 1]
<1>1. tab[t].todo \in Seq(Entry)
    BY DEF TypeOK, Flush
<1> DEFINE s == tab[t].todo
<1>2. s \in Seq(Entry) /\ s # <<>>
    BY <1>1
<1>3. Current(t) = Head(s)
    BY DEF Current
<1> HIDE DEF s
<1>4. Len(s) \in Nat /\ Len(s) > 0 /\ Head(s) = s[1] /\ Tail(s) \in Seq(Entry)
      /\ Len(Tail(s)) = Len(s) - 1
    BY <1>2
<1>5. \A i \in 1..Len(Tail(s)) : i + 1 \in 1..Len(s) /\ Tail(s)[i] = s[i + 1]
    BY <1>2, <1>4
<1>6. 1 \in 1..Len(s) /\ s[1] \in Entry
    BY <1>2, <1>4
<1> QED
    BY <1>3, <1>4, <1>5, <1>6 DEF s

(* The entry an answer is about is one of the queue.                       *)
LEMMA EntryOfFacts ==
    ASSUME NEW k, Queued(k)
    PROVE  \E i \in 1..Len(queue) : EntryOf(k) = queue[i] /\ queue[i].key = k
<1>1. \E i \in 1..Len(queue) : queue[i].key = k
    BY DEF Queued
<1> DEFINE i == CHOOSE i \in 1..Len(queue) : queue[i].key = k
<1>2. i \in 1..Len(queue) /\ queue[i].key = k
    BY <1>1
<1> QED
    BY <1>2 DEF EntryOf

(* removeEntry and the discards leave entries of the queue.                *)
LEMMA KeptFacts ==
    ASSUME TypeOK, NEW at
    PROVE  /\ Selected(queue, at) \in Seq(Entry)
           /\ Len(Selected(queue, at)) <= MaxEntries
           /\ \A j \in 1..Len(Selected(queue, at)) :
                 \E i \in 1..Len(queue) : i \in at /\ Selected(queue, at)[j] = queue[i]
           /\ \A i \in 1..Len(queue) : i \in at =>
                 \E j \in 1..Len(Selected(queue, at)) : Selected(queue, at)[j] = queue[i]
<1>1. queue \in Seq(Entry) /\ Len(queue) \in Nat /\ Len(queue) <= MaxEntries /\ MaxEntries \in Nat
    BY BoundsType DEF TypeOK
<1> DEFINE q == Selected(queue, at)
<1>2. /\ q \in Seq(Entry)
      /\ Len(q) <= Len(queue)
      /\ \A j \in 1..Len(q) : \E i \in 1..Len(queue) : i \in at /\ q[j] = queue[i]
      /\ \A i \in 1..Len(queue) : i \in at => \E j \in 1..Len(q) : q[j] = queue[i]
    BY <1>1, SelectedFacts
<1> HIDE DEF q
<1>3. Len(q) <= MaxEntries
    BY <1>1, <1>2
<1> QED
    BY <1>2, <1>3 DEF q

LEMMA WithoutFacts ==
    ASSUME TypeOK, NEW k
    PROVE  /\ Without(k) \in Seq(Entry)
           /\ Len(Without(k)) <= MaxEntries
           /\ \A j \in 1..Len(Without(k)) :
                 \E i \in 1..Len(queue) : queue[i].key # k /\ Without(k)[j] = queue[i]
           /\ \A i \in 1..Len(queue) : queue[i].key # k =>
                 \E j \in 1..Len(Without(k)) : Without(k)[j] = queue[i]
<1> DEFINE at == {i \in 1..Len(queue) : queue[i].key # k}
           q == Selected(queue, at)
<1>1. Without(k) = q
    BY DEF Without
<1>2. \A i \in 1..Len(queue) : i \in at <=> queue[i].key # k
    OBVIOUS
<1> HIDE DEF at
<1>3. /\ q \in Seq(Entry)
      /\ Len(q) <= MaxEntries
      /\ \A j \in 1..Len(q) : \E i \in 1..Len(queue) : i \in at /\ q[j] = queue[i]
      /\ \A i \in 1..Len(queue) : i \in at => \E j \in 1..Len(q) : q[j] = queue[i]
    BY KeptFacts
<1> HIDE DEF q
<1> QED
    BY <1>1, <1>2, <1>3

(* A queue whose entries are the same writes, position by position.        *)
Remarked(q) ==
    /\ q \in Seq(Entry)
    /\ Len(q) = Len(queue)
    /\ \A i \in 1..Len(queue) : SameWrite(queue[i], q[i])

LEMMA MutatedFacts ==
    ASSUME TypeOK, NEW k, NEW c,
           c = [i \in 1..Len(queue) |-> c[i]],
           \A i \in 1..Len(queue) : c[i] \in Entry /\ SameWrite(queue[i], c[i]),
           NEW q, q = [i \in 1..Len(queue) |-> IF queue[i].key = k THEN c[i] ELSE queue[i]]
    PROVE  /\ Remarked(q)
           /\ Len(q) <= MaxEntries
<1>1. queue \in Seq(Entry) /\ Len(queue) \in Nat /\ Len(queue) <= MaxEntries
    BY DEF TypeOK
<1>2. \A i \in 1..Len(queue) : q[i] \in Entry /\ SameWrite(queue[i], q[i])
    BY <1>1 DEF SameWrite
<1>3. q \in Seq(Entry) /\ Len(q) = Len(queue)
  <2>1. q \in [1..Len(queue) -> Entry]
      BY <1>2
  <2> QED
      BY <1>1, <2>1
<1> QED
    BY <1>1, <1>2, <1>3 DEF Remarked

(* The server's rows under a write of the user's.                          *)
LEMMA PatchedIsRows ==
    ASSUME TypeOK, NEW rows \in SUBSET Rows, NEW patch \in Patch
    PROVE  Patched(rows, patch) \in [Rows -> Row]
<1>1. \A r \in Rows : server[r] \in Row
    BY DEF TypeOK
<1>2. \A r \in Rows : Overlay(server[r], patch) \in Row
    BY <1>1, OverlayIsRow
<1> QED
    BY <1>1, <1>2 DEF Patched

(* The last of the positions that satisfy something.                       *)
LEMMA GreatestOf ==
    ASSUME NEW N \in Nat, NEW T, T \subseteq 1..N, T # {}
    PROVE  \E i \in T : \A j \in T : j <= i
<1> DEFINE D == {n \in 0..N : N - n \in T}
<1>1. D \subseteq Nat
    OBVIOUS
<1>2. D # {}
  <2>1. PICK i \in T : TRUE
      OBVIOUS
  <2>2. i \in 1..N /\ N - i \in 0..N /\ N - (N - i) = i
      BY <2>1
  <2> QED
      BY <2>2
<1>3. PICK n \in D : \A m \in D : n <= m
    BY <1>1, <1>2, LeastOf
<1>4. N - n \in T /\ n \in 0..N
    BY <1>3
<1>5. ASSUME NEW j \in T
      PROVE  j <= N - n
  <2>1. j \in 1..N /\ N - j \in 0..N /\ N - (N - j) = j
      OBVIOUS
  <2>2. N - j \in D
      BY <2>1
  <2>3. n <= N - j
      BY <1>3, <2>2
  <2> QED
      BY <1>4, <2>1, <2>3
<1> QED
    BY <1>4, <1>5

(* The base an edit of a queued row is given holds values of a patch.      *)
LEMMA ProjectedIsPatch ==
    ASSUME TypeOK, NEW r \in Rows
    PROVE  Projected(r) \in Patch
<1>1. SUFFICES ASSUME NEW f \in Fields
               PROVE  Projected(r)[f] \in PatchValues
    BY DEF Projected, Patch
<1>2. view[r][f] \in PatchValues
    BY RowIsPatch DEF TypeOK, Patch
<1>3. Pending(r, f) \in PatchValues
  <2> DEFINE writers == {i \in 1..Len(queue) : r \in queue[i].rows
                                              /\ queue[i].patch[f] # Absent}
             last == CHOOSE i \in writers : \A j \in writers : j <= i
  <2>1. CASE writers = {}
      BY <2>1 DEF Pending, PatchValues
  <2>2. CASE writers # {}
    <3>1. queue \in Seq(Entry) /\ Len(queue) \in Nat
        BY DEF TypeOK
    <3>2. writers \subseteq 1..Len(queue)
        OBVIOUS
    <3> HIDE DEF writers
    <3>3. \E i \in writers : \A j \in writers : j <= i
        BY <2>2, <3>1, <3>2, GreatestOf
    <3>4. last \in writers
        BY <3>3
    <3>5. last \in 1..Len(queue)
        BY <3>2, <3>4
    <3> HIDE DEF last
    <3>6. queue[last] \in Entry
        BY <3>1, <3>5
    <3>7. queue[last].patch[f] \in PatchValues
        BY <3>6 DEF Entry, Patch
    <3>8. Pending(r, f) = queue[last].patch[f]
        BY <2>2 DEF Pending, writers, last
    <3> QED
        BY <3>7, <3>8
  <2> QED
      BY <2>1, <2>2
<1> QED
    BY <1>2, <1>3 DEF Projected

-----------------------------------------------------------------------------
(* What the steps do to the queue.                                         *)

(* A rejected entry is marked and nothing else.                            *)
LEMMA RejectedFacts ==
    ASSUME TypeOK, NEW k
    PROVE  LET q == Mutated(k, MarkedRejected) IN
           /\ Remarked(q) /\ Len(q) <= MaxEntries
           /\ \A i \in 1..Len(queue) :
                 q[i].answer = queue[i].answer /\ q[i].gone = queue[i].gone
<1> DEFINE c == [i \in 1..Len(queue) |-> MarkedRejected(queue[i])]
           q == Mutated(k, MarkedRejected)
<1>1. q = [i \in 1..Len(queue) |-> IF queue[i].key = k THEN c[i] ELSE queue[i]]
    BY DEF Mutated
<1>2. queue \in Seq(Entry) /\ c = [i \in 1..Len(queue) |-> c[i]]
    BY DEF TypeOK
<1>3. \A i \in 1..Len(queue) : c[i] \in Entry /\ SameWrite(queue[i], c[i])
                               /\ c[i].answer = queue[i].answer /\ c[i].gone = queue[i].gone
    BY <1>2, MarksKeepTheWrite
<1> HIDE DEF c, q
<1>4. Remarked(q) /\ Len(q) <= MaxEntries
    BY <1>1, <1>2, <1>3, MutatedFacts
<1>5. \A i \in 1..Len(queue) : q[i].answer = queue[i].answer /\ q[i].gone = queue[i].gone
    BY <1>1, <1>3
<1> QED
    BY <1>4, <1>5 DEF q

(* An answer is recorded on the entries of its key and nothing else.       *)
LEMMA ResolvedFacts ==
    ASSUME TypeOK, NEW k, NEW answer \in [Fields -> {"none", "mine", "theirs"}]
    PROVE  LET q == Answered(k, answer) IN
           /\ Remarked(q) /\ Len(q) <= MaxEntries
           /\ \A i \in 1..Len(queue) :
                 /\ q[i].gone = queue[i].gone
                 /\ q[i].answer = IF queue[i].key = k THEN answer ELSE queue[i].answer
<1> DEFINE c == [i \in 1..Len(queue) |-> Resolved(queue[i], answer)]
           q == Answered(k, answer)
<1>1. q = [i \in 1..Len(queue) |-> IF queue[i].key = k THEN c[i] ELSE queue[i]]
    BY DEF Answered, Mutated
<1>2. queue \in Seq(Entry) /\ c = [i \in 1..Len(queue) |-> c[i]]
    BY DEF TypeOK
<1>3. ASSUME NEW i \in 1..Len(queue)
      PROVE  c[i] \in Entry /\ SameWrite(queue[i], c[i])
             /\ c[i].answer = answer /\ c[i].gone = queue[i].gone
  <2> DEFINE e == queue[i]
             x == Resolved(e, answer)
  <2>1. e \in Entry
      BY <1>2
  <2> HIDE DEF e
  <2>2. x \in Entry /\ SameWrite(e, x) /\ x.gone = e.gone /\ x.answer = answer
      BY <2>1, MarksKeepTheWrite
  <2> HIDE DEF x
  <2>3. c[i] = x
      BY DEF x, e
  <2> QED
      BY <2>2, <2>3 DEF e
<1> HIDE DEF c, q
<1>4. Remarked(q) /\ Len(q) <= MaxEntries
    BY <1>1, <1>2, <1>3, MutatedFacts
<1>5. \A i \in 1..Len(queue) : /\ q[i].gone = queue[i].gone
                               /\ q[i].answer = IF queue[i].key = k THEN answer
                                                ELSE queue[i].answer
    BY <1>1, <1>3
<1> QED
    BY <1>4, <1>5 DEF q

(* A settled entry is held for its conflicts, held for a row that is gone, *)
(* or removed; the other entries stay.                                     *)
LEMMA SettledFacts ==
    ASSUME TypeOK, NEW t \in Tabs, tab[t].todo # <<>>
    PROVE  \/ /\ Remarked(Settled(t)) /\ Len(Settled(t)) <= MaxEntries
              /\ \A i \in 1..Len(queue) :
                    /\ Settled(t)[i].answer = queue[i].answer
                    /\ Settled(t)[i].gone =>
                          \/ queue[i].gone
                          \/ queue[i].key = Current(t).key /\ tab[t].lost # {}
           \/ /\ Settled(t) = Without(Current(t).key)
              /\ tab[t].units = {}
              /\ tab[t].lost = {} \/ tab[t].pc = "answered"
<1> DEFINE k == Current(t).key
           units == tab[t].units
<1>1. queue \in Seq(Entry) /\ units \in SUBSET (Rows \X Fields)
    BY DEF TypeOK, Flush
<1>2. CASE units # {}
  <2> DEFINE c == [i \in 1..Len(queue) |-> HeldForConflict(queue[i], units)]
             q == Settled(t)
  <2>1. q = [i \in 1..Len(queue) |-> IF queue[i].key = k THEN c[i] ELSE queue[i]]
      BY <1>2 DEF Settled, Mutated
  <2>2. c = [i \in 1..Len(queue) |-> c[i]]
      OBVIOUS
  <2>3. ASSUME NEW i \in 1..Len(queue)
        PROVE  c[i] \in Entry /\ SameWrite(queue[i], c[i])
               /\ c[i].answer = queue[i].answer /\ ~c[i].gone
    <3> DEFINE e == queue[i]
               x == HeldForConflict(e, units)
    <3>1. e \in Entry
        BY <1>1
    <3> HIDE DEF e, units
    <3>2. x \in Entry /\ SameWrite(e, x) /\ ~x.gone /\ x.answer = e.answer
        BY <1>1, <3>1, MarksKeepTheWrite
    <3> HIDE DEF x
    <3>3. c[i] = x
        BY DEF x, e
    <3> QED
        BY <3>2, <3>3 DEF e
  <2> HIDE DEF c, q, k
  <2>4. Remarked(q) /\ Len(q) <= MaxEntries
      BY <2>1, <2>2, <2>3, MutatedFacts
  <2>5. \A i \in 1..Len(queue) : q[i].answer = queue[i].answer /\ (q[i].gone => queue[i].gone)
      BY <2>1, <2>3
  <2> QED
      BY <2>4, <2>5 DEF q
<1>3. CASE units = {} /\ tab[t].lost # {} /\ tab[t].pc # "answered"
  <2> DEFINE c == [i \in 1..Len(queue) |-> HeldAsGone(queue[i])]
             q == Settled(t)
  <2>1. q = [i \in 1..Len(queue) |-> IF queue[i].key = k THEN c[i] ELSE queue[i]]
      BY <1>3 DEF Settled, Mutated
  <2>2. c = [i \in 1..Len(queue) |-> c[i]]
      OBVIOUS
  <2>3. \A i \in 1..Len(queue) : c[i] \in Entry /\ SameWrite(queue[i], c[i])
                                 /\ c[i].answer = queue[i].answer
      BY <1>1, MarksKeepTheWrite
  <2> HIDE DEF c, q, k
  <2>4. Remarked(q) /\ Len(q) <= MaxEntries
      BY <2>1, <2>2, <2>3, MutatedFacts
  <2>5. \A i \in 1..Len(queue) : /\ q[i].answer = queue[i].answer
                                 /\ q[i].gone => queue[i].gone \/ queue[i].key = k
      BY <2>1, <2>3
  <2> QED
      BY <1>3, <2>4, <2>5 DEF q, k
<1>4. CASE units = {} /\ ~(tab[t].lost # {} /\ tab[t].pc # "answered")
    BY <1>4 DEF Settled
<1> QED
    BY <1>2, <1>3, <1>4

-----------------------------------------------------------------------------
(* Type correctness.                                                       *)

(* A write recorded: its entry at the end of the queue.                    *)
LEMMA RecordType ==
    ASSUME TypeOK, NEW e \in Entry, NEW reached \in BOOLEAN, Record(e, reached),
           Len(queue) < MaxEntries,
           server' \in [Rows -> Row], created' \in [Keys -> Nat]
    PROVE  TypeOK'
<1>1. queue' \in Seq(Entry) /\ Len(queue') <= MaxEntries
  <2>1. queue \in Seq(Entry) /\ Len(queue) \in Nat /\ queue' = Append(queue, e)
      BY DEF TypeOK, Record
  <2>2. Append(queue, e) \in Seq(Entry) /\ Len(Append(queue, e)) = Len(queue) + 1
      BY <2>1
  <2> QED
      BY <2>1, <2>2, BoundsType
<1>2. {e.key} \X Targets(e) \subseteq Keys \X (Rows \cup {NewRow})
    BY DEF Entry, Targets
<1>3. promised' \in SUBSET (Keys \X (Rows \cup {NewRow}))
      /\ sent' \in SUBSET (Keys \X (Rows \cup {NewRow}))
    BY <1>2 DEF TypeOK, Record
<1>4. tab' \in [Tabs -> Flush]
    BY MovedUnderFacts DEF Record
<1> QED
    BY <1>1, <1>3, <1>4 DEF TypeOK, Record

LEMMA InsertedType ==
    ASSUME TypeOK, NEW k
    PROVE  Inserted(created, k) \in [Keys -> Nat]
BY DEF Inserted, TypeOK

(* What the code that records a write makes of it, and nothing changes.    *)
Shape(e) ==
    /\ e.kind = "create" => e.rows = {}
    /\ e.kind = "edit" => \E r \in Rows : e.rows = {r}
    /\ e.kind = "bulk" => e.rows # {}
    /\ e.kind # "create" => e.patch # NoPatch

(* A write is recorded once, as one entry under a key of its own.          *)
Recording(k, e, reached) ==
    /\ e \in Entry /\ reached \in BOOLEAN
    /\ Record(e, reached)
    /\ e.key = k /\ Shape(e) /\ ~e.gone /\ e.answer = Unanswered
    /\ \A p \in promised : p[1] # k
    /\ Len(queue) < MaxEntries
    /\ server' \in [Rows -> Row]
    /\ \/ created' = created
       \/ e.kind = "create" /\ created' = Inserted(created, k)

LEMMA QueueingRecords ==
    ASSUME TypeOK, NEW k \in Keys, Queue(k)
    PROVE  \E e, reached : Recording(k, e, reached)
<1>1. CASE QueueCreate(k)
  <2> DEFINE e == NewEntry(k, "create", {}, [r \in Rows |-> NoPatch], NoPatch)
  <2>1. PICK reached \in BOOLEAN :
            /\ created' = IF reached THEN Inserted(created, k) ELSE created
            /\ Record(e, reached)
      BY <1>1 DEF QueueCreate
  <2>2. [r \in Rows |-> NoPatch] \in [Rows -> Patch]
      BY NoPatchIsPatch
  <2>3. e \in Entry /\ e.key = k /\ e.kind = "create" /\ e.rows = {} /\ ~e.gone
        /\ e.answer = Unanswered
      BY <2>2, NoPatchIsPatch, NewEntryIsEntry
  <2> HIDE DEF e
  <2>4. server' \in [Rows -> Row] /\ Len(queue) < MaxEntries /\ \A p \in promised : p[1] # k
      BY <1>1 DEF QueueCreate, MayRecord, TypeOK
  <2> QED
      BY <2>1, <2>3, <2>4 DEF Recording, Shape
<1>2. ASSUME NEW r \in Rows, NEW patch \in [Fields -> Entered \cup {Absent}],
             QueueEdit(k, r, patch)
      PROVE  \E e, reached : Recording(k, e, reached)
  <2> DEFINE base == [x \in Rows |-> IF x = r THEN Projected(r) ELSE NoPatch]
             e    == NewEntry(k, "edit", {r}, base, patch)
  <2>1. PICK reached \in BOOLEAN :
            /\ server' = IF reached THEN Patched({r}, patch) ELSE server
            /\ Record(e, reached)
      BY <1>2 DEF QueueEdit
  <2>2. patch \in Patch
      BY EnteredType DEF Patch, PatchValues
  <2>3. base \in [Rows -> Patch]
      BY NoPatchIsPatch, ProjectedIsPatch
  <2> HIDE DEF base
  <2>4. e \in Entry /\ e.key = k /\ e.kind = "edit" /\ e.rows = {r} /\ ~e.gone
        /\ e.answer = Unanswered /\ e.patch = patch
      BY <2>2, <2>3, NewEntryIsEntry
  <2> HIDE DEF e
  <2>5. server' \in [Rows -> Row]
      BY <2>1, <2>2, PatchedIsRows DEF TypeOK
  <2>6. created' = created /\ Len(queue) < MaxEntries /\ patch # NoPatch
        /\ \A p \in promised : p[1] # k
      BY <1>2 DEF QueueEdit, MayRecord
  <2> QED
      BY <2>1, <2>4, <2>5, <2>6 DEF Recording, Shape
<1>3. ASSUME NEW chosen \in SUBSET Rows, NEW f \in Fields, NEW v \in Entered,
             QueueBulk(k, chosen, f, v)
      PROVE  \E e, reached : Recording(k, e, reached)
  <2> DEFINE rows  == {r \in chosen : view[r][f] # v}
             patch == [NoPatch EXCEPT ![f] = v]
             base  == [r \in Rows |-> IF r \in rows THEN [NoPatch EXCEPT ![f] = view[r][f]]
                                                    ELSE NoPatch]
             e     == NewEntry(k, "bulk", rows, base, patch)
  <2>1. PICK reached \in BOOLEAN :
            /\ server' = IF reached THEN Patched(rows, patch) ELSE server
            /\ Record(e, reached)
      BY <1>3 DEF QueueBulk
  <2>2. patch \in Patch
      BY EnteredType, NoPatchIsPatch DEF Patch, PatchValues
  <2>3. \A r \in Rows : [NoPatch EXCEPT ![f] = view[r][f]] \in Patch
    <3>1. \A r \in Rows : view[r] \in Row
        BY DEF TypeOK
    <3>2. \A r \in Rows : view[r][f] \in PatchValues
        BY <3>1 DEF Row, RowValues, PatchValues
    <3> QED
        BY <3>2, NoPatchIsPatch DEF Patch
  <2>4. base \in [Rows -> Patch]
      BY <2>3, NoPatchIsPatch
  <2>5. rows \in SUBSET Rows /\ rows # {}
      BY <1>3 DEF QueueBulk
  <2>6. patch # NoPatch
    <3>1. patch[f] = v /\ NoPatch[f] = Absent
        BY DEF NoPatch
    <3>2. v # Absent
        BY EnteredType, DistinctMarks
    <3> QED
        BY <3>1, <3>2
  <2> HIDE DEF base, patch, rows
  <2>7. e \in Entry /\ e.key = k /\ e.kind = "bulk" /\ e.rows = rows /\ ~e.gone
        /\ e.answer = Unanswered /\ e.patch = patch
      BY <2>2, <2>4, <2>5, NewEntryIsEntry
  <2> HIDE DEF e
  <2>8. server' \in [Rows -> Row]
      BY <2>1, <2>2, <2>5, PatchedIsRows DEF TypeOK
  <2>9. created' = created /\ Len(queue) < MaxEntries /\ \A p \in promised : p[1] # k
      BY <1>3 DEF QueueBulk, MayRecord
  <2> QED
      BY <2>1, <2>5, <2>6, <2>7, <2>8, <2>9 DEF Recording, Shape
<1> QED
    BY <1>1, <1>2, <1>3 DEF Queue

LEMMA QueueType ==
    ASSUME TypeOK, NEW k \in Keys, Queue(k)
    PROVE  TypeOK'
<1>1. PICK e, reached : Recording(k, e, reached)
    BY QueueingRecords
<1>2. created' \in [Keys -> Nat]
    BY <1>1, InsertedType DEF Recording, TypeOK
<1> QED
    BY <1>1, <1>2, RecordType DEF Recording

(* The steps of a flush change the flush of their own tab.                 *)
LEMMA BreakType ==
    ASSUME TypeOK, NEW t \in Tabs, Break(t)
    PROVE  tab' \in [Tabs -> Flush] /\ tab'[t].pc = "idle"
<1>1. NoFlush \in Flush /\ NoFlush.pc = "idle"
    BY FlushTypes DEF NoFlush
<1> QED
    BY <1>1 DEF Break, TypeOK

LEMMA ContinueType ==
    ASSUME TypeOK, NEW t \in Tabs, tab[t].todo # <<>>, Continue(t)
    PROVE  tab' \in [Tabs -> Flush] /\ tab'[t] = EntriesLeft(Tail(tab[t].todo))
<1>1. EntriesLeft(Tail(tab[t].todo)) \in Flush
    BY CurrentIsEntry, FlushTypes
<1> QED
    BY <1>1 DEF Continue, TypeOK

(* What a read decides.                                                    *)
LEMMA ReadRowFacts ==
    ASSUME TypeOK, NEW t \in Tabs, tab[t].todo # <<>>, NEW r \in Rows, ReadRow(t, r)
    PROVE  LET x == tab'[t] IN
           /\ tab' = [tab EXCEPT ![t] = x]
           /\ x \in Flush
           /\ x.pc = "plan" /\ x.todo = tab[t].todo
           /\ x.moved = tab[t].moved \ ({r} \X Fields)
           /\ x.lost = tab[t].lost \cup (IF r \in deleted THEN {r} ELSE {})
           /\ x.skipped # {} => \/ tab[t].skipped # {}
                                \/ /\ Current(t).kind = "bulk"
                                   /\ \A f \in Carried(Current(t).patch) :
                                         Current(t).answer[f] = "theirs"
           /\ x.clean \subseteq tab[t].clean \cup {r}
           /\ ~Decided(Current(t)) /\ r \in x.clean \ tab[t].clean =>
                 Conflicts(Current(t).base[r], Current(t).patch, server[r]) = {}
<1> DEFINE e     == Current(t)
           units == {r} \X Conflicts(e.base[r], e.patch, server[r])
           keeps == e.kind = "bulk" /\ \A f \in Carried(e.patch) : e.answer[f] = "theirs"
           gone  == r \in deleted
           only(rows, when) == IF when THEN rows ELSE {}
           y == [pc      |-> "plan",
                 todo    |-> tab[t].todo,
                 moved   |-> tab[t].moved \ ({r} \X Fields),
                 lost    |-> tab[t].lost \cup only({r}, gone),
                 skipped |-> tab[t].skipped \cup only({r}, ~gone /\ Decided(e) /\ keeps),
                 units   |-> tab[t].units \cup only(units, ~gone /\ ~Decided(e)),
                 clean   |-> tab[t].clean
                               \cup only({r}, ~gone /\ IF Decided(e) THEN ~keeps
                                                                  ELSE units = {})]
<1>1. tab' = [tab EXCEPT ![t] = y]
    BY DEF ReadRow
<1>2. tab[t] \in Flush /\ tab \in [Tabs -> Flush]
    BY DEF TypeOK
<1>3. units \in SUBSET (Rows \X Fields)
    BY DEF Conflicts
<1>4. tab'[t] = y
    BY <1>1, <1>2
<1>5. y \in Flush
    BY <1>2, <1>3 DEF Flush, PCs
<1>6. tab' = [tab EXCEPT ![t] = tab'[t]]
    BY <1>1, <1>4
<1>7. y.skipped # {} => tab[t].skipped # {} \/ keeps
    OBVIOUS
<1>8. y.clean \subseteq tab[t].clean \cup {r}
    OBVIOUS
<1>9. ASSUME ~Decided(e), r \in y.clean \ tab[t].clean
      PROVE  Conflicts(e.base[r], e.patch, server[r]) = {}
  <2>1. units = {}
      BY <1>9
  <2> DEFINE asked == Conflicts(e.base[r], e.patch, server[r])
  <2>2. {r} \X asked = {}
      BY <2>1
  <2> HIDE DEF asked
  <2>3. \A f \in asked : <<r, f>> \in {r} \X asked
      OBVIOUS
  <2> QED
      BY <2>2, <2>3 DEF asked
<1> QED
    BY <1>4, <1>5, <1>6, <1>7, <1>8, <1>9

(* A tab with a flush under way is at an entry.                            *)
Underway(t) == tab[t].pc # "idle" => tab[t].todo # <<>>

TypeInv == TypeOK /\ \A t \in Tabs : Underway(t)

(* The five things a step may do to a tab's flush: leave it, at most       *)
(* writing under it; end it; begin an entry; read a row; deliver.          *)
LeftAlone(t) ==
    /\ SameFlush(tab[t], tab'[t])
    /\ tab'[t] \in Flush
    /\ tab[t].moved \subseteq tab'[t].moved
    /\ tab[t].pc # "idle" => Changing \subseteq tab'[t].moved

Begun(t) ==
    \E todo \in Seq(Entry) :
       /\ todo # <<>> /\ tab'[t] = EntriesLeft(todo)
       /\ UNCHANGED <<server, deleted, promised, sent, waived>>
       /\ \A i \in 1..Len(todo) :
             \/ \E j \in 1..Len(queue) : todo[i] = queue[j]
             \/ tab[t].pc # "idle" /\ \E j \in 1..Len(tab[t].todo) : todo[i] = tab[t].todo[j]

TabStep(t) ==
    \/ LeftAlone(t)
    \/ tab'[t].pc = "idle" /\ tab'[t] \in Flush
    \/ Begun(t)
    \/ tab[t].todo # <<>> /\ \E r \in Rows : ReadRow(t, r)
    \/ tab[t].todo # <<>> /\ Deliver(t) /\ tab'[t] = [tab[t] EXCEPT !.pc = "answered"]

LEMMA StillIsLeftAlone ==
    ASSUME TypeInv, NEW t \in Tabs, tab'[t] = tab[t], UNCHANGED server
    PROVE  LeftAlone(t)
<1>1. tab[t] \in Flush
    BY DEF TypeInv, TypeOK
<1>2. Changing = {}
    BY DEF Changing
<1> QED
    BY <1>1, <1>2 DEF LeftAlone, SameFlush

LEMMA MovedIsLeftAlone ==
    ASSUME TypeInv, NEW t \in Tabs, tab'[t] = MovedUnder(t)
    PROVE  LeftAlone(t)
BY MovedUnderFacts DEF LeftAlone, TypeInv

LEMMA UserTabStep ==
    ASSUME TypeInv, UserStep, NEW t \in Tabs
    PROVE  TabStep(t)
<1>1. ASSUME NEW k \in Keys, Queue(k)
      PROVE  LeftAlone(t)
  <2>1. \E e, reached : Recording(k, e, reached)
      BY <1>1, QueueingRecords DEF TypeInv
  <2>2. tab'[t] = MovedUnder(t)
      BY <2>1 DEF Recording, Record
  <2> QED
      BY <2>2, MovedIsLeftAlone
<1>2. ASSUME NEW k \in Keys,
             DiscardConflict(k) \/ ResolveConflict(k) \/ ReCreate(k) \/ ReCreateAnswered(k)
      PROVE  UNCHANGED <<server, tab>>
    BY <1>2 DEF DiscardConflict, ResolveConflict, ReCreate, ReCreateAnswered
<1>3. ASSUME DiscardFailed \/ DiscardConflicts \/ Reload
      PROVE  UNCHANGED <<server, tab>>
    BY <1>3 DEF DiscardFailed, DiscardConflicts, Reload
<1>4. UNCHANGED <<server, tab>> => LeftAlone(t)
    BY StillIsLeftAlone
<1>5. LeftAlone(t)
    BY <1>1, <1>2, <1>3, <1>4 DEF UserStep
<1> QED
    BY <1>5 DEF TabStep

LEMMA ContinueStep ==
    ASSUME TypeInv, NEW t \in Tabs, tab[t].pc # "idle", tab[t].todo # <<>>, Continue(t),
           UNCHANGED <<server, deleted, promised, sent, waived>>
    PROVE  TabStep(t)
<1> DEFINE rest == Tail(tab[t].todo)
<1>1. rest \in Seq(Entry) /\ \A i \in 1..Len(rest) :
         i + 1 \in 1..Len(tab[t].todo) /\ rest[i] = tab[t].todo[i + 1]
    BY CurrentIsEntry DEF TypeInv
<1>2. tab'[t] = EntriesLeft(rest) /\ tab'[t] \in Flush
    BY ContinueType DEF TypeInv
<1> HIDE DEF rest
<1>3. CASE rest = <<>>
  <2>1. tab'[t].pc = "idle"
      BY <1>1, <1>2, <1>3, FlushTypes
  <2> QED
      BY <1>2, <2>1 DEF TabStep
<1>4. CASE rest # <<>>
  <2>1. \A i \in 1..Len(rest) : \E j \in 1..Len(tab[t].todo) : rest[i] = tab[t].todo[j]
      BY <1>1
  <2>2. Begun(t)
      BY <1>1, <1>2, <1>4, <2>1 DEF Begun
  <2> QED
      BY <2>2 DEF TabStep
<1> QED
    BY <1>3, <1>4

LEMMA StartSyncStep ==
    ASSUME TypeInv, NEW t \in Tabs, NEW retry \in BOOLEAN, StartSync(t, retry)
    PROVE  TabStep(t)
<1> DEFINE at   == {i \in 1..Len(queue) : retry \/ ~queue[i].error}
           todo == Selected(queue, at)
<1>1. Attempted(retry) = todo
    BY DEF Attempted
<1>2. todo \in Seq(Entry) /\ \A i \in 1..Len(todo) : \E j \in 1..Len(queue) : todo[i] = queue[j]
  <2> HIDE DEF at
  <2> QED
      BY KeptFacts DEF TypeInv
<1> HIDE DEF todo
<1>3. todo # <<>> /\ tab'[t] = EntriesLeft(todo)
    BY <1>1 DEF StartSync, TypeInv, TypeOK
<1>4. UNCHANGED <<server, deleted, promised, sent, waived>>
    BY DEF StartSync, history
<1>5. Begun(t)
    BY <1>2, <1>3, <1>4 DEF Begun
<1> QED
    BY <1>5 DEF TabStep

LEMMA OwnTabStep ==
    ASSUME TypeInv, NEW t \in Tabs,
           \/ FlushStep(t) \/ NoAnswer(t)
           \/ \E retry \in BOOLEAN : StartSync(t, retry)
    PROVE  TabStep(t)
<1>1. tab[t].pc # "idle" => tab[t].todo # <<>>
    BY DEF TypeInv, Underway
<1>2. Break(t) => TabStep(t)
    BY BreakType DEF TabStep, TypeInv
<1>3. ASSUME NEW r \in Rows, ReadRow(t, r)
      PROVE  TabStep(t)
    BY <1>1, <1>3 DEF TabStep, ReadRow
<1>4. CASE Deliver(t)
  <2>1. tab[t].pc = "plan" /\ tab'[t] = [tab[t] EXCEPT !.pc = "answered"]
      BY <1>4 DEF Deliver, Planned
  <2> QED
      BY <1>1, <1>4, <2>1 DEF TabStep
<1>5. CASE Reject(t)
  <2>1. tab[t].pc = "plan" /\ UNCHANGED <<server, deleted, promised, sent, waived>>
      BY <1>5 DEF Reject, Planned, history
  <2> QED
      BY <1>1, <1>2, <1>5, <2>1, ContinueStep DEF Reject
<1>6. CASE Settle(t)
  <2>1. tab[t].pc # "idle" /\ UNCHANGED <<server, deleted, promised, sent, waived>>
      BY <1>6 DEF Settle, Planned, history
  <2> QED
      BY <1>1, <1>2, <1>6, <2>1, ContinueStep DEF Settle
<1>7. CASE NoAnswer(t)
    BY <1>2, <1>7 DEF NoAnswer
<1> QED
    BY <1>3, <1>4, <1>5, <1>6, <1>7, StartSyncStep DEF FlushStep

LEMMA OtherTabStep ==
    ASSUME TypeInv, NEW t \in Tabs, NEW u \in Tabs, u # t,
           \/ FlushStep(t) \/ NoAnswer(t)
           \/ \E retry \in BOOLEAN : StartSync(t, retry)
    PROVE  LeftAlone(u)
<1>1. tab \in [Tabs -> Flush]
    BY DEF TypeInv, TypeOK
<1>2. Break(t) => tab'[u] = tab[u]
    BY <1>1 DEF Break
<1>3. Continue(t) => tab'[u] = tab[u]
    BY <1>1 DEF Continue
<1>4. ASSUME NEW r \in Rows, ReadRow(t, r)
      PROVE  tab'[u] = tab[u] /\ UNCHANGED server
    BY <1>1, <1>4 DEF ReadRow
<1>5. CASE Deliver(t)
  <2>1. tab'[u] = MovedUnder(u)
      BY <1>5 DEF Deliver
  <2> QED
      BY <2>1, MovedIsLeftAlone
<1>6. CASE Reject(t) \/ Settle(t) \/ NoAnswer(t)
  <2>1. tab'[u] = tab[u] /\ UNCHANGED server
      BY <1>2, <1>3, <1>6 DEF Reject, Settle, NoAnswer
  <2> QED
      BY <2>1, StillIsLeftAlone
<1>7. ASSUME NEW retry \in BOOLEAN, StartSync(t, retry)
      PROVE  LeftAlone(u)
  <2>1. tab'[u] = tab[u] /\ UNCHANGED server
      BY <1>1, <1>7 DEF StartSync
  <2> QED
      BY <2>1, StillIsLeftAlone
<1> QED
    BY <1>4, <1>5, <1>6, <1>7, StillIsLeftAlone DEF FlushStep

LEMMA EveryTabStep ==
    ASSUME TypeInv, [Next]_vars, NEW t \in Tabs
    PROVE  TabStep(t)
<1>1. ASSUME NEW u \in Tabs,
             \/ FlushStep(u) \/ NoAnswer(u)
             \/ \E retry \in BOOLEAN : StartSync(u, retry)
      PROVE  TabStep(t)
  <2>1. CASE u = t
      BY <1>1, <2>1, OwnTabStep
  <2>2. CASE u # t
    <3>1. LeftAlone(t)
        BY <1>1, <2>2, OtherTabStep
    <3> QED
        BY <3>1 DEF TabStep
  <2> QED
      BY <2>1, <2>2
<1>2. ASSUME NEW r \in Rows, OtherDeletes(r)
      PROVE  TabStep(t)
  <2>1. LeftAlone(t)
      BY <1>2, StillIsLeftAlone DEF OtherDeletes
  <2> QED
      BY <2>1 DEF TabStep
<1>3. ASSUME NEW r \in Rows, NEW f \in Fields, NEW v \in RowValues, OtherWrites(r, f, v)
      PROVE  TabStep(t)
  <2>1. tab'[t] = MovedUnder(t)
      BY <1>3 DEF OtherWrites
  <2>2. LeftAlone(t)
      BY <2>1, MovedIsLeftAlone
  <2> QED
      BY <2>2 DEF TabStep
<1>4. CASE UNCHANGED vars
  <2>1. LeftAlone(t)
      BY <1>4, StillIsLeftAlone DEF vars
  <2> QED
      BY <2>1 DEF TabStep
<1> QED
    BY <1>1, <1>2, <1>3, <1>4, UserTabStep DEF Next

LEMMA TabsStayFlushes ==
    ASSUME TypeInv, [Next]_vars
    PROVE  tab' \in [Tabs -> Flush] /\ \A t \in Tabs : Underway(t)'
<1>1. ASSUME NEW t \in Tabs
      PROVE  tab'[t] \in Flush /\ (tab'[t].pc # "idle" => tab'[t].todo # <<>>)
  <2>1. TabStep(t)
      BY EveryTabStep
  <2>2. tab[t] \in Flush /\ (tab[t].pc # "idle" => tab[t].todo # <<>>)
      BY DEF TypeInv, TypeOK, Underway
  <2>3. CASE LeftAlone(t)
      BY <2>2, <2>3 DEF LeftAlone, SameFlush
  <2>4. CASE Begun(t)
    <3>1. PICK todo \in Seq(Entry) : todo # <<>> /\ tab'[t] = EntriesLeft(todo)
        BY <2>4 DEF Begun
    <3>2. EntriesLeft(todo) \in Flush /\ EntriesLeft(todo).todo = todo
        BY <3>1, FlushTypes
    <3> QED
        BY <3>1, <3>2
  <2>5. ASSUME tab[t].todo # <<>>, NEW r \in Rows, ReadRow(t, r)
        PROVE  tab'[t] \in Flush /\ tab'[t].todo # <<>>
      BY <2>5, ReadRowFacts DEF TypeInv
  <2>6. CASE tab[t].todo # <<>> /\ tab'[t] = [tab[t] EXCEPT !.pc = "answered"]
      BY <2>2, <2>6, SetAnswered
  <2> QED
      BY <2>1, <2>3, <2>4, <2>5, <2>6 DEF TabStep
<1>2. \E map : tab' = [t \in Tabs |-> map[t]]
  <2>1. tab = [t \in Tabs |-> tab[t]]
      BY DEF TypeInv, TypeOK
  <2>2. ASSUME NEW t \in Tabs, NEW x, tab' = [tab EXCEPT ![t] = x]
        PROVE  \E map : tab' = [u \in Tabs |-> map[u]]
    <3>1. tab' = [u \in Tabs |-> tab'[u]]
        BY <2>1, <2>2
    <3> QED
        BY <3>1
  <2>3. ASSUME tab' = tab
        PROVE  \E map : tab' = [u \in Tabs |-> map[u]]
      BY <2>1, <2>3
  <2>4. ASSUME NEW k \in Keys, Queue(k)
        PROVE  \E map : tab' = [u \in Tabs |-> map[u]]
    <3>1. \E e, reached : Recording(k, e, reached)
        BY <2>4, QueueingRecords DEF TypeInv
    <3>2. tab' = [u \in Tabs |-> MovedUnder(u)]
        BY <3>1 DEF Recording, Record
    <3>3. tab' = [u \in Tabs |-> tab'[u]]
        BY <3>2
    <3> QED
        BY <3>3
  <2>5. ASSUME NEW t \in Tabs, Deliver(t)
        PROVE  \E map : tab' = [u \in Tabs |-> map[u]]
    <3>1. tab' = [u \in Tabs |-> tab'[u]]
        BY <2>5 DEF Deliver
    <3> QED
        BY <3>1
  <2>6. ASSUME NEW t \in Tabs, NEW r \in Rows, ReadRow(t, r)
        PROVE  \E x : tab' = [tab EXCEPT ![t] = x]
      BY <2>6 DEF ReadRow
  <2>7. ASSUME NEW t \in Tabs, Reject(t) \/ Settle(t) \/ NoAnswer(t)
        PROVE  \E x : tab' = [tab EXCEPT ![t] = x]
      BY <2>7 DEF Reject, Settle, NoAnswer, Break, Continue
  <2>8. ASSUME NEW t \in Tabs, NEW retry \in BOOLEAN, StartSync(t, retry)
        PROVE  \E x : tab' = [tab EXCEPT ![t] = x]
      BY <2>8 DEF StartSync
  <2>9. ASSUME NEW k \in Keys,
               DiscardConflict(k) \/ ResolveConflict(k) \/ ReCreate(k) \/ ReCreateAnswered(k)
        PROVE  tab' = tab
      BY <2>9 DEF DiscardConflict, ResolveConflict, ReCreate, ReCreateAnswered
  <2>10. ASSUME DiscardFailed \/ DiscardConflicts \/ Reload \/ UNCHANGED vars
         PROVE  tab' = tab
      BY <2>10 DEF DiscardFailed, DiscardConflicts, Reload, vars
  <2>11. ASSUME NEW r \in Rows, NEW f \in Fields, NEW v \in RowValues, OtherWrites(r, f, v)
         PROVE  \E map : tab' = [u \in Tabs |-> map[u]]
    <3>1. tab' = [u \in Tabs |-> tab'[u]]
        BY <2>11 DEF OtherWrites
    <3> QED
        BY <3>1
  <2>12. ASSUME NEW r \in Rows, OtherDeletes(r)
         PROVE  tab' = tab
      BY <2>12 DEF OtherDeletes
  <2>13. UserStep => \E map : tab' = [u \in Tabs |-> map[u]]
      BY <2>3, <2>4, <2>9, <2>10 DEF UserStep
  <2>14. (\E t \in Tabs : FlushStep(t) \/ NoAnswer(t) \/ \E retry \in BOOLEAN : StartSync(t, retry))
            => \E map : tab' = [u \in Tabs |-> map[u]]
      BY <2>2, <2>5, <2>6, <2>7, <2>8 DEF FlushStep
  <2> QED
      BY <2>3, <2>10, <2>11, <2>12, <2>13, <2>14 DEF Next
<1>3. tab' = [t \in Tabs |-> tab'[t]]
    BY <1>2
<1> QED
    BY <1>1, <1>3 DEF Underway

LEMMA EntriesOfQueue ==
    ASSUME TypeOK
    PROVE  \A i \in 1..Len(queue) : queue[i] \in Entry /\ queue[i].key \in Keys
<1>1. \A i \in 1..Len(queue) : queue[i] \in Entry
    BY DEF TypeOK
<1>2. \A e \in Entry : e.key \in Keys
    BY DEF Entry
<1> QED
    BY <1>1, <1>2

(* The other variables, where no write is recorded.                        *)
LEMMA UserType ==
    ASSUME TypeInv, UserStep, \A k \in Keys : ~Queue(k)
    PROVE  TypeOK'
<1> USE DEF TypeInv
<1>1. ASSUME NEW k \in Keys, DiscardConflict(k)
      PROVE  TypeOK'
    BY <1>1, WithoutFacts DEF DiscardConflict, TypeOK
<1>2. ASSUME NEW k \in Keys, ResolveConflict(k)
      PROVE  TypeOK'
  <2>1. PICK side \in [{u[2] : u \in EntryOf(k).conflict} -> {"mine", "theirs"}] :
            LET answer == [f \in Fields |-> IF f \in DOMAIN side THEN side[f] ELSE "none"]
            IN  /\ queue' = Answered(k, answer)
                /\ waived' = IF \E f \in DOMAIN side : side[f] = "theirs"
                             THEN waived \cup {k} ELSE waived
      BY <1>2 DEF ResolveConflict
  <2> DEFINE answer == [f \in Fields |-> IF f \in DOMAIN side THEN side[f] ELSE "none"]
             q == Answered(k, answer)
  <2>2. answer \in [Fields -> {"none", "mine", "theirs"}]
      OBVIOUS
  <2>3. queue' = q
      BY <2>1
  <2> HIDE DEF answer
  <2>4. Remarked(q) /\ Len(q) <= MaxEntries
      BY <2>2, ResolvedFacts
  <2> HIDE DEF q
  <2>5. queue' \in Seq(Entry) /\ Len(queue') <= MaxEntries
      BY <2>3, <2>4 DEF Remarked
  <2>6. waived' \in SUBSET Keys
      BY <2>1 DEF TypeOK
  <2> QED
      BY <1>2, <2>5, <2>6 DEF ResolveConflict, TypeOK
<1>3. ASSUME NEW k \in Keys, ReCreate(k)
      PROVE  TypeOK'
  <2>1. created' \in [Keys -> Nat]
      BY <1>3, InsertedType DEF ReCreate, TypeOK
  <2> QED
      BY <1>3, <2>1 DEF ReCreate, history, TypeOK
<1>4. ASSUME NEW k \in Keys, ReCreateAnswered(k)
      PROVE  TypeOK'
  <2>1. queue' \in Seq(Entry) /\ Len(queue') <= MaxEntries
      BY <1>4, WithoutFacts DEF ReCreateAnswered, TypeOK
  <2>2. sent' \in SUBSET (Keys \X (Rows \cup {NewRow}))
      BY <1>4 DEF ReCreateAnswered, TypeOK
  <2> QED
      BY <1>4, <2>1, <2>2 DEF ReCreateAnswered, TypeOK
<1>5. CASE DiscardFailed
  <2>1. queue' \in Seq(Entry) /\ Len(queue') <= MaxEntries
      BY <1>5, KeptFacts DEF DiscardFailed
  <2>2. \A i \in 1..Len(queue) : queue[i].key \in Keys
      BY EntriesOfQueue
  <2>3. waived' \in SUBSET Keys
    <3> DEFINE taken == {queue[i].key : i \in {j \in 1..Len(queue) : queue[j].error}}
    <3>1. taken \subseteq Keys
        BY <2>2
    <3>2. waived' = waived \cup taken
        BY <1>5 DEF DiscardFailed
    <3> HIDE DEF taken
    <3> QED
        BY <3>1, <3>2 DEF TypeOK
  <2> QED
      BY <1>5, <2>1, <2>3 DEF DiscardFailed, TypeOK
<1>6. CASE DiscardConflicts
  <2>1. queue' \in Seq(Entry) /\ Len(queue') <= MaxEntries
      BY <1>6, KeptFacts DEF DiscardConflicts
  <2>2. \A i \in 1..Len(queue) : queue[i].key \in Keys
      BY EntriesOfQueue
  <2>3. waived' \in SUBSET Keys
    <3> DEFINE taken == {queue[i].key : i \in {j \in 1..Len(queue) : Held(queue[j])}}
    <3>1. taken \subseteq Keys
        BY <2>2
    <3>2. waived' = waived \cup taken
        BY <1>6 DEF DiscardConflicts
    <3> HIDE DEF taken
    <3> QED
        BY <3>1, <3>2 DEF TypeOK
  <2> QED
      BY <1>6, <2>1, <2>3 DEF DiscardConflicts, TypeOK
<1>7. CASE Reload
    BY <1>7 DEF Reload, history, TypeOK
<1> QED
    BY <1>1, <1>2, <1>3, <1>4, <1>5, <1>6, <1>7 DEF UserStep

LEMMA FlushType ==
    ASSUME TypeInv, NEW t \in Tabs, tab' \in [Tabs -> Flush],
           \/ FlushStep(t) \/ NoAnswer(t)
           \/ \E retry \in BOOLEAN : StartSync(t, retry)
    PROVE  TypeOK'
<1> USE DEF TypeInv
<1>1. tab[t].pc # "idle" => tab[t].todo # <<>>
    BY DEF Underway
<1>2. ASSUME NEW r \in Rows, ReadRow(t, r)
      PROVE  TypeOK'
    BY <1>2 DEF ReadRow, history, TypeOK
<1>3. CASE Deliver(t)
  <2>1. tab[t].pc = "plan" /\ Current(t) \in Entry
      BY <1>1, <1>3, CurrentIsEntry DEF Deliver, Planned
  <2>2. tab[t].clean \subseteq Rows
      BY DEF TypeOK, Flush
  <2>3. created' \in [Keys -> Nat]
      BY <1>3, InsertedType DEF Deliver, TypeOK
  <2>4. sent' \in SUBSET (Keys \X (Rows \cup {NewRow}))
      BY <1>3, <2>1, <2>2 DEF Deliver, TypeOK, Entry
  <2>5. server' \in [Rows -> Row]
    <3>1. ASSUME NEW r \in Rows
          PROVE  Overlay(server[r], Outgoing(t, r)) \in Row
      <4>1. Outgoing(t, r) \in Patch
          BY <2>1 DEF Outgoing, Patch, PatchValues, Entry
      <4>2. server[r] \in Row
          BY DEF TypeOK
      <4> QED
          BY <4>1, <4>2, OverlayIsRow
    <3> QED
        BY <1>3, <3>1 DEF Deliver, TypeOK
  <2> QED
      BY <1>3, <2>3, <2>4, <2>5 DEF Deliver, TypeOK
<1>4. CASE Reject(t)
  <2>1. queue' \in Seq(Entry) /\ Len(queue') <= MaxEntries
      BY <1>4, RejectedFacts DEF Reject, TypeOK, Remarked
  <2> QED
      BY <1>4, <2>1 DEF Reject, history, TypeOK
<1>5. CASE Settle(t)
  <2>1. tab[t].todo # <<>>
      BY <1>1, <1>5 DEF Settle, Planned
  <2>2. Settled(t) \in Seq(Entry) /\ Len(Settled(t)) <= MaxEntries
      BY <2>1, SettledFacts, WithoutFacts DEF Remarked
  <2>3. queue' \in Seq(Entry) /\ Len(queue') <= MaxEntries
      BY <1>5, <2>2 DEF Settle, TypeOK
  <2> QED
      BY <1>5, <2>3 DEF Settle, history, TypeOK
<1>6. CASE NoAnswer(t)
    BY <1>6 DEF NoAnswer, history, TypeOK
<1>7. ASSUME NEW retry \in BOOLEAN, StartSync(t, retry)
      PROVE  TypeOK'
    BY <1>7 DEF StartSync, history, TypeOK
<1> QED
    BY <1>2, <1>3, <1>4, <1>5, <1>6, <1>7 DEF FlushStep

LEMMA OthersType ==
    ASSUME TypeInv, tab' \in [Tabs -> Flush], NEW r \in Rows,
           OtherDeletes(r) \/ \E f \in Fields, v \in RowValues : OtherWrites(r, f, v)
    PROVE  TypeOK'
<1>1. others < MaxOthers => others + 1 \in 0..MaxOthers
    BY BoundsType DEF TypeInv, TypeOK
<1>2. CASE OtherDeletes(r)
    BY <1>1, <1>2 DEF OtherDeletes, TypeInv, TypeOK
<1>3. ASSUME NEW f \in Fields, NEW v \in RowValues, OtherWrites(r, f, v)
      PROVE  TypeOK'
  <2>1. server \in [Rows -> Row] /\ server' = [server EXCEPT ![r][f] = v]
      BY <1>3 DEF OtherWrites, TypeInv, TypeOK
  <2>2. [server[r] EXCEPT ![f] = v] \in Row
      BY <2>1 DEF Row
  <2>3. server' \in [Rows -> Row]
      BY <2>1, <2>2
  <2> QED
      BY <1>1, <1>3, <2>3 DEF OtherWrites, TypeInv, TypeOK
<1> QED
    BY <1>2, <1>3

LEMMA TypeStep ==
    ASSUME TypeInv, [Next]_vars
    PROVE  TypeInv'
<1>1. tab' \in [Tabs -> Flush] /\ \A t \in Tabs : Underway(t)'
    BY TabsStayFlushes
<1>2. TypeOK'
  <2>1. CASE UNCHANGED vars
      BY <2>1 DEF vars, TypeInv, TypeOK
  <2>2. CASE UserStep
      BY <1>1, <2>2, UserType, QueueType DEF TypeInv
  <2> QED
      BY <1>1, <2>1, <2>2, FlushType, OthersType DEF Next
<1> QED
    BY <1>1, <1>2 DEF TypeInv

LEMMA TypeInit ==
    ASSUME Init
    PROVE  TypeInv
<1>1. <<>> \in Seq(Entry) /\ Len(<<>>) = 0
    OBVIOUS
<1>2. [f \in Fields |-> Original] \in Row
    BY OriginalType DEF Row
<1>3. NoFlush \in Flush /\ NoFlush.pc = "idle"
    BY FlushTypes DEF NoFlush
<1> QED
    BY <1>1, <1>2, <1>3, BoundsType DEF Init, TypeInv, TypeOK, Underway

(* The queue, the rows and the flushes keep their types through every      *)
(* step, and a full queue refuses (MAX_ENTRIES, outbox.ts).                *)
THEOREM TypeCorrect == Spec => []TypeOK
<1>1. Init => TypeInv
    BY TypeInit
<1>2. TypeInv /\ [Next]_vars => TypeInv'
    BY TypeStep
<1>3. TypeInv => TypeOK
    BY DEF TypeInv
<1> QED
    BY <1>1, <1>2, <1>3, PTL DEF Spec

-----------------------------------------------------------------------------
(* The invariant.                                                          *)

(* An entry of the queue, or of a flush, stands for exactly the writes     *)
(* promised under its key; a field answered "theirs" was given up.         *)
GivenUp(e) == \E f \in Fields : e.answer[f] = "theirs"

Known(e) ==
    /\ Shape(e)
    /\ \A p \in promised : p[1] = e.key => p[2] \in Targets(e)
    /\ \A r \in Targets(e) : <<e.key, r>> \in promised
    /\ GivenUp(e) => e.key \in waived

QueueKnown ==
    \A i \in 1..Len(queue) :
       /\ Known(queue[i])
       /\ queue[i].gone /\ queue[i].kind = "edit" => queue[i].rows \subseteq deleted

(* What a flush has found out about the entry it is at is so: the rows it  *)
(* found lost are gone, the ones it skips were given up, and what it is    *)
(* about to settle as sent has been sent.                                  *)
Sorted(t) ==
    /\ \A i \in 1..Len(tab[t].todo) : Known(tab[t].todo[i])
    /\ tab[t].lost \subseteq deleted
    /\ tab[t].lost \subseteq Current(t).rows
    /\ tab[t].clean \subseteq Current(t).rows
    /\ tab[t].skipped # {} => Current(t).key \in waived
    /\ tab[t].pc = "answered" =>
          /\ Unread(t) = {}
          /\ Current(t).kind = "create" => <<Current(t).key, NewRow>> \in sent
          /\ \A r \in tab[t].clean : <<Current(t).key, r>> \in sent

FlushKnown == \A t \in Tabs : tab[t].pc # "idle" => Sorted(t)

(* A row is made for a promised key, and as a re-creation only once the    *)
(* edited row is gone.                                                     *)
CreatedKnown ==
    \A k \in Keys :
       /\ created[k] <= 1
       /\ created[k] > 0 =>
             /\ \E p \in promised : p[1] = k
             /\ \A p \in promised : p[1] = k /\ p[2] \in Rows => p[2] \in deleted

OutboxInv == TypeInv /\ QueueKnown /\ FlushKnown /\ CreatedKnown /\ NoWriteLost

-----------------------------------------------------------------------------
(* The history only grows, and a write is promised under a key of its own. *)
LEMMA HistoryStep ==
    ASSUME TypeInv, [Next]_vars
    PROVE  /\ promised \subseteq promised' /\ sent \subseteq sent'
           /\ waived \subseteq waived' /\ deleted \subseteq deleted'
           /\ \A p \in promised' \ promised : \A q \in promised : q[1] # p[1]
<1> DEFINE Grows == /\ promised \subseteq promised' /\ sent \subseteq sent'
                    /\ waived \subseteq waived' /\ deleted \subseteq deleted'
                    /\ \A p \in promised' \ promised : \A q \in promised : q[1] # p[1]
<1>1. ASSUME NEW k \in Keys, Queue(k)
      PROVE  Grows
  <2>1. \E e, reached : Recording(k, e, reached)
      BY <1>1, QueueingRecords DEF TypeInv
  <2> QED
      BY <2>1 DEF Recording, Record
<1>2. ASSUME NEW k \in Keys,
             DiscardConflict(k) \/ ResolveConflict(k) \/ ReCreate(k) \/ ReCreateAnswered(k)
      PROVE  Grows
    BY <1>2 DEF DiscardConflict, ResolveConflict, ReCreate, ReCreateAnswered, history
<1>3. ASSUME DiscardFailed \/ DiscardConflicts \/ Reload \/ UNCHANGED vars
      PROVE  Grows
    BY <1>3 DEF DiscardFailed, DiscardConflicts, Reload, vars, history
<1>4. ASSUME NEW t \in Tabs, FlushStep(t) \/ NoAnswer(t)
      PROVE  Grows
    BY <1>4 DEF FlushStep, ReadRow, Deliver, Reject, Settle, NoAnswer, history
<1>5. ASSUME NEW t \in Tabs, NEW retry \in BOOLEAN, StartSync(t, retry)
      PROVE  Grows
    BY <1>5 DEF StartSync, history
<1>6. ASSUME NEW r \in Rows, OtherDeletes(r) \/ \E f \in Fields, v \in RowValues : OtherWrites(r, f, v)
      PROVE  Grows
    BY <1>6 DEF OtherDeletes, OtherWrites
<1> HIDE DEF Grows
<1>7. Grows
    BY <1>1, <1>2, <1>3, <1>4, <1>5, <1>6 DEF Next, UserStep
<1> QED
    BY <1>7 DEF Grows

(* An entry names at least one row, so nobody promises under its key again.*)
LEMMA KnownKept ==
    ASSUME TypeInv, [Next]_vars, NEW e \in Entry, Known(e)
    PROVE  /\ \A p \in promised' : p[1] = e.key => p[2] \in Targets(e)
           /\ \A r \in Targets(e) : <<e.key, r>> \in promised'
           /\ GivenUp(e) => e.key \in waived'
<1>1. Targets(e) # {}
  <2>1. e.kind \in {"create", "edit", "bulk"}
      BY DEF Entry
  <2> QED
      BY <2>1 DEF Known, Shape, Targets
<1>2. PICK r \in Targets(e) : TRUE
    BY <1>1
<1>3. <<e.key, r>> \in promised
    BY <1>2 DEF Known
<1>4. ASSUME NEW p \in promised', p[1] = e.key
      PROVE  p \in promised
  <2>1. p \notin promised => \A q \in promised : q[1] # p[1]
      BY HistoryStep
  <2>2. <<e.key, r>>[1] = e.key
      OBVIOUS
  <2> QED
      BY <1>3, <1>4, <2>1, <2>2
<1>5. promised \subseteq promised' /\ waived \subseteq waived'
    BY HistoryStep
<1> QED
    BY <1>4, <1>5 DEF Known

(* Where an entry of the queue comes from: it is an entry that was there,  *)
(* the same write with other marks, or a write just recorded.              *)
Carries(e, x) ==
    /\ SameWrite(e, x)
    /\ GivenUp(x) => GivenUp(e) \/ x.key \in waived'
    /\ x.gone /\ x.kind = "edit" => \/ e.gone
                                    \/ x.rows \subseteq deleted'

Fresh(x) ==
    /\ Shape(x) /\ ~x.gone /\ ~GivenUp(x)
    /\ \A p \in promised : p[1] # x.key
    /\ promised' = promised \cup ({x.key} \X Targets(x))

QueueComesFrom ==
    \A j \in 1..Len(queue') :
       \/ \E i \in 1..Len(queue) : Carries(queue[i], queue'[j])
       \/ Fresh(queue'[j])

LEMMA CarriesItself ==
    \A e : Carries(e, e)
BY DEF Carries, SameWrite

LEMMA KeptComesFrom ==
    ASSUME TypeOK,
           \/ queue' = queue
           \/ \E k : queue' = Without(k)
           \/ \E at : queue' = Selected(queue, at)
    PROVE  QueueComesFrom
<1>1. ASSUME NEW j \in 1..Len(queue')
      PROVE  \E i \in 1..Len(queue) : queue'[j] = queue[i]
    BY KeptFacts, WithoutFacts
<1> QED
    BY <1>1, CarriesItself DEF QueueComesFrom

LEMMA QueueingComesFrom ==
    ASSUME TypeInv, NEW k \in Keys, Queue(k)
    PROVE  QueueComesFrom
<1>1. PICK e, reached : Recording(k, e, reached)
    BY QueueingRecords DEF TypeInv
<1>2. queue \in Seq(Entry) /\ Len(queue) \in Nat /\ queue' = Append(queue, e)
    BY <1>1 DEF TypeInv, TypeOK, Recording, Record
<1>3. Len(queue') = Len(queue) + 1 /\ queue'[Len(queue) + 1] = e
      /\ \A i \in 1..Len(queue) : queue'[i] = queue[i]
    BY <1>1, <1>2 DEF Recording
<1>4. Fresh(e)
    BY <1>1 DEF Recording, Fresh, GivenUp, Unanswered, Record
<1>5. ASSUME NEW j \in 1..Len(queue')
      PROVE  j \in 1..Len(queue) \/ j = Len(queue) + 1
    BY <1>2, <1>3
<1> QED
    BY <1>3, <1>4, <1>5, CarriesItself DEF QueueComesFrom

(* The user's answer gives up a field on the entries it is about.          *)
LEMMA ResolvingComesFrom ==
    ASSUME TypeInv, NEW k, ResolveConflict(k)
    PROVE  QueueComesFrom
<1>1. PICK side \in [{u[2] : u \in EntryOf(k).conflict} -> {"mine", "theirs"}] :
          LET answer == [f \in Fields |-> IF f \in DOMAIN side THEN side[f] ELSE "none"]
          IN  /\ queue' = Answered(k, answer)
              /\ waived' = IF \E f \in DOMAIN side : side[f] = "theirs"
                           THEN waived \cup {k} ELSE waived
    BY DEF ResolveConflict
<1> DEFINE answer == [f \in Fields |-> IF f \in DOMAIN side THEN side[f] ELSE "none"]
           q == Answered(k, answer)
<1>2. answer \in [Fields -> {"none", "mine", "theirs"}]
    OBVIOUS
<1>3. queue' = q
    BY <1>1
<1>4. (\E f \in Fields : answer[f] = "theirs") => k \in waived'
    BY <1>1
<1> HIDE DEF answer
<1>5. /\ Remarked(q)
      /\ \A i \in 1..Len(queue) :
            /\ q[i].gone = queue[i].gone
            /\ q[i].answer = IF queue[i].key = k THEN answer ELSE queue[i].answer
    BY <1>2, ResolvedFacts DEF TypeInv
<1> HIDE DEF q
<1>6. ASSUME NEW i \in 1..Len(queue)
      PROVE  Carries(queue[i], q[i])
  <2>1. SameWrite(queue[i], q[i])
      BY <1>5 DEF Remarked
  <2>2. CASE queue[i].key = k
      BY <1>4, <1>5, <2>1, <2>2 DEF Carries, GivenUp, SameWrite
  <2>3. CASE queue[i].key # k
      BY <1>5, <2>1, <2>3 DEF Carries, GivenUp
  <2> QED
      BY <2>2, <2>3
<1>7. Len(q) = Len(queue)
    BY <1>5 DEF Remarked
<1> QED
    BY <1>3, <1>6, <1>7 DEF QueueComesFrom

(* Two entries of one key name the same rows.                              *)
LEMMA OneKeyOneWrite ==
    ASSUME TypeOK, NEW e \in Entry, NEW x \in Entry, Known(e), Known(x),
           e.key = x.key, x.kind = "edit"
    PROVE  e.rows = x.rows /\ \E r \in Rows : x.rows = {r}
<1>1. PICK r \in Rows : x.rows = {r}
    BY DEF Known, Shape
<1>2. Targets(x) = {r}
    BY <1>1 DEF Targets
<1>3. <<x.key, r>> \in promised
    BY <1>2 DEF Known
<1>4. <<x.key, r>>[1] = x.key /\ <<x.key, r>>[2] = r
    OBVIOUS
<1>5. r \in Targets(e)
    BY <1>3, <1>4 DEF Known
<1>6. \A y \in Targets(e) : y = r
  <2>1. SUFFICES ASSUME NEW y \in Targets(e)
                 PROVE  y = r
      OBVIOUS
  <2>2. <<e.key, y>> \in promised /\ <<e.key, y>>[1] = e.key /\ <<e.key, y>>[2] = y
      BY DEF Known
  <2>3. y \in Targets(x)
      BY <2>2 DEF Known
  <2> QED
      BY <1>2, <2>3
<1>7. e.kind # "create"
    BY <1>5, NewRowApart DEF Targets
<1> QED
    BY <1>1, <1>5, <1>6, <1>7 DEF Targets

LEMMA SettlingComesFrom ==
    ASSUME TypeInv, QueueKnown, FlushKnown, NEW t \in Tabs, Settle(t)
    PROVE  QueueComesFrom
<1> USE DEF TypeInv
<1>1. tab[t].pc # "idle" /\ tab[t].todo # <<>>
    BY DEF Settle, Planned, Underway
<1>2. Current(t) \in Entry /\ Known(Current(t))
      /\ tab[t].lost \subseteq deleted /\ tab[t].lost \subseteq Current(t).rows
    BY <1>1, CurrentIsEntry DEF FlushKnown, Sorted
<1>3. deleted' = deleted
    BY DEF Settle
<1>4. CASE queue' = queue \/ queue' = Without(Current(t).key)
    BY <1>4, KeptComesFrom
<1>5. CASE /\ queue' = Settled(t)
           /\ Remarked(Settled(t))
           /\ \A i \in 1..Len(queue) :
                 /\ Settled(t)[i].answer = queue[i].answer
                 /\ Settled(t)[i].gone =>
                       \/ queue[i].gone
                       \/ queue[i].key = Current(t).key /\ tab[t].lost # {}
  <2> DEFINE q == Settled(t)
  <2>1. ASSUME NEW i \in 1..Len(queue)
        PROVE  Carries(queue[i], q[i])
    <3>1. SameWrite(queue[i], q[i]) /\ q[i].answer = queue[i].answer
        BY <1>5 DEF Remarked
    <3>2. queue[i] \in Entry /\ Known(queue[i])
        BY EntriesOfQueue DEF QueueKnown
    <3>3. ASSUME queue[i].key = Current(t).key, tab[t].lost # {}, queue[i].kind = "edit"
          PROVE  queue[i].rows \subseteq deleted
      <4>1. /\ Current(t).rows = queue[i].rows
            /\ \E r \in Rows : queue[i].rows = {r}
          BY <1>2, <3>2, <3>3, OneKeyOneWrite
      <4> QED
          BY <1>2, <3>3, <4>1
    <3>4. q[i].gone => queue[i].gone \/ (queue[i].key = Current(t).key /\ tab[t].lost # {})
        BY <1>5
    <3> HIDE DEF q
    <3>5. GivenUp(q[i]) => GivenUp(queue[i])
        BY <3>1 DEF GivenUp
    <3> QED
        BY <1>3, <3>1, <3>3, <3>4, <3>5 DEF Carries, SameWrite
  <2>2. Len(q) = Len(queue)
      BY <1>5 DEF Remarked
  <2>3. queue' = q
      BY <1>5
  <2> HIDE DEF q
  <2> QED
      BY <2>1, <2>2, <2>3 DEF QueueComesFrom
<1> QED
    BY <1>1, <1>4, <1>5, SettledFacts DEF Settle

LEMMA RejectingComesFrom ==
    ASSUME TypeInv, NEW t \in Tabs, Reject(t)
    PROVE  QueueComesFrom
<1> DEFINE q == Mutated(Current(t).key, MarkedRejected)
<1>1. CASE queue' = queue
    BY <1>1, KeptComesFrom DEF TypeInv
<1>2. CASE queue' = q
  <2>1. /\ Remarked(q)
        /\ \A i \in 1..Len(queue) : q[i].answer = queue[i].answer /\ q[i].gone = queue[i].gone
      BY RejectedFacts DEF TypeInv
  <2> HIDE DEF q
  <2>2. \A i \in 1..Len(queue) : Carries(queue[i], q[i])
      BY <2>1 DEF Carries, Remarked, GivenUp
  <2> QED
      BY <1>2, <2>1, <2>2 DEF QueueComesFrom, Remarked
<1> QED
    BY <1>1, <1>2 DEF Reject

LEMMA QueueStep ==
    ASSUME TypeInv, QueueKnown, FlushKnown, [Next]_vars
    PROVE  QueueComesFrom
<1>1. ASSUME queue' = queue
      PROVE  QueueComesFrom
    BY <1>1, KeptComesFrom DEF TypeInv
<1>2. ASSUME NEW k \in Keys, DiscardConflict(k) \/ ReCreate(k) \/ ReCreateAnswered(k)
      PROVE  QueueComesFrom
    BY <1>2, KeptComesFrom DEF TypeInv, DiscardConflict, ReCreate, ReCreateAnswered
<1>3. ASSUME DiscardFailed \/ DiscardConflicts
      PROVE  QueueComesFrom
    BY <1>3, KeptComesFrom DEF TypeInv, DiscardFailed, DiscardConflicts
<1>4. UserStep => QueueComesFrom
    BY <1>1, <1>2, <1>3, QueueingComesFrom, ResolvingComesFrom DEF UserStep, Reload
<1>5. ASSUME NEW t \in Tabs,
             FlushStep(t) \/ NoAnswer(t) \/ \E retry \in BOOLEAN : StartSync(t, retry)
      PROVE  QueueComesFrom
    BY <1>1, <1>5, SettlingComesFrom, RejectingComesFrom
    DEF FlushStep, ReadRow, Deliver, NoAnswer, StartSync
<1>6. ASSUME NEW r \in Rows, OtherDeletes(r) \/ \E f \in Fields, v \in RowValues : OtherWrites(r, f, v)
      PROVE  QueueComesFrom
    BY <1>1, <1>6 DEF OtherDeletes, OtherWrites
<1>7. UNCHANGED vars => QueueComesFrom
    BY <1>1 DEF vars
<1> QED
    BY <1>4, <1>5, <1>6, <1>7 DEF Next

-----------------------------------------------------------------------------
(* The invariant is kept.                                                  *)

(* Known, in the state a step leads to.                                    *)
KnownAfter(e) ==
    /\ Shape(e)
    /\ \A p \in promised' : p[1] = e.key => p[2] \in Targets(e)
    /\ \A r \in Targets(e) : <<e.key, r>> \in promised'
    /\ GivenUp(e) => e.key \in waived'

LEMMA KnownAfterStep ==
    ASSUME TypeInv, [Next]_vars, NEW e \in Entry, Known(e)
    PROVE  KnownAfter(e)
BY KnownKept DEF KnownAfter, Known

LEMMA QueueKnownStep ==
    ASSUME TypeInv, QueueKnown, FlushKnown, [Next]_vars
    PROVE  QueueKnown'
<1>1. SUFFICES ASSUME NEW j \in 1..Len(queue')
               PROVE  /\ KnownAfter(queue'[j])
                      /\ queue'[j].gone /\ queue'[j].kind = "edit" => queue'[j].rows \subseteq deleted'
    BY DEF QueueKnown, Known, KnownAfter, Shape, GivenUp, Targets
<1> DEFINE x == queue'[j]
<1>2. (\E i \in 1..Len(queue) : Carries(queue[i], x)) \/ Fresh(x)
    BY QueueStep DEF QueueComesFrom
<1> HIDE DEF x
<1>3. ASSUME NEW i \in 1..Len(queue), Carries(queue[i], x)
      PROVE  KnownAfter(x) /\ (x.gone /\ x.kind = "edit" => x.rows \subseteq deleted')
  <2> DEFINE e == queue[i]
  <2>1. e \in Entry /\ Known(e) /\ (e.gone /\ e.kind = "edit" => e.rows \subseteq deleted)
      BY EntriesOfQueue DEF TypeInv, QueueKnown
  <2>2. Carries(e, x)
      BY <1>3
  <2> HIDE DEF e
  <2>3. KnownAfter(e)
      BY <2>1, KnownAfterStep
  <2>4. SameWrite(e, x) /\ (GivenUp(x) => GivenUp(e) \/ x.key \in waived')
        /\ (x.gone /\ x.kind = "edit" => e.gone \/ x.rows \subseteq deleted')
      BY <2>2 DEF Carries
  <2>5. Targets(x) = Targets(e) /\ Shape(x)
      BY <2>3, <2>4 DEF SameWrite, Targets, Shape, KnownAfter
  <2>6. KnownAfter(x)
      BY <2>3, <2>4, <2>5 DEF SameWrite, KnownAfter
  <2>7. deleted \subseteq deleted'
      BY HistoryStep
  <2> QED
      BY <2>1, <2>4, <2>6, <2>7 DEF SameWrite
<1>4. ASSUME Fresh(x)
      PROVE  KnownAfter(x) /\ ~x.gone
  <2>1. \A p \in promised' : p[1] = x.key => p \in {x.key} \X Targets(x)
      BY <1>4 DEF Fresh
  <2>2. \A r \in Targets(x) : <<x.key, r>> \in promised'
      BY <1>4 DEF Fresh
  <2>3. \A p \in {x.key} \X Targets(x) : p[2] \in Targets(x)
      OBVIOUS
  <2> QED
      BY <1>4, <2>1, <2>2, <2>3 DEF Fresh, KnownAfter
<1>5. KnownAfter(x) /\ (x.gone /\ x.kind = "edit" => x.rows \subseteq deleted')
    BY <1>2, <1>3, <1>4
<1> QED
    BY <1>5 DEF x

(* What the invariant says of a flush after a step.                        *)
SortedAfter(t) ==
    LET fl == tab'[t]
        e  == Head(fl.todo)
    IN  /\ \A i \in 1..Len(fl.todo) : KnownAfter(fl.todo[i])
        /\ fl.lost \subseteq deleted'
        /\ fl.lost \subseteq e.rows
        /\ fl.clean \subseteq e.rows
        /\ fl.skipped # {} => e.key \in waived'
        /\ fl.pc = "answered" =>
              /\ e.rows \ (fl.clean \cup fl.lost \cup fl.skipped \cup {u[1] : u \in fl.units}) = {}
              /\ e.kind = "create" => <<e.key, NewRow>> \in sent'
              /\ \A r \in fl.clean : <<e.key, r>> \in sent'

LEMMA FlushEntries ==
    ASSUME TypeInv, FlushKnown, NEW t \in Tabs, tab[t].pc # "idle"
    PROVE  /\ \A i \in 1..Len(tab[t].todo) : tab[t].todo[i] \in Entry /\ Known(tab[t].todo[i])
           /\ Current(t) \in Entry /\ Known(Current(t))
           /\ tab[t].todo # <<>>
<1>1. tab[t].todo # <<>> /\ tab[t].todo \in Seq(Entry)
  <2>1. tab[t] \in Flush
      BY DEF TypeInv, TypeOK
  <2>2. tab[t].todo \in Seq(Entry)
      BY <2>1 DEF Flush
  <2> QED
      BY <2>2 DEF TypeInv, Underway
<1>2. \A i \in 1..Len(tab[t].todo) : tab[t].todo[i] \in Entry
    BY <1>1
<1>3. \A i \in 1..Len(tab[t].todo) : Known(tab[t].todo[i])
    BY DEF FlushKnown, Sorted
<1>4. /\ Current(t) \in Entry
      /\ Current(t) = tab[t].todo[1] /\ 1 \in 1..Len(tab[t].todo)
    BY <1>1, CurrentIsEntry DEF TypeInv
<1> QED
    BY <1>1, <1>2, <1>3, <1>4

LEMMA LeftAloneSorted ==
    ASSUME TypeInv, FlushKnown, [Next]_vars, NEW t \in Tabs, LeftAlone(t), tab[t].pc # "idle"
    PROVE  SortedAfter(t)
<1>1. /\ tab'[t].todo = tab[t].todo /\ tab'[t].pc = tab[t].pc /\ tab'[t].clean = tab[t].clean
      /\ tab'[t].units = tab[t].units /\ tab'[t].lost = tab[t].lost
      /\ tab'[t].skipped = tab[t].skipped
    BY DEF LeftAlone, SameFlush
<1>2. \A i \in 1..Len(tab[t].todo) : KnownAfter(tab[t].todo[i])
    BY FlushEntries, KnownAfterStep
<1>3. Sorted(t)
    BY DEF FlushKnown
<1>4. sent \subseteq sent' /\ waived \subseteq waived' /\ deleted \subseteq deleted'
    BY HistoryStep
<1> QED
    BY <1>1, <1>2, <1>3, <1>4 DEF Sorted, SortedAfter, Current, Unread

LEMMA BegunSorted ==
    ASSUME TypeInv, QueueKnown, FlushKnown, [Next]_vars, NEW t \in Tabs, Begun(t)
    PROVE  SortedAfter(t)
<1>1. PICK todo \in Seq(Entry) :
          /\ todo # <<>> /\ tab'[t] = EntriesLeft(todo)
          /\ \A i \in 1..Len(todo) :
                \/ \E j \in 1..Len(queue) : todo[i] = queue[j]
                \/ tab[t].pc # "idle" /\ \E j \in 1..Len(tab[t].todo) : todo[i] = tab[t].todo[j]
    BY DEF Begun
<1>2. LET x == EntriesLeft(todo) IN
      x.pc = "plan" /\ x.todo = todo /\ x.lost = {} /\ x.skipped = {} /\ x.clean = {}
    BY <1>1, FlushTypes
<1>3. ASSUME NEW i \in 1..Len(todo)
      PROVE  KnownAfter(todo[i])
  <2>1. todo[i] \in Entry /\ Known(todo[i])
      BY <1>1, FlushEntries, EntriesOfQueue DEF QueueKnown, TypeInv
  <2> QED
      BY <2>1, KnownAfterStep
<1> QED
    BY <1>1, <1>2, <1>3 DEF SortedAfter

LEMMA ReadSorted ==
    ASSUME TypeInv, FlushKnown, [Next]_vars, NEW t \in Tabs, NEW r \in Rows, ReadRow(t, r)
    PROVE  SortedAfter(t)
<1>1. tab[t].pc = "plan" /\ r \in Current(t).rows
      /\ deleted' = deleted /\ waived' = waived
    BY DEF ReadRow, Unread, history
<1>2. tab[t].todo # <<>> /\ Current(t) \in Entry /\ Known(Current(t))
      /\ \A i \in 1..Len(tab[t].todo) : tab[t].todo[i] \in Entry /\ Known(tab[t].todo[i])
    BY <1>1, FlushEntries
<1> DEFINE x == tab'[t]
           e == Current(t)
<1>3. /\ x.pc = "plan" /\ x.todo = tab[t].todo
      /\ x.lost = tab[t].lost \cup (IF r \in deleted THEN {r} ELSE {})
      /\ x.clean \subseteq tab[t].clean \cup {r}
      /\ x.skipped # {} => \/ tab[t].skipped # {}
                           \/ /\ e.kind = "bulk"
                              /\ \A f \in Carried(e.patch) : e.answer[f] = "theirs"
    BY <1>2, ReadRowFacts DEF TypeInv
<1>4. Sorted(t) /\ e = Head(tab[t].todo)
    BY <1>1 DEF FlushKnown, Current
<1> HIDE DEF x, e
<1>5. ASSUME e.kind = "bulk", \A f \in Carried(e.patch) : e.answer[f] = "theirs"
      PROVE  e.key \in waived
  <2>1. e.patch # NoPatch /\ e.patch \in Patch
      BY <1>2, <1>5 DEF e, Known, Shape, Entry
  <2>2. PICK f \in Fields : e.patch[f] # Absent
      BY <2>1 DEF Patch, NoPatch
  <2>3. GivenUp(e)
      BY <1>5, <2>2 DEF Carried, GivenUp
  <2> QED
      BY <1>2, <2>3 DEF e, Known
<1>6. \A i \in 1..Len(x.todo) : KnownAfter(x.todo[i])
    BY <1>2, <1>3, KnownAfterStep
<1>7. /\ tab[t].lost \subseteq deleted /\ tab[t].lost \subseteq e.rows
      /\ tab[t].clean \subseteq e.rows
      /\ tab[t].skipped # {} => e.key \in waived
    BY <1>4 DEF Sorted, e
<1>8. r \in e.rows
    BY <1>1 DEF e
<1>9. x.lost \subseteq deleted /\ x.lost \subseteq e.rows /\ x.clean \subseteq e.rows
    BY <1>3, <1>7, <1>8
<1>10. x.skipped # {} => e.key \in waived
    BY <1>3, <1>5, <1>7
<1>11. Head(x.todo) = e
    BY <1>3, <1>4
<1> QED
    BY <1>1, <1>3, <1>6, <1>9, <1>10, <1>11 DEF SortedAfter, x

LEMMA DeliveredSorted ==
    ASSUME TypeInv, FlushKnown, [Next]_vars, NEW t \in Tabs, Deliver(t),
           tab'[t] = [tab[t] EXCEPT !.pc = "answered"]
    PROVE  SortedAfter(t)
<1> DEFINE x == tab'[t]
           e == Current(t)
<1>1. tab[t].pc = "plan" /\ Unread(t) = {} /\ deleted' = deleted /\ waived' = waived
      /\ sent' = sent \cup ({e.key} \X (IF e.kind = "create" THEN {NewRow} ELSE tab[t].clean))
    BY DEF Deliver, Planned
<1>2. /\ x.pc = "answered" /\ x.todo = tab[t].todo /\ x.clean = tab[t].clean
      /\ x.units = tab[t].units /\ x.lost = tab[t].lost /\ x.skipped = tab[t].skipped
    BY SetAnswered DEF TypeInv, TypeOK
<1>3. Sorted(t) /\ e = Head(tab[t].todo)
    BY <1>1 DEF FlushKnown, Current
<1>4. \A i \in 1..Len(x.todo) : KnownAfter(x.todo[i])
    BY <1>1, <1>2, FlushEntries, KnownAfterStep
<1>5. Known(e)
    BY <1>1, FlushEntries
<1> HIDE DEF x, e
<1>6. e.kind = "create" => <<e.key, NewRow>> \in sent'
    BY <1>1
<1>7. ASSUME NEW r \in tab[t].clean
      PROVE  <<e.key, r>> \in sent'
  <2>1. CASE e.kind # "create"
      BY <1>1, <2>1
  <2>2. CASE e.kind = "create"
      BY <1>3, <1>5, <2>2 DEF Known, Shape, Sorted, e
  <2> QED
      BY <2>1, <2>2
<1>8. e.rows \ (x.clean \cup x.lost \cup x.skipped \cup {u[1] : u \in x.units}) = {}
    BY <1>1, <1>2 DEF Unread, e
<1>9. x.lost \subseteq deleted' /\ x.lost \subseteq e.rows /\ x.clean \subseteq e.rows
      /\ (x.skipped # {} => e.key \in waived')
    BY <1>1, <1>2, <1>3 DEF Sorted, e
<1>10. Head(x.todo) = e
    BY <1>2, <1>3
<1> QED
    BY <1>2, <1>4, <1>6, <1>7, <1>8, <1>9, <1>10 DEF SortedAfter, x

LEMMA FlushKnownStep ==
    ASSUME TypeInv, QueueKnown, FlushKnown, [Next]_vars
    PROVE  FlushKnown'
<1>1. SUFFICES ASSUME NEW t \in Tabs, tab'[t].pc # "idle"
               PROVE  SortedAfter(t)
    BY DEF FlushKnown, Sorted, SortedAfter, Current, Unread,
           Known, KnownAfter, Shape, GivenUp, Targets
<1>2. TabStep(t)
    BY EveryTabStep
<1>3. CASE LeftAlone(t)
  <2>1. tab[t].pc # "idle"
      BY <1>1, <1>3 DEF LeftAlone, SameFlush
  <2> QED
      BY <1>3, <2>1, LeftAloneSorted
<1> QED
    BY <1>1, <1>2, <1>3, BegunSorted, ReadSorted, DeliveredSorted DEF TabStep

(* Whatever leaves the queue has met its outcome.                          *)
Met(k) ==
    \A p \in promised : p[1] = k => p \in sent' \/ p[1] \in waived' \/ p[2] \in deleted'

LEMMA RemarkedStaysQueued ==
    ASSUME Remarked(queue'), NEW k, Queued(k)
    PROVE  Queued(k)'
<1>1. PICK i \in 1..Len(queue) : queue[i].key = k
    BY DEF Queued
<1>2. i \in 1..Len(queue') /\ queue'[i].key = k
    BY <1>1 DEF Remarked, SameWrite
<1> QED
    BY <1>2 DEF Queued

LEMMA OthersStayQueued ==
    ASSUME TypeInv, NEW j, queue' = Without(j), NEW k, Queued(k), k # j
    PROVE  Queued(k)'
<1>1. PICK i \in 1..Len(queue) : queue[i].key = k
    BY DEF Queued
<1> DEFINE q == Without(j)
<1>2. \A n \in 1..Len(queue) : queue[n].key # j => \E m \in 1..Len(q) : q[m] = queue[n]
    BY WithoutFacts DEF TypeInv
<1>3. queue' = q
    OBVIOUS
<1> HIDE DEF q
<1>4. \E m \in 1..Len(q) : q[m] = queue[i]
    BY <1>1, <1>2
<1> QED
    BY <1>1, <1>3, <1>4 DEF Queued

LEMMA DiscardedOrQueued ==
    ASSUME TypeInv, NEW at, queue' = Selected(queue, at), NEW k, Queued(k),
           \A i \in 1..Len(queue) : i \notin at => queue[i].key \in waived'
    PROVE  Queued(k)' \/ k \in waived'
<1>1. PICK i \in 1..Len(queue) : queue[i].key = k
    BY DEF Queued
<1>2. CASE i \in at
  <2>1. PICK n \in 1..Len(Selected(queue, at)) : Selected(queue, at)[n] = queue[i]
      BY <1>1, <1>2, KeptFacts DEF TypeInv
  <2> QED
      BY <1>1, <2>1 DEF Queued
<1>3. CASE i \notin at
    BY <1>1, <1>3
<1> QED
    BY <1>2, <1>3

(* Recording keeps the queue and puts the new write in it.                 *)
LEMMA RecordedIsQueued ==
    ASSUME TypeInv, NEW k \in Keys, Queue(k)
    PROVE  /\ \A x : Queued(x) => Queued(x)'
           /\ \A p \in promised' \ promised : Queued(p[1])'
<1>1. PICK e, reached : Recording(k, e, reached)
    BY QueueingRecords DEF TypeInv
<1>2. queue \in Seq(Entry) /\ Len(queue) \in Nat /\ queue' = Append(queue, e)
    BY <1>1 DEF TypeInv, TypeOK, Recording, Record
<1>3. Len(queue') = Len(queue) + 1 /\ queue'[Len(queue) + 1] = e
      /\ \A i \in 1..Len(queue) : queue'[i] = queue[i]
    BY <1>1, <1>2 DEF Recording
<1>4. 1..Len(queue) \subseteq 1..Len(queue') /\ Len(queue) + 1 \in 1..Len(queue')
    BY <1>2, <1>3
<1>5. Queued(e.key)'
    BY <1>3, <1>4 DEF Queued
<1>6. \A p \in promised' \ promised : p[1] = e.key
    BY <1>1 DEF Recording, Record
<1>7. ASSUME NEW x, Queued(x)
      PROVE  Queued(x)'
  <2>1. PICK i \in 1..Len(queue) : queue[i].key = x
      BY <1>7 DEF Queued
  <2>2. i \in 1..Len(queue') /\ queue'[i].key = x
      BY <1>3, <1>4, <2>1
  <2> QED
      BY <2>2 DEF Queued
<1> QED
    BY <1>5, <1>6, <1>7

(* A settled entry is kept, or all its rows have met their outcome.        *)
LEMMA SettledMet ==
    ASSUME TypeInv, FlushKnown, [Next]_vars, NEW t \in Tabs, Settle(t),
           tab[t].units = {}, tab[t].lost = {} \/ tab[t].pc = "answered"
    PROVE  Met(Current(t).key)
<1> DEFINE e == Current(t)
<1>1. tab[t].pc # "idle" /\ (tab[t].pc = "answered" \/ (Unread(t) = {} /\ ~SomethingToSend(t)))
    BY DEF Settle, Planned
<1>2. e \in Entry /\ Known(e)
    BY <1>1, FlushEntries
<1>3. Sorted(t)
    BY <1>1 DEF FlushKnown
<1>4. sent \subseteq sent' /\ waived \subseteq waived' /\ deleted \subseteq deleted'
    BY HistoryStep
<1>5. SUFFICES ASSUME NEW p \in promised, p[1] = e.key
               PROVE  p \in sent \/ p[1] \in waived \/ p[2] \in deleted
    BY <1>4 DEF Met
<1>6. p = <<e.key, p[2]>> /\ p[2] \in Targets(e)
    BY <1>2, <1>5 DEF TypeInv, TypeOK, Known
<1>7. CASE e.kind = "create"
  <2>1. tab[t].pc = "answered" /\ p[2] = NewRow
      BY <1>1, <1>6, <1>7 DEF SomethingToSend, Targets
  <2> QED
      BY <1>3, <1>6, <1>7, <2>1 DEF Sorted
<1>8. CASE e.kind # "create"
  <2>1. p[2] \in e.rows /\ Unread(t) = {}
      BY <1>1, <1>3, <1>6, <1>8 DEF Targets, Sorted
  <2>2. p[2] \in tab[t].clean \cup tab[t].lost \cup tab[t].skipped
      BY <2>1 DEF Unread
  <2>3. CASE p[2] \in tab[t].lost
      BY <1>3, <2>3 DEF Sorted
  <2>4. CASE p[2] \in tab[t].skipped
      BY <1>3, <1>5, <2>4 DEF Sorted
  <2>5. CASE p[2] \in tab[t].clean /\ tab[t].pc = "answered"
      BY <1>3, <1>6, <2>5 DEF Sorted
  <2>6. CASE p[2] \in tab[t].clean /\ ~SomethingToSend(t)
    <3>1. Outgoing(t, p[2]) = NoPatch
        BY <2>6 DEF SomethingToSend
    <3>2. e.patch # NoPatch /\ e.patch \in Patch
        BY <1>2, <1>8 DEF Known, Shape, Entry
    <3>3. PICK f \in Fields : e.patch[f] # Absent
        BY <3>2 DEF Patch, NoPatch
    <3>4. Outgoing(t, p[2])[f] = Absent
        BY <3>1 DEF NoPatch
    <3>5. e.answer[f] = "theirs"
        BY <3>3, <3>4 DEF Outgoing
    <3> QED
        BY <1>2, <1>5, <3>5 DEF Known, GivenUp
  <2> QED
      BY <1>1, <2>2, <2>3, <2>4, <2>5, <2>6
<1> QED
    BY <1>7, <1>8

LEMMA LeavingIsMet ==
    ASSUME TypeInv, FlushKnown, [Next]_vars, NEW k, Queued(k)
    PROVE  Queued(k)' \/ Met(k)
<1>1. queue' = queue => Queued(k)'
    BY DEF Queued
<1>2. ASSUME NEW j, queue' = Without(j), Met(j)
      PROVE  Queued(k)' \/ Met(k)
    BY <1>2, OthersStayQueued
<1>3. k \in waived' => Met(k)
    BY DEF Met
<1>4. ASSUME NEW j \in Keys, DiscardConflict(j)
      PROVE  Queued(k)' \/ Met(k)
  <2>1. queue' = Without(j) /\ j \in waived'
      BY <1>4 DEF DiscardConflict
  <2> QED
      BY <1>2, <2>1 DEF Met
<1>5. ASSUME NEW j \in Keys, ReCreateAnswered(j)
      PROVE  Queued(k)' \/ Met(k)
  <2>1. queue' = queue \/ (queue' = Without(j) /\ sent' = sent \cup {p \in promised : p[1] = j})
      BY <1>5 DEF ReCreateAnswered
  <2> QED
      BY <1>1, <1>2, <2>1 DEF Met
<1>6. ASSUME NEW j \in Keys, ResolveConflict(j)
      PROVE  Queued(k)'
  <2>1. PICK side \in [{u[2] : u \in EntryOf(j).conflict} -> {"mine", "theirs"}] :
            queue' = Answered(j, [f \in Fields |-> IF f \in DOMAIN side THEN side[f] ELSE "none"])
      BY <1>6 DEF ResolveConflict
  <2> DEFINE answer == [f \in Fields |-> IF f \in DOMAIN side THEN side[f] ELSE "none"]
  <2>2. answer \in [Fields -> {"none", "mine", "theirs"}] /\ queue' = Answered(j, answer)
      BY <2>1
  <2> HIDE DEF answer
  <2>3. Remarked(queue')
      BY <2>2, ResolvedFacts DEF TypeInv
  <2> QED
      BY <2>3, RemarkedStaysQueued
<1>7. CASE DiscardFailed
  <2> DEFINE at == {i \in 1..Len(queue) : ~queue[i].error}
  <2>1. queue' = Selected(queue, at)
      BY <1>7 DEF DiscardFailed
  <2>2. \A i \in 1..Len(queue) : i \notin at => queue[i].key \in waived'
      BY <1>7 DEF DiscardFailed
  <2> HIDE DEF at
  <2> QED
      BY <1>3, <2>1, <2>2, DiscardedOrQueued
<1>8. CASE DiscardConflicts
  <2> DEFINE at == {i \in 1..Len(queue) : ~Held(queue[i])}
  <2>1. queue' = Selected(queue, at)
      BY <1>8 DEF DiscardConflicts
  <2>2. \A i \in 1..Len(queue) : i \notin at => queue[i].key \in waived'
      BY <1>8 DEF DiscardConflicts
  <2> HIDE DEF at
  <2> QED
      BY <1>3, <2>1, <2>2, DiscardedOrQueued
<1>9. ASSUME NEW t \in Tabs, Reject(t)
      PROVE  Queued(k)'
  <2>1. queue' = queue \/ Remarked(queue')
      BY <1>9, RejectedFacts DEF Reject, TypeInv
  <2> QED
      BY <1>1, <2>1, RemarkedStaysQueued
<1>10. ASSUME NEW t \in Tabs, Settle(t)
       PROVE  Queued(k)' \/ Met(k)
  <2>1. queue' = queue \/ queue' = Settled(t)
      BY <1>10 DEF Settle
  <2>2. tab[t].todo # <<>>
      BY <1>10, FlushEntries DEF Settle, Planned
  <2>3. Remarked(Settled(t))
        \/ (/\ Settled(t) = Without(Current(t).key)
            /\ tab[t].units = {} /\ (tab[t].lost = {} \/ tab[t].pc = "answered"))
      BY <2>2, SettledFacts DEF TypeInv
  <2> QED
      BY <1>1, <1>2, <1>10, <2>1, <2>3, RemarkedStaysQueued, SettledMet
<1>11. UserStep => Queued(k)' \/ Met(k)
    BY <1>1, <1>4, <1>5, <1>6, <1>7, <1>8, RecordedIsQueued DEF UserStep, ReCreate, Reload
<1>12. ASSUME NEW t \in Tabs,
              FlushStep(t) \/ NoAnswer(t) \/ \E retry \in BOOLEAN : StartSync(t, retry)
       PROVE  Queued(k)' \/ Met(k)
    BY <1>1, <1>9, <1>10, <1>12 DEF FlushStep, ReadRow, Deliver, NoAnswer, StartSync
<1>13. ASSUME NEW r \in Rows, OtherDeletes(r) \/ \E f \in Fields, v \in RowValues : OtherWrites(r, f, v)
       PROVE  Queued(k)'
    BY <1>1, <1>13 DEF OtherDeletes, OtherWrites
<1>14. UNCHANGED vars => Queued(k)'
    BY <1>1 DEF vars
<1> QED
    BY <1>11, <1>12, <1>13, <1>14 DEF Next

(* A promise is only ever made with the write in the queue.                *)
LEMMA PromisedIsQueued ==
    ASSUME TypeInv, [Next]_vars, NEW p \in promised' \ promised
    PROVE  Queued(p[1])'
<1>1. (\A k \in Keys : ~Queue(k)) => promised' = promised
  <2>1. SUFFICES ASSUME \A k \in Keys : ~Queue(k)
                 PROVE  promised' = promised
      OBVIOUS
  <2>2. UserStep => promised' = promised
      BY <2>1 DEF UserStep, DiscardConflict, ResolveConflict, ReCreate, ReCreateAnswered,
                  DiscardFailed, DiscardConflicts, Reload, history
  <2>3. \A t \in Tabs : FlushStep(t) \/ NoAnswer(t) => promised' = promised
      BY DEF FlushStep, ReadRow, Deliver, Reject, Settle, NoAnswer, history
  <2>4. \A t \in Tabs, retry \in BOOLEAN : StartSync(t, retry) => promised' = promised
      BY DEF StartSync, history
  <2>5. \A r \in Rows, f \in Fields, v \in RowValues :
            OtherDeletes(r) \/ OtherWrites(r, f, v) => promised' = promised
      BY DEF OtherDeletes, OtherWrites
  <2>6. \A r \in Rows : OtherDeletes(r) => promised' = promised
      BY DEF OtherDeletes
  <2>7. UNCHANGED vars => promised' = promised
      BY DEF vars
  <2> QED
      BY <2>2, <2>3, <2>4, <2>5, <2>6, <2>7 DEF Next
<1> QED
    BY <1>1, RecordedIsQueued

LEMMA NoWriteLostStep ==
    ASSUME TypeInv, FlushKnown, NoWriteLost, [Next]_vars
    PROVE  NoWriteLost'
<1>1. SUFFICES ASSUME NEW p \in promised'
               PROVE  Queued(p[1])' \/ p \in sent' \/ p[1] \in waived' \/ p[2] \in deleted'
    BY DEF NoWriteLost
<1>2. CASE p \notin promised
    BY <1>2, PromisedIsQueued
<1>3. CASE p \in promised /\ Queued(p[1])
    BY <1>3, LeavingIsMet DEF Met
<1>4. CASE p \in promised /\ ~Queued(p[1])
    BY <1>4, HistoryStep DEF NoWriteLost
<1> QED
    BY <1>2, <1>3, <1>4

(* Rows are made under keys that stand for no row, or for a row that is    *)
(* gone.                                                                   *)
MadeRightly(k) ==
    /\ \E p \in promised' : p[1] = k
    /\ \A p \in promised' : p[1] = k /\ p[2] \in Rows => p[2] \in deleted'

LEMMA KnownMakesRightly ==
    ASSUME TypeInv, [Next]_vars, NEW e \in Entry, KnownAfter(e),
           e.kind = "create" \/ e.rows \subseteq deleted'
    PROVE  MadeRightly(e.key)
<1>1. Targets(e) # {}
  <2>1. e.kind \in {"create", "edit", "bulk"}
      BY DEF Entry
  <2> QED
      BY <2>1 DEF KnownAfter, Shape, Targets
<1>2. PICK r \in Targets(e) : <<e.key, r>> \in promised'
    BY <1>1 DEF KnownAfter
<1>3. <<e.key, r>>[1] = e.key
    OBVIOUS
<1>4. ASSUME NEW p \in promised', p[1] = e.key, p[2] \in Rows
      PROVE  p[2] \in deleted'
  <2>1. p[2] \in Targets(e)
      BY <1>4 DEF KnownAfter
  <2> QED
      BY <1>4, <2>1, NewRowApart DEF Targets
<1> QED
    BY <1>2, <1>3, <1>4 DEF MadeRightly

LEMMA InsertedFacts ==
    ASSUME TypeOK, NEW k \in Keys, NEW j \in Keys
    PROVE  /\ j # k => Inserted(created, k)[j] = created[j]
           /\ created[j] <= 1 => Inserted(created, k)[j] <= 1
<1>1. created \in [Keys -> Nat] /\ created[j] \in Nat
    BY DEF TypeOK
<1> QED
    BY <1>1 DEF Inserted

(* Each step makes at most one row, under one key.                         *)
LEMMA CreatedStep ==
    ASSUME TypeInv, QueueKnown, FlushKnown, [Next]_vars
    PROVE  \/ created' = created
           \/ \E k \in Keys : created' = Inserted(created, k) /\ MadeRightly(k)
<1>1. ASSUME NEW k \in Keys, Queue(k)
      PROVE  created' = created \/ (created' = Inserted(created, k) /\ MadeRightly(k))
  <2>1. PICK e, reached : Recording(k, e, reached)
      BY <1>1, QueueingRecords DEF TypeInv
  <2>2. CASE e.kind = "create"
    <3>1. promised' = promised \cup ({k} \X {NewRow}) /\ \A p \in promised : p[1] # k
        BY <2>1, <2>2 DEF Recording, Record, Targets
    <3>2. <<k, NewRow>> \in promised' /\ <<k, NewRow>>[1] = k
        BY <3>1
    <3>3. \A p \in promised' : p[1] = k => p[2] \notin Rows
        BY <3>1, NewRowApart
    <3>4. MadeRightly(k)
        BY <3>2, <3>3 DEF MadeRightly
    <3> QED
        BY <2>1, <3>4 DEF Recording
  <2>3. CASE e.kind # "create"
      BY <2>1, <2>3 DEF Recording
  <2> QED
      BY <2>2, <2>3
<1>2. ASSUME NEW k \in Keys, ReCreate(k)
      PROVE  created' = created \/ (created' = Inserted(created, k) /\ MadeRightly(k))
  <2>1. PICK i \in 1..Len(queue) : EntryOf(k) = queue[i] /\ queue[i].key = k
      BY <1>2, EntryOfFacts DEF ReCreate
  <2>2. queue[i] \in Entry /\ Known(queue[i])
      BY EntriesOfQueue DEF QueueKnown, TypeInv
  <2>3. queue[i].rows \subseteq deleted /\ deleted' = deleted
      BY <1>2, <2>1 DEF ReCreate, MayReCreate, QueueKnown
  <2>4. KnownAfter(queue[i])
      BY <2>2, KnownAfterStep
  <2>5. MadeRightly(k)
      BY <2>1, <2>2, <2>3, <2>4, KnownMakesRightly
  <2> QED
      BY <1>2, <2>5 DEF ReCreate
<1>3. ASSUME NEW t \in Tabs, Deliver(t)
      PROVE  \/ created' = created
             \/ \E k \in Keys : created' = Inserted(created, k) /\ MadeRightly(k)
  <2> DEFINE e == Current(t)
  <2>1. e \in Entry /\ Known(e)
      BY <1>3, FlushEntries DEF Deliver, Planned
  <2>2. created' = IF e.kind = "create" THEN Inserted(created, e.key) ELSE created
      BY <1>3 DEF Deliver
  <2> HIDE DEF e
  <2>3. KnownAfter(e) /\ e.key \in Keys
      BY <2>1, KnownAfterStep DEF Entry
  <2> QED
      BY <2>1, <2>2, <2>3, KnownMakesRightly
<1>4. ASSUME NEW k \in Keys, DiscardConflict(k) \/ ResolveConflict(k) \/ ReCreateAnswered(k)
      PROVE  created' = created
    BY <1>4 DEF DiscardConflict, ResolveConflict, ReCreateAnswered
<1>5. ASSUME DiscardFailed \/ DiscardConflicts \/ Reload \/ UNCHANGED vars
      PROVE  created' = created
    BY <1>5 DEF DiscardFailed, DiscardConflicts, Reload, vars
<1>6. ASSUME NEW t \in Tabs, NoAnswer(t) \/ Reject(t) \/ Settle(t) \/ \E r \in Rows : ReadRow(t, r)
      PROVE  created' = created
    BY <1>6 DEF NoAnswer, Reject, Settle, ReadRow
<1>7. ASSUME NEW t \in Tabs, NEW retry \in BOOLEAN, StartSync(t, retry)
      PROVE  created' = created
    BY <1>7 DEF StartSync
<1>8. ASSUME NEW r \in Rows, OtherDeletes(r) \/ \E f \in Fields, v \in RowValues : OtherWrites(r, f, v)
      PROVE  created' = created
    BY <1>8 DEF OtherDeletes, OtherWrites
<1>9. UserStep => \/ created' = created
                  \/ \E k \in Keys : created' = Inserted(created, k) /\ MadeRightly(k)
    BY <1>1, <1>2, <1>4, <1>5 DEF UserStep
<1> QED
    BY <1>3, <1>5, <1>6, <1>7, <1>8, <1>9 DEF Next, FlushStep

LEMMA CreatedKnownStep ==
    ASSUME TypeInv, QueueKnown, FlushKnown, CreatedKnown, [Next]_vars
    PROVE  CreatedKnown'
<1>1. SUFFICES ASSUME NEW j \in Keys
               PROVE  created'[j] <= 1 /\ (created'[j] > 0 => MadeRightly(j))
    BY DEF CreatedKnown, MadeRightly
<1>2. created[j] <= 1 /\ (created[j] > 0 => MadeRightly(j))
  <2>1. ASSUME created[j] > 0
        PROVE  MadeRightly(j)
    <3>1. PICK q \in promised : q[1] = j
        BY <2>1 DEF CreatedKnown
    <3>2. \A p \in promised : p[1] = j /\ p[2] \in Rows => p[2] \in deleted
        BY <2>1 DEF CreatedKnown
    <3>3. /\ promised \subseteq promised' /\ deleted \subseteq deleted'
          /\ \A p \in promised' \ promised : \A x \in promised : x[1] # p[1]
        BY HistoryStep
    <3>4. \A p \in promised' : p[1] = j => p \in promised
        BY <3>1, <3>3
    <3> QED
        BY <3>1, <3>2, <3>3, <3>4 DEF MadeRightly
  <2> QED
      BY <2>1 DEF CreatedKnown
<1>3. CASE created' = created
    BY <1>2, <1>3
<1>4. ASSUME NEW k \in Keys, created' = Inserted(created, k), MadeRightly(k)
      PROVE  created'[j] <= 1 /\ (created'[j] > 0 => MadeRightly(j))
    BY <1>2, <1>4, InsertedFacts DEF TypeInv
<1> QED
    BY <1>3, <1>4, CreatedStep

LEMMA OutboxInit ==
    ASSUME Init
    PROVE  OutboxInv
<1>1. TypeInv
    BY TypeInit
<1>2. queue = <<>> /\ promised = {} /\ created = [k \in Keys |-> 0]
      /\ \A t \in Tabs : tab[t].pc = "idle"
    BY DEF Init, NoFlush
<1>3. QueueKnown
    BY <1>2 DEF QueueKnown
<1>4. FlushKnown
    BY <1>2 DEF FlushKnown
<1>5. CreatedKnown
    BY <1>2 DEF CreatedKnown
<1>6. NoWriteLost
    BY <1>2 DEF NoWriteLost
<1> QED
    BY <1>1, <1>3, <1>4, <1>5, <1>6 DEF OutboxInv

LEMMA OutboxStep ==
    ASSUME OutboxInv, [Next]_vars
    PROVE  OutboxInv'
<1> USE DEF OutboxInv
<1>1. TypeInv'
    BY TypeStep
<1>2. QueueKnown'
    BY QueueKnownStep
<1>3. FlushKnown'
    BY FlushKnownStep
<1>4. CreatedKnown'
    BY CreatedKnownStep
<1>5. NoWriteLost'
    BY NoWriteLostStep
<1> QED
    BY <1>1, <1>2, <1>3, <1>4, <1>5

LEMMA OutboxAlways == Spec => []OutboxInv
<1>1. Init => OutboxInv
    BY OutboxInit
<1>2. OutboxInv /\ [Next]_vars => OutboxInv'
    BY OutboxStep
<1> QED
    BY <1>1, <1>2, PTL DEF Spec

(* No promised write is lost, whatever the flushes of the tabs, the user's *)
(* answers, the other devices and a network and a storage that fail do     *)
(* between its steps (outbox.ts, flushOutbox and the mutators): until the  *)
(* server has taken it, its row is gone or the user gave it up, it is in   *)
(* the queue.                                                              *)
THEOREM NoWriteIsLost == Spec => []NoWriteLost
<1>1. OutboxInv => NoWriteLost
    BY DEF OutboxInv
<1> QED
    BY <1>1, OutboxAlways, PTL

(* reCreate never makes a second copy of a row the server still has, even  *)
(* when the entry was held by another tab's flush of an older copy.        *)
THEOREM OnlyGoneRowsAreReCreated == Spec => []ReCreatedIfGone
<1>1. OutboxInv => ReCreatedIfGone
  <2>1. SUFFICES ASSUME OutboxInv, NEW p \in promised, p[2] \in Rows, created[p[1]] > 0
                 PROVE  p[2] \in deleted
      BY DEF ReCreatedIfGone
  <2>2. p[1] \in Keys
      BY <2>1 DEF OutboxInv, TypeInv, TypeOK
  <2> QED
      BY <2>1, <2>2 DEF OutboxInv, CreatedKnown
<1> QED
    BY <1>1, OutboxAlways, PTL

(* A queued key that has left the queue stays out of it.                   *)
LEMMA LeftForGood ==
    ASSUME OutboxInv, [Next]_vars, NEW p \in promised, ~Queued(p[1])
    PROVE  ~Queued(p[1])'
<1>1. SUFFICES ASSUME NEW j \in 1..Len(queue'), queue'[j].key = p[1]
               PROVE  FALSE
    BY DEF Queued
<1>2. (\E i \in 1..Len(queue) : Carries(queue[i], queue'[j])) \/ Fresh(queue'[j])
    BY QueueStep DEF OutboxInv, QueueComesFrom
<1>3. CASE \E i \in 1..Len(queue) : Carries(queue[i], queue'[j])
    BY <1>1, <1>3 DEF Carries, SameWrite, Queued
<1>4. CASE Fresh(queue'[j])
    BY <1>1, <1>4 DEF Fresh
<1> QED
    BY <1>2, <1>3, <1>4

(* An entry that has left the queue never comes back: a flush that still   *)
(* walks its own copy of an entry the user discarded, or another tab sent, *)
(* records what it learns on no entry at all (mutateEntry).                *)
THEOREM EntriesLeaveForGood == Spec => LeavesForGood
<1>1. OutboxInv /\ [Next]_vars =>
         [\A p \in promised : ~Queued(p[1]) => ~Queued(p[1])']_vars
    BY LeftForGood
<1> QED
    BY <1>1, OutboxAlways, PTL DEF Spec, LeavesForGood

-----------------------------------------------------------------------------
(* What a flush overwrites.                                                *)

(* The rows a flush merged clean would merge clean now, but for what was   *)
(* written since it read them.                                             *)
StillClean(t) ==
    tab[t].pc = "plan" /\ ~Decided(Current(t)) =>
       \A r \in tab[t].clean, f \in Fields :
          <<r, f>> \notin tab[t].moved =>
             f \notin Conflicts(Current(t).base[r], Current(t).patch, server[r])

CleanInv == \A t \in Tabs : StillClean(t)

(* A verdict on a field depends on that field alone.                       *)
LEMMA ConflictIsOfTheField ==
    ASSUME NEW base, NEW patch, NEW row, NEW other, NEW f \in Fields, row[f] = other[f]
    PROVE  f \in Conflicts(base, patch, row) <=> f \in Conflicts(base, patch, other)
BY DEF Conflicts

LEMMA CleanStep ==
    ASSUME OutboxInv, CleanInv, [Next]_vars
    PROVE  CleanInv'
<1>1. SUFFICES ASSUME NEW t \in Tabs,
                      tab'[t].pc = "plan", ~Decided(Head(tab'[t].todo)),
                      NEW r \in tab'[t].clean, NEW f \in Fields, <<r, f>> \notin tab'[t].moved
               PROVE  f \notin Conflicts(Head(tab'[t].todo).base[r], Head(tab'[t].todo).patch,
                                         server'[r])
    BY DEF CleanInv, StillClean, Current, Decided, Unanswered
<1>2. TypeInv /\ FlushKnown /\ tab[t] \in Flush
    BY DEF OutboxInv, TypeInv, TypeOK
<1>3. tab[t].clean \subseteq Rows
    BY <1>2 DEF Flush
<1>4. CASE LeftAlone(t)
  <2>1. /\ tab[t].pc = "plan" /\ tab'[t].todo = tab[t].todo /\ r \in tab[t].clean
        /\ <<r, f>> \notin tab[t].moved /\ <<r, f>> \notin Changing
      BY <1>1, <1>4 DEF LeftAlone, SameFlush
  <2>2. r \in Rows
      BY <1>3, <2>1
  <2>3. server'[r][f] = server[r][f]
    <3>1. <<r, f>> \in Rows \X Fields /\ <<r, f>>[1] = r /\ <<r, f>>[2] = f
        BY <2>2
    <3> QED
        BY <2>1, <3>1 DEF Changing
  <2>4. f \notin Conflicts(Head(tab[t].todo).base[r], Head(tab[t].todo).patch, server[r])
      BY <1>1, <2>1 DEF CleanInv, StillClean, Current
  <2> QED
      BY <2>1, <2>3, <2>4, ConflictIsOfTheField
<1>5. CASE Begun(t)
  <2>1. PICK todo \in Seq(Entry) : todo # <<>> /\ tab'[t] = EntriesLeft(todo)
      BY <1>5 DEF Begun
  <2>2. EntriesLeft(todo).clean = {}
      BY <2>1, FlushTypes
  <2> QED
      BY <1>1, <2>1, <2>2
<1>6. ASSUME tab[t].todo # <<>>, NEW x \in Rows, ReadRow(t, x)
      PROVE  f \notin Conflicts(Head(tab'[t].todo).base[r], Head(tab'[t].todo).patch, server'[r])
  <2>1. /\ tab[t].pc = "plan" /\ x \in Unread(t) /\ server' = server
      BY <1>6 DEF ReadRow
  <2>2. /\ tab'[t].todo = tab[t].todo
        /\ tab'[t].moved = tab[t].moved \ ({x} \X Fields)
        /\ tab'[t].clean \subseteq tab[t].clean \cup {x}
        /\ ~Decided(Current(t)) /\ x \in tab'[t].clean \ tab[t].clean =>
              Conflicts(Current(t).base[x], Current(t).patch, server[x]) = {}
      BY <1>2, <1>6, ReadRowFacts DEF TypeInv
  <2>3. Current(t) = Head(tab[t].todo) /\ ~Decided(Current(t))
      BY <1>1, <2>2 DEF Current
  <2>4. CASE r = x
    <3>1. x \notin tab[t].clean
        BY <2>1 DEF Unread
    <3>2. Conflicts(Current(t).base[x], Current(t).patch, server[x]) = {}
        BY <1>1, <2>2, <2>3, <2>4, <3>1
    <3> QED
        BY <2>1, <2>2, <2>3, <2>4, <3>2
  <2>5. CASE r # x
    <3>1. r \in tab[t].clean
        BY <1>1, <2>2, <2>5
    <3>2. <<r, f>> \notin {x} \X Fields
        BY <2>5
    <3>3. <<r, f>> \notin tab[t].moved
        BY <1>1, <2>2, <3>2
    <3>4. f \notin Conflicts(Current(t).base[r], Current(t).patch, server[r])
        BY <2>1, <2>3, <3>1, <3>3 DEF CleanInv, StillClean
    <3> QED
        BY <2>1, <2>2, <2>3, <3>4
  <2> QED
      BY <2>4, <2>5
<1>7. CASE tab'[t] = [tab[t] EXCEPT !.pc = "answered"]
    BY <1>1, <1>2, <1>7, SetAnswered
<1> QED
    BY <1>1, <1>2, <1>4, <1>5, <1>6, <1>7, EveryTabStep DEF TabStep

LEMMA DeliveringDelivers ==
    ASSUME TypeInv, [Next]_vars, NEW t \in Tabs, Delivering(t)
    PROVE  Deliver(t) /\ tab[t].todo # <<>>
<1>1. tab[t].pc = "plan" /\ tab'[t].pc = "answered"
    BY DEF Delivering
<1>2. CASE LeftAlone(t)
    BY <1>1, <1>2 DEF LeftAlone, SameFlush
<1>3. CASE Begun(t)
  <2>1. PICK todo \in Seq(Entry) : todo # <<>> /\ tab'[t] = EntriesLeft(todo)
      BY <1>3 DEF Begun
  <2>2. EntriesLeft(todo).pc = "plan"
      BY <2>1, FlushTypes
  <2> QED
      BY <1>1, <2>1, <2>2
<1>4. ASSUME tab[t].todo # <<>>, NEW x \in Rows, ReadRow(t, x)
      PROVE  FALSE
  <2>1. tab'[t].pc = "plan"
      BY <1>4, ReadRowFacts DEF TypeInv
  <2> QED
      BY <1>1, <2>1
<1> QED
    BY <1>1, <1>2, <1>3, <1>4, EveryTabStep DEF TabStep

(* A field a delivery changes held the base of the edit, as the server     *)
(* reads it back, unless it was written since the flush read the row.      *)
LEMMA DeliveryReplaces ==
    ASSUME OutboxInv, CleanInv, [Next]_vars, NEW t \in Tabs,
           Delivering(t), ~Decided(Current(t)), NEW u \in Changing \ tab[t].moved
    PROVE  \/ server[u[1]][u[2]] = Project(Current(t).base[u[1]][u[2]])
           \/ Current(t).base[u[1]][u[2]] = Current(t).patch[u[2]]
<1> DEFINE e == Current(t)
           r == u[1]
           f == u[2]
<1>1. TypeInv
    BY DEF OutboxInv
<1>2. Deliver(t) /\ tab[t].todo # <<>> /\ tab[t].pc = "plan"
    BY <1>1, DeliveringDelivers DEF Delivering
<1>3. e \in Entry /\ server \in [Rows -> Row]
    BY <1>1, <1>2, CurrentIsEntry DEF TypeInv, TypeOK
<1>4. r \in Rows /\ f \in Fields /\ u = <<r, f>> /\ server'[r][f] # server[r][f]
    BY DEF Changing
<1>5. e.base[r] \in Patch /\ e.patch \in Patch /\ server[r] \in Row
    BY <1>3, <1>4 DEF Entry
<1>6. Outgoing(t, r) = e.patch
  <2>1. \A g \in Fields : e.answer[g] # "theirs"
      BY DEF Decided, Unanswered
  <2>2. Outgoing(t, r) = [g \in Fields |-> e.patch[g]]
      BY <2>1 DEF Outgoing
  <2> QED
      BY <1>5, <2>2 DEF Patch
<1>7. r \in tab[t].clean /\ server'[r] = Overlay(server[r], e.patch)
    BY <1>2, <1>4, <1>6 DEF Deliver
<1>8. f \notin Conflicts(e.base[r], e.patch, server[r])
    BY <1>2, <1>4, <1>7 DEF CleanInv, StillClean
<1> HIDE DEF e, r, f
<1>9. CASE e.patch[f] # e.base[r][f]
  <2>1. server[r][f] = e.base[r][f]
      BY <1>4, <1>5, <1>7, <1>8, <1>9, CleanMergeReplacesBase
  <2>2. server[r][f] # Cleared
      BY <1>4, <1>5, DistinctMarks DEF Row, RowValues
  <2> QED
      BY <2>1, <2>2 DEF Project, e, r, f
<1>10. CASE e.patch[f] = e.base[r][f]
    BY <1>10 DEF e, r, f
<1> QED
    BY <1>9, <1>10

(* Nothing unseen is overwritten (planEdit, planBulk and the merge): an    *)
(* entry the user was not asked about replaces only the value its edit was *)
(* made against, or one written after the flush read the row, however many *)
(* tabs and devices write in between.                                      *)
THEOREM NothingUnseenIsReplaced == Spec => ReplacesKnown
<1>1. Init => CleanInv
  <2>1. ASSUME Init, NEW t \in Tabs
        PROVE  tab[t].pc = "idle"
      BY <2>1 DEF Init, NoFlush
  <2> QED
      BY <2>1 DEF CleanInv, StillClean
<1>2. OutboxInv /\ CleanInv /\ [Next]_vars => CleanInv'
    BY CleanStep
<1>3. OutboxInv /\ CleanInv /\ [Next]_vars =>
         [\A t \in Tabs : Delivering(t) /\ ~Decided(Current(t)) =>
             \A u \in Changing \ tab[t].moved :
                LET base == Current(t).base[u[1]][u[2]] IN
                \/ server[u[1]][u[2]] = Project(base)
                \/ base = Current(t).patch[u[2]]]_vars
    BY DeliveryReplaces
<1> QED
    BY <1>1, <1>2, <1>3, OutboxAlways, PTL DEF Spec, ReplacesKnown

=============================================================================
