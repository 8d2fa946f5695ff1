------------------------ MODULE RecurringTermsProofs ------------------------
(***************************************************************************)
(* The ranges of a series, for every number of series, days, accounts and  *)
(* requests in progress, whatever those requests are: ranges come to       *)
(* overlap, and a series to lose its last one, only through a handler that *)
(* decided on a list which has changed since; two views of a series agree  *)
(* and a change of value keeps the days before it.                         *)
(***************************************************************************)
EXTENDS RecurringTerms, WellFoundedInduction, FiniteSetTheorems, TLAPS

-----------------------------------------------------------------------------
(* Least and greatest start of a set of rows. *)

LEMMA MinExists ==
    ASSUME NEW T \in SUBSET Nat, T # {}
    PROVE  \E x \in T : \A y \in T : x <= y
<1> DEFINE R == {p \in Nat \X Nat : p[1] < p[2]}
<1>1. IsWellFoundedOn(R, Nat)
    BY NatLessThanWellFounded, Zenon DEF OpToRel
<1>2. PICK x \in T : \A y \in T : ~(<<y, x>> \in R)
    BY <1>1, WFMin, Zenon
<1>3. ASSUME NEW y \in T PROVE x <= y
  <2>1. x \in Nat /\ y \in Nat
    OBVIOUS
  <2>2. <<y, x>> \notin R
    BY <1>2, Zenon
  <2>3. ~(y < x)
    BY <2>1, <2>2, SMT
  <2> QED
    BY <2>1, <2>3, SMT
<1> QED
    BY <1>3

LEMMA DaysAreNumbers == Days \subseteq Nat /\ Ends \subseteq Nat /\ Horizon \in Nat /\ Horizon >= 1
BY HorizonAssumption DEF Days, Ends

LEMMA DaysAreIntegers ==
    /\ \A d \in Days : d \in Int
    /\ \A e \in Ends : e \in Int
    /\ \A t \in Row : t.start \in Int /\ t.end \in Int
<1>1. (\A d \in Days : d \in Int) /\ (\A e \in Ends : e \in Int)
    BY HorizonAssumption DEF Days, Ends
<1> QED
    BY <1>1 DEF Row

LEMMA EarliestIsFirst ==
    ASSUME NEW rows \in SUBSET Row, rows # {}
    PROVE  /\ Earliest(rows) \in rows
           /\ \A u \in rows : Earliest(rows).start <= u.start
<1> DEFINE T == {t.start : t \in rows}
<1>1. T \in SUBSET Nat /\ T # {}
    BY DaysAreNumbers DEF Row
<1>2. PICK x \in T : \A y \in T : x <= y
    BY <1>1, MinExists
<1>3. \E t \in rows : \A u \in rows : t.start <= u.start
    BY <1>2
<1> QED
    BY <1>3 DEF Earliest

LEMMA LatestIsLast ==
    ASSUME NEW rows \in SUBSET Row, rows # {}
    PROVE  /\ Latest(rows) \in rows
           /\ \A u \in rows : u.start <= Latest(rows).start
<1> DEFINE T == {Horizon - t.start : t \in rows}
<1>0. \A t \in rows : t.start \in Nat /\ Horizon \in Nat /\ t.start < Horizon
    BY HorizonAssumption DEF Row, Days
<1>1. T \in SUBSET Nat /\ T # {}
    BY <1>0
<1>2. PICK x \in T : \A y \in T : x <= y
    BY <1>1, MinExists
<1>3. PICK t \in rows : x = Horizon - t.start
    BY <1>2
<1>4. ASSUME NEW u \in rows
      PROVE  u.start <= t.start
  <2>1. Horizon - t.start <= Horizon - u.start
    BY <1>2, <1>3
  <2> QED
    BY <1>0, <2>1
<1> QED
    BY <1>4 DEF Latest

(* A change from eff ends after eff, and no later than any range it read    *)
(* that starts after eff.                                                  *)
LEMMA UntilIsNext ==
    ASSUME NEW rows \in SUBSET Row, NEW eff \in Days
    PROVE  /\ Until(rows, eff) \in Ends
           /\ eff < Until(rows, eff)
           /\ \A u \in rows : eff < u.start => Until(rows, eff) <= u.start
<1>1. CASE After(rows, eff) = {}
    BY <1>1, HorizonAssumption DEF Until, After, Open, Days, Ends
<1>2. CASE After(rows, eff) # {}
  <2>1. After(rows, eff) \in SUBSET Row
    BY DEF After
  <2>2. /\ Earliest(After(rows, eff)) \in After(rows, eff)
        /\ \A u \in After(rows, eff) : Earliest(After(rows, eff)).start <= u.start
    BY <1>2, <2>1, EarliestIsFirst
  <2> QED
    BY <1>2, <2>2, HorizonAssumption DEF Until, After, Row, Days, Ends
<1> QED
    BY <1>1, <1>2

(* The range a change cuts is one of those read, covers eff, and is there   *)
(* whenever some range covers eff.                                         *)
LEMMA CoveredCovers ==
    ASSUME NEW rows \in SUBSET Row, NEW eff \in Days
    PROVE  /\ Covered(rows, eff) \subseteq rows
           /\ \A c \in Covered(rows, eff) : c.start <= eff /\ eff < c.end
           /\ \A u \in rows : u.start <= eff /\ eff < u.end => Covered(rows, eff) # {}
<1>1. CASE Covering(rows, eff) = {}
    BY <1>1 DEF Covered, Covering
<1>2. CASE Covering(rows, eff) # {}
  <2>1. Latest(Covering(rows, eff)) \in Covering(rows, eff)
    BY <1>2, LatestIsLast DEF Covering
  <2> QED
    BY <1>2, <2>1 DEF Covered, Covering
<1> QED
    BY <1>1, <1>2

(* The rows stored for a list of ranges: of the series, with fresh ids that *)
(* tell them apart, each with the days and value of a range of the list.   *)
LEMMA RowsForList ==
    ASSUME NEW G \in Lists, NEW s \in Series, NEW rows \in RowsFor(G, s)
    PROVE  /\ rows \subseteq Row
           /\ \A x \in rows : x.series = s /\ x.id \in FreeIds
           /\ \A x, y \in rows : x.id = y.id => x = y
           /\ ValidList(G) => /\ rows # {}
                              /\ \A x \in rows : x.start < x.end
                              /\ \A x, y \in rows : x.id # y.id => ~Overlap(x, y)
<1>1. PICK f \in [G -> FreeIds] :
          /\ \A a, b \in G : a # b => f[a] # f[b]
          /\ rows = {ToRow(f[g], s, g) : g \in G}
    BY DEF RowsFor
<1>2. G \subseteq Body
    BY ListsAssumption
<1>3. \A x \in rows : \E g \in G : x = ToRow(f[g], s, g)
    BY <1>1
<1>4. ASSUME NEW g \in G
      PROVE  /\ ToRow(f[g], s, g) \in Row
             /\ ToRow(f[g], s, g).series = s
             /\ ToRow(f[g], s, g).id = f[g] /\ f[g] \in FreeIds
             /\ ToRow(f[g], s, g).start = g.start
             /\ ToRow(f[g], s, g).end = g.end
    BY <1>2 DEF ToRow, Row, Body, FreeIds
<1>5. rows \subseteq Row /\ \A x \in rows : x.series = s /\ x.id \in FreeIds
    BY <1>3, <1>4
<1>6. ASSUME NEW x \in rows, NEW y \in rows, x.id = y.id
      PROVE  x = y
  <2>1. PICK g \in G : x = ToRow(f[g], s, g)
    BY <1>3
  <2>2. PICK h \in G : y = ToRow(f[h], s, h)
    BY <1>3
  <2>3. f[g] = f[h]
    BY <1>4, <1>6, <2>1, <2>2
  <2>4. g = h
    BY <1>1, <2>3
  <2> QED
    BY <2>1, <2>2, <2>4
<1>7. ASSUME ValidList(G)
      PROVE  /\ rows # {}
             /\ \A x \in rows : x.start < x.end
             /\ \A x, y \in rows : x.id # y.id => ~Overlap(x, y)
  <2>1. rows # {}
    BY <1>1, <1>7 DEF ValidList
  <2>2. ASSUME NEW x \in rows PROVE x.start < x.end
    BY <1>3, <1>4, <1>7 DEF ValidList
  <2>3. ASSUME NEW x \in rows, NEW y \in rows, x.id # y.id
        PROVE  ~Overlap(x, y)
    <3>1. PICK g \in G : x = ToRow(f[g], s, g)
      BY <1>3
    <3>2. PICK h \in G : y = ToRow(f[h], s, h)
      BY <1>3
    <3>3. g # h
      BY <1>4, <2>3, <3>1, <3>2
    <3>4. ~Overlap(g, h)
      BY <1>7, <3>3 DEF ValidList
    <3> QED
      BY <1>4, <3>1, <3>2, <3>4 DEF Overlap
  <2> QED
    BY <2>1, <2>2, <2>3
<1> QED
    BY <1>5, <1>6, <1>7

(* The value a change writes is an amount of a range, or nothing's.         *)
LEMMA MergedAmount ==
    ASSUME NEW rows \in SUBSET Row,
           NEW v \in Values
    PROVE  Merged(rows, v).amount \in Amounts \cup {0}
<1>1. CASE rows = {}
    BY <1>1, ValuesAssumption DEF Merged, Current
<1>2. CASE rows # {}
  <2>1. Covering(rows, Today) \in SUBSET rows /\ UpTo(rows, Today) \in SUBSET rows
    BY DEF Covering, UpTo
  <2>2. TermAt(rows, Today) \in rows
    BY <1>2, <2>1, EarliestIsFirst, LatestIsLast DEF TermAt
  <2>3. TermAt(rows, Today).amount \in Amounts \cup {0}
    BY <2>2 DEF Row
  <2> QED
    BY <1>2, <2>3, ValuesAssumption DEF Merged, Current, Derived
<1> QED
    BY <1>1, <1>2

-----------------------------------------------------------------------------
(* Types. *)

LEMMA IdleIsRequest ==
    Idle \in [op : Ops \cup {"none"}, series : Series \cup {NoSeries}, seen : SUBSET Row]
BY DEF Idle

(* Every step leaves rows, series, accounts and requests of their types.    *)
LEMMA TypeStep ==
    ASSUME TypeOK, [Next]_vars
    PROVE  TypeOK'
<1> USE DEF TypeOK
<1>1. ASSUME NEW r \in Requests, NEW o \in Ops \ {"deleteAccount"}, NEW s \in Series,
             Load(r, o, s)
      PROVE  TypeOK'
    BY <1>1 DEF Load, Of
<1>2. ASSUME NEW r \in Requests, StartDeleteAccount(r)
      PROVE  TypeOK'
    BY <1>2 DEF StartDeleteAccount, Ops
<1>3. ASSUME NEW r \in Requests, Answer(r)
      PROVE  req' \in [Requests -> [op : Ops \cup {"none"},
                                    series : Series \cup {NoSeries}, seen : SUBSET Row]]
    BY <1>3, IdleIsRequest DEF Answer
<1>4. ASSUME NEW r \in Requests, Fail(r)
      PROVE  TypeOK'
    BY <1>3, <1>4 DEF Fail
<1>5. ASSUME NEW r \in Requests, NEW g \in Ranges, CreateRecurringTerm(r, g)
      PROVE  TypeOK'
  <2>1. ASSUME NEW i \in FreeIds
        PROVE  ToRow(i, req[r].series, g) \in Row
    BY <1>5, RangesAssumption DEF CreateRecurringTerm, ToRow, Row, Body, FreeIds
  <2> QED
    BY <1>3, <1>5, <2>1 DEF CreateRecurringTerm
<1>6. ASSUME NEW r \in Requests, NEW i \in Ids, NEW g \in Ranges,
             UpdateRecurringTerm(r, i, g)
      PROVE  TypeOK'
  <2>1. i \in IdsOf(Of(terms, req[r].series))
    BY <1>6 DEF UpdateRecurringTerm
  <2>2. req[r].series \in Series
    BY <2>1 DEF IdsOf, Of, Row
  <2>3. ToRow(i, req[r].series, g) \in Row
    BY <2>2, RangesAssumption DEF ToRow, Row, Body
  <2> QED
    BY <1>3, <1>6, <2>3 DEF UpdateRecurringTerm
<1>7. ASSUME NEW r \in Requests, NEW i \in Ids, DeleteRecurringTerm(r, i)
      PROVE  TypeOK'
    BY <1>3, <1>7 DEF DeleteRecurringTerm
<1>8. ASSUME NEW r \in Requests, NEW G \in Lists, ReplaceRanges(r, G)
      PROVE  TypeOK'
  <2>1. req[r].series \in Series
    BY <1>8 DEF ReplaceRanges
  <2> QED
    BY <1>3, <1>8, <2>1, RowsForList DEF ReplaceRanges, Kept
<1>9. ASSUME NEW r \in Requests, NEW eff \in Days,
             NEW v \in Values,
             ChangeInPlace(r, eff, v)
      PROVE  TypeOK'
  <2> DEFINE new == Merged(req[r].seen, v)
  <2>1. new.amount \in Amounts \cup {0} /\ new.account \in Accounts
    BY <1>9, MergedAmount DEF ChangeInPlace, Changes
  <2>2. ASSUME NEW t \in terms
        PROVE  [t EXCEPT !.amount = new.amount, !.account = new.account] \in Row
    BY <2>1 DEF Row
  <2>3. terms' \subseteq Row
    BY <1>9, <2>2 DEF ChangeInPlace
  <2> QED
    BY <1>3, <1>9, <2>3 DEF ChangeInPlace
<1>10. ASSUME NEW r \in Requests, NEW eff \in Days,
              NEW v \in Values,
              ChangeFrom(r, eff, v)
       PROVE  TypeOK'
  <2> DEFINE seen == req[r].seen
             new == Merged(seen, v)
             g == [start |-> eff, end |-> Until(seen, eff),
                   amount |-> new.amount, account |-> new.account]
             closed == {IF t.id \in IdsOf(Covered(seen, eff)) THEN [t EXCEPT !.end = eff]
                        ELSE t : t \in terms}
  <2>0. seen \in SUBSET Row
    OBVIOUS
  <2>1. /\ new.amount \in Amounts \cup {0} /\ new.account \in Accounts
        /\ req[r].series \in Series
    BY <1>10, <2>0, MergedAmount DEF ChangeFrom, Changes
  <2>2. ASSUME NEW i \in FreeIds
        PROVE  ToRow(i, req[r].series, g) \in Row
    BY <2>0, <2>1, UntilIsNext DEF ToRow, Row, FreeIds
  <2>3. ASSUME NEW t \in terms, t.id \in IdsOf(Covered(seen, eff))
        PROVE  [t EXCEPT !.end = eff] \in Row
    <3>1. PICK c \in Covered(seen, eff) : TRUE
      BY <2>3 DEF IdsOf
    <3>2. c.start <= eff /\ c.start # eff /\ c.start \in Days
      BY <1>10, <2>0, <3>1, CoveredCovers DEF ChangeFrom, Row
    <3>3. eff \in Ends
      BY <3>2, HorizonAssumption DEF Days, Ends
    <3> QED
      BY <3>3 DEF Row
  <2>4. closed \subseteq Row
    BY <2>3
  <2>5. \E i \in FreeIds : terms' = closed \cup {ToRow(i, req[r].series, g)}
    BY <1>10 DEF ChangeFrom
  <2>6. terms' \subseteq Row
    BY <2>2, <2>4, <2>5
  <2> QED
    BY <1>3, <1>10, <2>6 DEF ChangeFrom
<1>11. ASSUME NEW r \in Requests, NEW a \in Accounts, DeleteAccount(r, a)
       PROVE  TypeOK'
    BY <1>3, <1>11 DEF DeleteAccount
<1>12. ASSUME NEW s \in Series, NEW G \in Lists, CreateSeries(s, G)
       PROVE  TypeOK'
    BY <1>12, RowsForList DEF CreateSeries
<1>13. ASSUME NEW s \in Series, DeleteSeries(s)
       PROVE  TypeOK'
    BY <1>13 DEF DeleteSeries
<1>14. ASSUME NEW a \in Accounts, CreateAccount(a)
       PROVE  TypeOK'
    BY <1>14 DEF CreateAccount
<1>15. CASE UNCHANGED vars
    BY <1>15 DEF vars
<1> QED
    BY <1>1, <1>2, <1>4, <1>5, <1>6, <1>7, <1>8, <1>9, <1>10, <1>11, <1>12, <1>13,
       <1>14, <1>15 DEF Next, Handle

(* Rows, requests, series and accounts keep their types.                    *)
THEOREM TypeCorrect == Spec => []TypeOK
<1>1. Init => TypeOK
    BY IdleIsRequest DEF Init, TypeOK
<1> QED
    BY <1>1, TypeStep, PTL DEF Spec

-----------------------------------------------------------------------------
(* The stored rows and the lists that were read.                           *)

\* The primary key of the rows of a table or of a list read from it.
IdKey(rows) == \A t, u \in rows : t.id = u.id => t = u

\* A list read for one series holds rows of that series.
SeenRows ==
    \A r \in Requests :
        /\ IdKey(req[r].seen)
        /\ req[r].op # "deleteAccount" => \A t \in req[r].seen : t.series = req[r].series

\* A row keeps its series; an id that was read is not given to another row.
SeenSeries ==
    \A r \in Requests : \A t \in terms, u \in req[r].seen :
        t.id = u.id => t.series = u.series

RowsInv == TypeOK /\ IdKey(terms) /\ SeenRows /\ SeenSeries

(* Removing rows and ending requests disturbs nothing.                      *)
LEMMA FewerRows ==
    ASSUME RowsInv, TypeOK', terms' \subseteq terms,
           \A q \in Requests : req'[q] = req[q] \/ req'[q] = Idle
    PROVE  RowsInv'
<1>1. Idle.seen = {}
    BY DEF Idle
<1>2. IdKey(terms)'
    BY DEF RowsInv, IdKey
<1>3. SeenRows'
    BY <1>1 DEF RowsInv, SeenRows, IdKey
<1>4. SeenSeries'
    BY <1>1 DEF RowsInv, SeenSeries
<1> QED
    BY <1>2, <1>3, <1>4 DEF RowsInv

(* A row written by a request that ends has an id of its own or replaces a  *)
(* row of its series.                                                      *)
LEMMA WriterEnds ==
    ASSUME RowsInv, TypeOK', NEW r \in Requests, Answer(r), IdKey(terms)',
           \A t \in terms' : \/ t.id \in FreeIds
                             \/ \E u \in terms : u.id = t.id /\ u.series = t.series
    PROVE  RowsInv'
<1>1. Idle.seen = {}
    BY DEF Idle
<1>2. \A q \in Requests : req'[q] = IF q = r THEN Idle ELSE req[q]
    BY DEF Answer, RowsInv, TypeOK
<1>3. SeenRows'
    BY <1>1, <1>2 DEF RowsInv, SeenRows, IdKey
<1>4. ASSUME NEW q \in Requests, NEW t \in terms', NEW u \in req'[q].seen, t.id = u.id
      PROVE  t.series = u.series
  <2>1. u \in req[q].seen
    BY <1>1, <1>2, <1>4
  <2>2. t.id \notin FreeIds
    BY <1>4, <2>1 DEF FreeIds, Referred, IdsOf
  <2>3. PICK v \in terms : v.id = t.id /\ v.series = t.series
    BY <2>2
  <2> QED
    BY <1>4, <2>1, <2>3 DEF RowsInv, SeenSeries
<1>5. SeenSeries'
    BY <1>4 DEF SeenSeries
<1> QED
    BY <1>3, <1>5 DEF RowsInv

LEMMA LoadKeepsRows ==
    ASSUME RowsInv, TypeOK', NEW r \in Requests, NEW o \in Ops, NEW s \in Series,
           Load(r, o, s)
    PROVE  RowsInv'
<1>1. \A q \in Requests :
        req'[q] = IF q = r THEN [op |-> o, series |-> s, seen |-> Of(terms, s)]
                  ELSE req[q]
    BY DEF Load, RowsInv, TypeOK
<1>2. terms' = terms
    BY DEF Load
<1>3. (\A t \in Of(terms, s) : t.series = s) /\ IdKey(Of(terms, s))
    BY DEF RowsInv, Of, IdKey
<1>4. ASSUME NEW q \in Requests
      PROVE  /\ \A t, u \in req'[q].seen : t.id = u.id => t = u
             /\ req'[q].op # "deleteAccount" =>
                   \A t \in req'[q].seen : t.series = req'[q].series
  <2>1. CASE q = r
    BY <1>1, <1>3, <2>1 DEF IdKey
  <2>2. CASE q # r
    BY <1>1, <2>2 DEF RowsInv, SeenRows, IdKey
  <2> QED
    BY <2>1, <2>2
<1>5. SeenRows'
    BY <1>4 DEF SeenRows, IdKey
<1>6. ASSUME NEW q \in Requests, NEW t \in terms, NEW u \in req'[q].seen, t.id = u.id
      PROVE  t.series = u.series
  <2>1. CASE q = r
    <3>1. req'[r].seen = Of(terms, s)
      BY <1>1
    <3>2. u \in terms
      BY <2>1, <3>1 DEF Of
    <3> QED
      BY <1>6, <3>2 DEF RowsInv, IdKey
  <2>2. CASE q # r
    BY <1>1, <1>6, <2>2 DEF RowsInv, SeenSeries
  <2> QED
    BY <2>1, <2>2
<1>7. SeenSeries'
    BY <1>2, <1>6 DEF SeenSeries
<1> QED
    BY <1>2, <1>5, <1>7 DEF RowsInv, IdKey

LEMMA StartDeleteKeepsRows ==
    ASSUME RowsInv, TypeOK', NEW r \in Requests, StartDeleteAccount(r)
    PROVE  RowsInv'
<1>1. \A q \in Requests :
        req'[q] = IF q = r THEN [op |-> "deleteAccount", series |-> NoSeries, seen |-> terms]
                  ELSE req[q]
    BY DEF StartDeleteAccount, RowsInv, TypeOK
<1>2. terms' = terms
    BY DEF StartDeleteAccount
<1>3. SeenRows'
    BY <1>1 DEF SeenRows, RowsInv, IdKey
<1>4. SeenSeries'
    BY <1>1, <1>2 DEF SeenSeries, IdKey, RowsInv
<1> QED
    BY <1>2, <1>3, <1>4 DEF RowsInv, IdKey

-----------------------------------------------------------------------------
(* No new overlap.                                                         *)
(*                                                                         *)
(* A writer decides on the list it read, which is sound when that list has *)
(* every range stored for its series: removals only make it larger than    *)
(* what is stored.  The ranges of the other series do not come closer      *)
(* whatever it read.                                                       *)

\* A series overlaps after r's step only if it is r's and r did not know it.
OnlyBy(r) ==
    \A s \in Series :
        Apart(Of(terms, s)) /\ (req[r].series = s => Knows(r)) => Apart(Of(terms', s))

(* One fresh row beside rows it does not overlap.                          *)
LEMMA FreshRow ==
    ASSUME NEW rows, Apart(rows), NEW n, n.start < n.end,
           \A t \in rows : ~Overlap(t, n)
    PROVE  Apart(rows \cup {n})
BY DEF Apart, Overlap

LEMMA FreshKey ==
    ASSUME NEW rows, IdKey(rows), NEW n, n.id \notin IdsOf(rows)
    PROVE  IdKey(rows \cup {n})
BY DEF IdKey, IdsOf

LEMMA FewerApart ==
    ASSUME NEW rows, NEW fewer, fewer \subseteq rows, Apart(rows)
    PROVE  Apart(fewer)
BY DEF Apart

LEMMA AddKeepsApart ==
    ASSUME RowsInv, TypeOK', NEW r \in Requests, NEW g \in Ranges,
           CreateRecurringTerm(r, g)
    PROVE  RowsInv' /\ OnlyBy(r)
<1>1. PICK i \in FreeIds : terms' = terms \cup {ToRow(i, req[r].series, g)}
    BY DEF CreateRecurringTerm
<1>2. PICK n : n = ToRow(i, req[r].series, g)
    OBVIOUS
<1>3. /\ n.id = i /\ n.series = req[r].series
      /\ n.start = g.start /\ n.end = g.end /\ n.start < n.end
    BY <1>2 DEF ToRow, CreateRecurringTerm
<1>4. Answer(r)
    BY DEF CreateRecurringTerm
<1>5. ASSUME Knows(r), NEW t \in Of(terms, req[r].series)
      PROVE  ~Overlap(t, n)
  <2>1. t \in req[r].seen
    BY <1>5 DEF Knows
  <2>2. ~Overlap(t, g)
    BY <2>1 DEF CreateRecurringTerm, Clashes
  <2> QED
    BY <1>3, <2>2 DEF Overlap
<1>6. n.id \notin IdsOf(terms)
    BY <1>3 DEF FreeIds, Referred, IdsOf
<1>7. terms' = terms \cup {n}
    BY <1>1, <1>2
<1>8. IdKey(terms)'
  <2>1. IdKey(terms \cup {n})
    BY <1>6, FreshKey DEF RowsInv
  <2> QED
    BY <1>7, <2>1 DEF IdKey
<1>9. \A t \in terms' : \/ t.id \in FreeIds
                        \/ \E u \in terms : u.id = t.id /\ u.series = t.series
    BY <1>3, <1>7
<1>10. ASSUME NEW s \in Series, Apart(Of(terms, s)), req[r].series = s => Knows(r)
       PROVE  Apart(Of(terms', s))
  <2>1. CASE s = req[r].series
    <3>1. Of(terms', s) = Of(terms, s) \cup {n}
      BY <1>3, <1>7, <2>1 DEF Of
    <3>2. Apart(Of(terms, s) \cup {n})
      BY <1>3, <1>5, <1>10, <2>1, FreshRow
    <3> QED
      BY <3>1, <3>2
  <2>2. CASE s # req[r].series
    <3>1. Of(terms', s) = Of(terms, s)
      BY <1>3, <1>7, <2>2 DEF Of
    <3> QED
      BY <1>10, <3>1
  <2> QED
    BY <2>1, <2>2
<1> QED
    BY <1>4, <1>8, <1>9, <1>10, WriterEnds DEF OnlyBy

LEMMA EditKeepsApart ==
    ASSUME RowsInv, TypeOK', NEW r \in Requests, NEW i \in Ids, NEW g \in Ranges,
           UpdateRecurringTerm(r, i, g)
    PROVE  RowsInv' /\ OnlyBy(r)
<1> DEFINE others == {t \in terms : t.id # i}
<1>1. PICK n : n = ToRow(i, req[r].series, g)
    OBVIOUS
<1>2. /\ n.id = i /\ n.series = req[r].series
      /\ n.start = g.start /\ n.end = g.end /\ n.start < n.end
    BY <1>1 DEF ToRow, UpdateRecurringTerm
<1>3. Answer(r)
    BY DEF UpdateRecurringTerm
<1>4. ASSUME Knows(r), NEW t \in Of(others, req[r].series)
      PROVE  ~Overlap(t, n)
  <2>1. t \in req[r].seen /\ t.id # i
    BY <1>4 DEF Knows, Of
  <2>2. ~Overlap(t, g)
    BY <2>1 DEF UpdateRecurringTerm, Clashes
  <2> QED
    BY <1>2, <2>2 DEF Overlap
<1>5. n.id \notin IdsOf(others) /\ IdKey(others)
    BY <1>2 DEF IdsOf, IdKey, RowsInv
<1>6. terms' = others \cup {n}
    BY <1>1 DEF UpdateRecurringTerm
<1>7. IdKey(terms)'
  <2> HIDE DEF others
  <2>1. IdKey(others \cup {n})
    BY <1>5, FreshKey
  <2> QED
    BY <1>6, <2>1 DEF IdKey
<1>8. \E u \in terms : u.id = i /\ u.series = req[r].series
    BY DEF UpdateRecurringTerm, IdsOf, Of
<1>9. \A t \in terms' : \/ t.id \in FreeIds
                        \/ \E u \in terms : u.id = t.id /\ u.series = t.series
    BY <1>2, <1>6, <1>8
<1>10. ASSUME NEW s \in Series, Apart(Of(terms, s)), req[r].series = s => Knows(r)
       PROVE  Apart(Of(terms', s))
  <2>1. Of(others, s) \subseteq Of(terms, s)
    BY DEF Of
  <2>2. Apart(Of(others, s))
    BY <1>10, <2>1, FewerApart
  <2> HIDE DEF others
  <2>3. CASE s = req[r].series
    <3>1. Of(terms', s) = Of(others, s) \cup {n}
      BY <1>2, <1>6, <2>3 DEF Of
    <3>2. Apart(Of(others, s) \cup {n})
      BY <1>2, <1>4, <1>10, <2>2, <2>3, FreshRow
    <3> QED
      BY <3>1, <3>2
  <2>4. CASE s # req[r].series
    <3>1. Of(terms', s) = Of(others, s)
      BY <1>2, <1>6, <2>4 DEF Of
    <3> QED
      BY <2>2, <3>1
  <2> QED
    BY <2>3, <2>4
<1> QED
    BY <1>3, <1>7, <1>9, <1>10, WriterEnds DEF OnlyBy

LEMMA ReplaceKeepsApart ==
    ASSUME RowsInv, TypeOK', NEW r \in Requests, NEW G \in Lists,
           ReplaceRanges(r, G)
    PROVE  RowsInv' /\ OnlyBy(r)
<1>0. PICK s : s = req[r].series
    OBVIOUS
<1>2. Answer(r) /\ ValidList(G) /\ s \in Series
    BY <1>0 DEF ReplaceRanges, RowsInv, TypeOK
<1>1. PICK rows \in RowsFor(G, s) : terms' = Kept(r) \cup rows
    BY <1>0 DEF ReplaceRanges
<1>3. /\ \A x \in rows : x.series = s /\ x.id \in FreeIds /\ x.start < x.end
      /\ \A x, y \in rows : x.id = y.id => x = y
      /\ \A x, y \in rows : x.id # y.id => ~Overlap(x, y)
    BY <1>2, RowsForList
<1>4. Kept(r) \subseteq terms
    BY DEF Kept
<1>5. \A t \in terms : t.id \notin FreeIds
    BY DEF FreeIds, Referred, IdsOf
<1>6. IdKey(terms)'
    BY <1>1, <1>3, <1>4, <1>5 DEF RowsInv, IdKey
<1>7. \A t \in terms' : \/ t.id \in FreeIds
                        \/ \E u \in terms : u.id = t.id /\ u.series = t.series
    BY <1>1, <1>3, <1>4
<1>8. ASSUME NEW z \in Series, Apart(Of(terms, z)), req[r].series = z => Knows(r)
      PROVE  Apart(Of(terms', z))
  <2>1. CASE z = s
    <3>1. \A t \in Of(terms, s) : t \in req[r].seen
      BY <1>0, <1>8, <2>1 DEF Knows
    <3>2. \A t \in Kept(r) : t.series # s
      BY <3>1 DEF Kept, Of, IdsOf
    <3>3. Of(terms', z) = rows
      BY <1>1, <1>3, <2>1, <3>2 DEF Of
    <3> QED
      BY <1>3, <3>3 DEF Apart
  <2>2. CASE z # s
    <3>1. Of(terms', z) \subseteq Of(terms, z)
      BY <1>1, <1>3, <1>4, <2>2 DEF Of
    <3> QED
      BY <1>8, <3>1, FewerApart
  <2> QED
    BY <2>1, <2>2
<1> QED
    BY <1>2, <1>6, <1>7, <1>8, WriterEnds DEF OnlyBy

LEMMA InPlaceKeepsApart ==
    ASSUME RowsInv, TypeOK', NEW r \in Requests, NEW eff \in Days,
           NEW v \in Values, ChangeInPlace(r, eff, v)
    PROVE  RowsInv' /\ OnlyBy(r)
<1> DEFINE new == Merged(req[r].seen, v)
           Over(c, t) == IF t.id = c.id
                         THEN [t EXCEPT !.amount = new.amount, !.account = new.account]
                         ELSE t
<1>1. PICK c \in Covered(req[r].seen, eff) : terms' = {Over(c, t) : t \in terms}
    BY DEF ChangeInPlace
<1>2. Answer(r)
    BY DEF ChangeInPlace
<1>3. ASSUME NEW t \in terms
      PROVE  /\ Over(c, t).id = t.id /\ Over(c, t).series = t.series
             /\ Over(c, t).start = t.start /\ Over(c, t).end = t.end
    BY DEF RowsInv, TypeOK, Row
<1> HIDE DEF Over
<1>4. IdKey(terms)'
    BY <1>1, <1>3 DEF RowsInv, IdKey
<1>5. ASSUME NEW s \in Series, Apart(Of(terms, s))
      PROVE  Apart(Of(terms', s))
  <2>1. \A x \in Of(terms', s) : \E t \in Of(terms, s) :
            x.id = t.id /\ x.start = t.start /\ x.end = t.end
    BY <1>1, <1>3 DEF Of
  <2> QED
    BY <1>5, <2>1 DEF Apart, Overlap
<1>6. \A t \in terms' : \E u \in terms : u.id = t.id /\ u.series = t.series
    BY <1>1, <1>3
<1> QED
    BY <1>2, <1>4, <1>5, <1>6, WriterEnds DEF OnlyBy

(* The range that covers eff is cut there; every other range of the series *)
(* ends by eff or starts where the new one is over.                        *)
LEMMA ChangeKeepsApart ==
    ASSUME RowsInv, TypeOK', NEW r \in Requests, NEW eff \in Days,
           NEW v \in Values, ChangeFrom(r, eff, v)
    PROVE  RowsInv' /\ OnlyBy(r)
<1> DEFINE s == req[r].series
           seen == req[r].seen
           new == Merged(seen, v)
           g == [start |-> eff, end |-> Until(seen, eff),
                 amount |-> new.amount, account |-> new.account]
           Cut(t) == IF t.id \in IdsOf(Covered(seen, eff)) THEN [t EXCEPT !.end = eff]
                     ELSE t
           closed == {Cut(t) : t \in terms}
<1>1. PICK i \in FreeIds : terms' = closed \cup {ToRow(i, s, g)}
    BY DEF ChangeFrom
<1>2. PICK n : n = ToRow(i, s, g)
    OBVIOUS
<1>3. seen \in SUBSET Row
    BY DEF RowsInv, TypeOK
<1>4. /\ n.id = i /\ n.series = s /\ n.start = eff /\ n.end = Until(seen, eff)
      /\ n.start < n.end
    BY <1>2, <1>3, UntilIsNext DEF ToRow
<1>5. Answer(r) /\ req[r].op = "change"
    BY DEF ChangeFrom, Changes
<1>6. IdKey(seen) /\ \A t \in seen : t.series = s
    BY <1>5 DEF RowsInv, SeenRows
<1>7. /\ Covered(seen, eff) \subseteq seen
      /\ \A c \in Covered(seen, eff) : c.start < eff /\ eff < c.end
      /\ \A u \in seen : u.start <= eff /\ eff < u.end => Covered(seen, eff) # {}
  <2>1. \A c \in Covered(seen, eff) : c.start # eff
    BY DEF ChangeFrom
  <2>2. \A c \in seen : c.start \in Int /\ eff \in Int
    BY <1>3, DaysAreIntegers
  <2> QED
    BY <1>3, <2>1, <2>2, CoveredCovers
<1>8. ASSUME NEW t \in terms
      PROVE  /\ Cut(t).id = t.id /\ Cut(t).series = t.series /\ Cut(t).start = t.start
             /\ t.id \in IdsOf(Covered(seen, eff)) => Cut(t).end = eff
             /\ t.id \notin IdsOf(Covered(seen, eff)) => Cut(t) = t
    BY DEF RowsInv, TypeOK, Row
\* Rows of other series are left alone.
<1>9. ASSUME NEW t \in terms, t.series # s
      PROVE  Cut(t) = t
  <2>1. t.id \notin IdsOf(Covered(seen, eff))
    <3>1. SUFFICES ASSUME NEW c \in Covered(seen, eff), t.id = c.id PROVE FALSE
      BY DEF IdsOf
    <3> QED
      BY <1>6, <1>7, <1>9, <3>1 DEF RowsInv, SeenSeries
  <2> QED
    BY <1>8, <2>1
<1>10. ASSUME Knows(r), Apart(Of(terms, s)) PROVE Apart(Of(terms', s))
  <2>1. (\A t \in terms : t.series = s => t \in seen) /\ Apart(seen)
    BY <1>10 DEF Knows, Of
  \* A stored row that is cut is the very row that was read.
  <2>2. ASSUME NEW t \in terms, t.series = s, t.id \in IdsOf(Covered(seen, eff))
        PROVE  t \in Covered(seen, eff)
    <3>1. PICK c \in Covered(seen, eff) : t.id = c.id
      BY <2>2 DEF IdsOf
    <3>2. t = c
      BY <1>6, <1>7, <2>1, <2>2, <3>1 DEF IdKey
    <3> QED
      BY <3>1, <3>2
  <2>3. ASSUME NEW t \in terms, t.series = s
        PROVE  Cut(t).end <= t.end /\ Cut(t).start < Cut(t).end /\ Cut(t).end \in Int
    <3>1. t.start < t.end /\ t.end \in Int /\ eff \in Int
      BY <2>1, <2>3, <1>3, DaysAreIntegers DEF Apart
    <3>2. CASE t.id \in IdsOf(Covered(seen, eff))
      <4>1. t.start < eff /\ eff < t.end
        BY <1>7, <2>2, <2>3, <3>2
      <4> QED
        BY <1>8, <3>1, <3>2, <4>1
    <3>3. CASE t.id \notin IdsOf(Covered(seen, eff))
      BY <1>8, <3>1, <3>3
    <3> QED
      BY <3>2, <3>3
  \* The new range and a stored range of the series.
  <2>4. ASSUME NEW t \in terms, t.series = s
        PROVE  ~Overlap(Cut(t), n)
    <3>1. /\ t \in seen /\ t.start \in Int /\ t.end \in Int /\ eff \in Int
          /\ Until(seen, eff) \in Int /\ t.start < t.end
      BY <1>3, <2>1, <2>4, UntilIsNext, DaysAreIntegers DEF Apart
    <3>2. CASE t \in Covered(seen, eff)
      <4>1. Cut(t).end = eff
        BY <1>8, <3>2 DEF IdsOf
      <4> QED
        BY <1>4, <3>1, <4>1 DEF Overlap
    <3>3. CASE t \notin Covered(seen, eff) /\ t.start <= eff
      <4>1. t.end <= eff
        <5>1. SUFFICES ASSUME eff < t.end PROVE FALSE
          BY <3>1
        <5>2. PICK c \in Covered(seen, eff) : TRUE
          BY <1>7, <3>1, <3>3, <5>1
        <5>3. c \in seen /\ c.start < eff /\ eff < c.end /\ c # t
          BY <1>7, <3>3, <5>2
        <5>4. c.id # t.id
          BY <1>6, <3>1, <5>3 DEF IdKey
        <5>5. ~Overlap(c, t)
          BY <2>1, <3>1, <5>3, <5>4 DEF Apart
        <5>6. c.start \in Int /\ c.end \in Int
          BY <1>3, <5>3, DaysAreIntegers
        <5> QED
          BY <3>1, <3>3, <5>1, <5>3, <5>5, <5>6 DEF Overlap
      <4>2. Cut(t).end <= eff /\ Cut(t).end \in Int
        BY <2>3, <2>4, <3>1, <4>1
      <4> QED
        BY <1>4, <3>1, <4>2 DEF Overlap
    <3>4. CASE eff < t.start
      <4>1. Until(seen, eff) <= t.start /\ Cut(t).start = t.start
        BY <1>3, <1>8, <3>1, <3>4, UntilIsNext
      <4> QED
        BY <1>4, <3>1, <4>1 DEF Overlap
    <3> QED
      BY <3>1, <3>2, <3>3, <3>4
  <2>5. ASSUME NEW t \in terms, NEW u \in terms, t.series = s, u.series = s, t.id # u.id
        PROVE  ~Overlap(Cut(t), Cut(u))
    <3>1. ~Overlap(t, u)
      BY <1>10, <2>5 DEF Of, Apart
    <3>2. t.start \in Int /\ t.end \in Int /\ u.start \in Int /\ u.end \in Int
      BY <1>3, <2>1, <2>5, DaysAreIntegers
    <3>3. /\ Cut(t).start = t.start /\ Cut(t).end <= t.end /\ Cut(t).end \in Int
          /\ Cut(u).start = u.start /\ Cut(u).end <= u.end /\ Cut(u).end \in Int
      BY <1>8, <2>3, <2>5
    <3> HIDE DEF Cut
    <3> QED
      BY <3>1, <3>2, <3>3 DEF Overlap
  <2> DEFINE own == {Cut(t) : t \in Of(terms, s)}
  <2>6. \A t \in Of(terms, s) : t \in terms /\ t.series = s
    BY DEF Of
  <2>7. terms' = closed \cup {n}
    BY <1>1, <1>2
  <2> HIDE DEF Cut
  <2>8. Apart(own)
    BY <1>8, <2>3, <2>5, <2>6 DEF Apart
  <2>9. \A x \in own : ~Overlap(x, n)
    BY <2>4, <2>6
  <2>10. Of(terms', s) = own \cup {n}
    <3>1. \A t \in terms : Cut(t).series = t.series
      BY <1>8
    <3> QED
      BY <1>4, <2>7, <3>1 DEF Of
  <2> HIDE DEF own, s
  <2>11. Apart(own \cup {n})
    BY <1>4, <2>8, <2>9, FreshRow
  <2> QED
    BY <2>10, <2>11
<1>11. terms' = closed \cup {n}
    BY <1>1, <1>2
<1>12. \A t \in terms : t.id # i
    BY DEF FreeIds, Referred, IdsOf
<1>13. ASSUME NEW z \in Series, z # s, Apart(Of(terms, z)) PROVE Apart(Of(terms', z))
  <2>1. Of(terms', z) \subseteq Of(terms, z)
    <3>1. ASSUME NEW x \in closed, x.series = z PROVE x \in terms
      <4>1. PICK t \in terms : x = Cut(t)
        OBVIOUS
      <4>2. t.series = z
        BY <1>8, <3>1, <4>1
      <4> QED
        BY <1>9, <1>13, <4>1, <4>2
    <3> HIDE DEF closed
    <3> QED
      BY <1>4, <1>11, <1>13, <3>1 DEF Of
  <2> QED
    BY <1>13, <2>1, FewerApart
<1> HIDE DEF Cut
<1>14. IdKey(terms)'
    BY <1>4, <1>8, <1>11, <1>12 DEF RowsInv, IdKey
<1>15. \A t \in terms' : \/ t.id \in FreeIds
                         \/ \E u \in terms : u.id = t.id /\ u.series = t.series
    BY <1>4, <1>8, <1>11
<1> HIDE DEF closed, g
<1>16. OnlyBy(r)
    BY <1>10, <1>13 DEF OnlyBy
<1> QED
    BY <1>5, <1>14, <1>15, <1>16, WriterEnds

(* The ranges of a new series are apart, and no other series changes.       *)
LEMMA CreateKeepsApart ==
    ASSUME RowsInv, TypeOK', NEW s \in Series, NEW G \in Lists, CreateSeries(s, G)
    PROVE  /\ RowsInv'
           /\ \A z \in Series : Apart(Of(terms, z)) => Apart(Of(terms', z))
<1>1. PICK rows \in RowsFor(G, s) : terms' = terms \cup rows
    BY DEF CreateSeries
<1>2. ValidList(G) /\ req' = req
    BY DEF CreateSeries
<1>3. /\ \A x \in rows : x.series = s /\ x.id \in FreeIds /\ x.start < x.end
      /\ \A x, y \in rows : x.id = y.id => x = y
      /\ \A x, y \in rows : x.id # y.id => ~Overlap(x, y)
    BY <1>2, RowsForList
<1>4. \A t \in terms : t.series # s /\ t.id \notin FreeIds
    BY DEF CreateSeries, Of, FreeIds, Referred, IdsOf
<1>5. IdKey(terms)'
    BY <1>1, <1>3, <1>4 DEF RowsInv, IdKey
<1>6. SeenRows'
    BY <1>2 DEF RowsInv, SeenRows
<1>7. ASSUME NEW q \in Requests, NEW t \in terms', NEW u \in req[q].seen, t.id = u.id
      PROVE  t.series = u.series
  <2>1. t.id \notin FreeIds
    BY <1>7 DEF FreeIds, Referred, IdsOf
  <2>2. t \in terms
    BY <1>1, <1>3, <2>1
  <2> QED
    BY <1>7, <2>2 DEF RowsInv, SeenSeries
<1>8. SeenSeries'
    BY <1>2, <1>7 DEF SeenSeries
<1>9. ASSUME NEW z \in Series, Apart(Of(terms, z)) PROVE Apart(Of(terms', z))
  <2>1. CASE z = s
    <3>1. Of(terms', z) = rows
      BY <1>1, <1>3, <1>4, <2>1 DEF Of
    <3> QED
      BY <1>3, <3>1 DEF Apart
  <2>2. CASE z # s
    <3>1. Of(terms', z) = Of(terms, z)
      BY <1>1, <1>3, <2>2 DEF Of
    <3> QED
      BY <1>9, <3>1
  <2> QED
    BY <2>1, <2>2
<1> QED
    BY <1>5, <1>6, <1>8, <1>9 DEF RowsInv

(* What one step does to the stored ranges: those of a series come to      *)
(* overlap only by a request of that series that did not know them.        *)
LEMMA RowsStep ==
    ASSUME RowsInv, [Next]_vars
    PROVE  /\ RowsInv'
           /\ \A s \in Series :
                 Apart(Of(terms, s)) /\ ~Apart(Of(terms', s)) =>
                    \E r \in Requests : Answered(r) /\ req[r].series = s /\ ~Knows(r)
<1> DEFINE Goal == /\ RowsInv'
                   /\ \A s \in Series :
                        Apart(Of(terms, s)) /\ ~Apart(Of(terms', s)) =>
                          \E r \in Requests :
                             Answered(r) /\ req[r].series = s /\ ~Knows(r)
<1>1. TypeOK'
    BY TypeStep DEF RowsInv
<1>2. ASSUME NEW r \in Requests, Answer(r)
      PROVE  /\ \A q \in Requests : req'[q] = req[q] \/ req'[q] = Idle
             /\ req[r] # Idle => Answered(r)
    BY <1>2 DEF Answer, Answered, RowsInv, TypeOK
<1>3. ASSUME terms' \subseteq terms,
             \A q \in Requests : req'[q] = req[q] \/ req'[q] = Idle
      PROVE  Goal
  <2>1. RowsInv'
    BY <1>1, <1>3, FewerRows
  <2>2. \A s \in Series : Of(terms', s) \subseteq Of(terms, s)
    BY <1>3 DEF Of
  <2> QED
    BY <2>1, <2>2, FewerApart
<1>4. ASSUME NEW r \in Requests, Answer(r), req[r].op \in Ops, RowsInv', OnlyBy(r)
      PROVE  Goal
  <2>1. req[r] # Idle
    BY <1>4 DEF Ops, Editors, Idle
  <2> QED
    BY <1>2, <1>4, <2>1 DEF OnlyBy
<1>5. ASSUME RowsInv', terms' = terms
      PROVE  Goal
    BY <1>5
<1> HIDE DEF Goal
<1>6. ASSUME NEW r \in Requests, Handle(r)
      PROVE  Goal
  <2>1. ASSUME NEW o \in Ops \ {"deleteAccount"}, NEW s \in Series, Load(r, o, s)
        PROVE  Goal
    BY <1>1, <1>5, <2>1, LoadKeepsRows DEF Load
  <2>2. CASE StartDeleteAccount(r)
    BY <1>1, <1>5, <2>2, StartDeleteKeepsRows DEF StartDeleteAccount
  <2>3. CASE Fail(r)
    BY <1>2, <1>3, <2>3 DEF Fail
  <2>4. ASSUME NEW i \in Ids, DeleteRecurringTerm(r, i)
        PROVE  Goal
    BY <1>2, <1>3, <2>4 DEF DeleteRecurringTerm
  <2>5. ASSUME NEW a \in Accounts, DeleteAccount(r, a)
        PROVE  Goal
    BY <1>2, <1>3, <2>5 DEF DeleteAccount
  <2>6. ASSUME NEW g \in Ranges, CreateRecurringTerm(r, g)
        PROVE  Goal
    <3>1. Answer(r) /\ req[r].op \in Ops
      BY <2>6 DEF CreateRecurringTerm, Ops, Editors
    <3> QED
      BY <1>1, <1>4, <2>6, <3>1, AddKeepsApart
  <2>7. ASSUME NEW i \in Ids, NEW g \in Ranges, UpdateRecurringTerm(r, i, g)
        PROVE  Goal
    <3>1. Answer(r) /\ req[r].op \in Ops
      BY <2>7 DEF UpdateRecurringTerm, Ops, Editors
    <3> QED
      BY <1>1, <1>4, <2>7, <3>1, EditKeepsApart
  <2>8. ASSUME NEW G \in Lists, ReplaceRanges(r, G)
        PROVE  Goal
    <3>1. Answer(r) /\ req[r].op \in Ops
      BY <2>8 DEF ReplaceRanges, Ops, Editors
    <3> QED
      BY <1>1, <1>4, <2>8, <3>1, ReplaceKeepsApart
  <2>9. ASSUME NEW eff \in Days, NEW v \in Values, ChangeInPlace(r, eff, v)
        PROVE  Goal
    <3>1. Answer(r) /\ req[r].op \in Ops
      BY <2>9 DEF ChangeInPlace, Changes, Ops, Editors
    <3> QED
      BY <1>1, <1>4, <2>9, <3>1, InPlaceKeepsApart
  <2>10. ASSUME NEW eff \in Days, NEW v \in Values, ChangeFrom(r, eff, v)
         PROVE  Goal
    <3>1. Answer(r) /\ req[r].op \in Ops
      BY <2>10 DEF ChangeFrom, Changes, Ops, Editors
    <3> QED
      BY <1>1, <1>4, <2>10, <3>1, ChangeKeepsApart
  <2> QED
    BY <1>6, <2>1, <2>2, <2>3, <2>4, <2>5, <2>6, <2>7, <2>8, <2>9, <2>10 DEF Handle
<1>7. ASSUME NEW s \in Series, NEW G \in Lists, CreateSeries(s, G)
      PROVE  Goal
    BY <1>1, <1>7, CreateKeepsApart DEF Goal
<1>8. ASSUME NEW s \in Series, DeleteSeries(s)
      PROVE  Goal
    BY <1>3, <1>8 DEF DeleteSeries
<1>9. ASSUME NEW a \in Accounts, CreateAccount(a)
      PROVE  Goal
    BY <1>3, <1>9 DEF CreateAccount
<1>10. ASSUME UNCHANGED vars PROVE Goal
    BY <1>3, <1>10 DEF vars
<1>11. ASSUME Next PROVE Goal
    BY <1>6, <1>7, <1>8, <1>9, <1>11 DEF Next
<1>12. Goal
    BY <1>10, <1>11
<1> QED
    BY <1>12 DEF Goal

LEMMA InitRows == Init => RowsInv
<1>1. ASSUME Init PROVE RowsInv
  <2>1. \A r \in Requests : req[r] = Idle
    BY <1>1 DEF Init
  <2>2. Idle.seen = {}
    BY DEF Idle
  <2> QED
    BY <1>1, <2>1, <2>2, IdleIsRequest
       DEF Init, RowsInv, TypeOK, IdKey, SeenRows, SeenSeries
<1> QED
    BY <1>1

(* However requests overlap, the ranges of a series come to overlap only    *)
(* through a handler that had not read one of them as it is stored: a       *)
(* removal, of a range, a series or an account, never makes a check stale.  *)
THEOREM RangesStayApart == Spec => NoNewOverlap
<1> DEFINE ByAStaleList ==
        \A s \in Series :
           Apart(Of(terms, s)) /\ ~Apart(Of(terms', s)) =>
              \E r \in Requests : Answered(r) /\ req[r].series = s /\ ~Knows(r)
<1>1. RowsInv /\ [Next]_vars => RowsInv' /\ [ByAStaleList]_vars
    BY RowsStep
<1>2. Spec => [][ByAStaleList]_vars
    BY <1>1, InitRows, PTL DEF Spec
<1> QED
    BY <1>2 DEF NoNewOverlap

-----------------------------------------------------------------------------
(* What a series says of itself.                                           *)
(*                                                                         *)
(* Among ranges that do not overlap, one at most covers a day, the one that *)
(* starts last also ends last, and of two the earlier ends before the other *)
(* starts.                                                                 *)

\* Ranges of one series that do not overlap.
Chain(rows) == IdKey(rows) /\ Apart(rows)

LEMMA StoredChain ==
    ASSUME NEW rows \in SUBSET Row, NEW s, IdKey(rows), Apart(Of(rows, s))
    PROVE  Of(rows, s) \in SUBSET Row /\ Chain(Of(rows, s))
BY DEF Chain, Of, IdKey

LEMMA ChainInOrder ==
    ASSUME NEW rows \in SUBSET Row, Chain(rows), NEW t \in rows, NEW u \in rows,
           t # u, t.start <= u.start
    PROVE  t.end <= u.start
<1>1. t.id # u.id
    BY DEF Chain, IdKey
<1>2. ~Overlap(t, u) /\ u.start < u.end
    BY <1>1 DEF Chain, Apart
<1>3. t.start \in Int /\ t.end \in Int /\ u.start \in Int /\ u.end \in Int
    BY DaysAreIntegers
<1> QED
    BY <1>2, <1>3 DEF Overlap

LEMMA OneCovers ==
    ASSUME NEW rows \in SUBSET Row, Chain(rows), NEW d \in Days,
           NEW t \in rows, t.start <= d, d < t.end,
           NEW u \in rows, u.start <= d, d < u.end
    PROVE  t = u
<1>1. /\ t.start \in Int /\ t.end \in Int /\ u.start \in Int /\ u.end \in Int
      /\ d \in Int
    BY DaysAreIntegers
<1>2. t # u /\ t.start <= u.start => t.end <= u.start
    BY ChainInOrder
<1>3. t # u /\ u.start <= t.start => u.end <= t.start
    BY ChainInOrder
<1> QED
    BY <1>1, <1>2, <1>3

(* The range that covers a day is the last one started by then.            *)
LEMMA CoveringIsLatest ==
    ASSUME NEW rows \in SUBSET Row, Chain(rows), NEW d \in Days, Covering(rows, d) # {}
    PROVE  /\ UpTo(rows, d) # {}
           /\ Earliest(Covering(rows, d)) = Latest(UpTo(rows, d))
<1> DEFINE e == Earliest(Covering(rows, d))
           l == Latest(UpTo(rows, d))
<1>1. Covering(rows, d) \in SUBSET Row /\ UpTo(rows, d) \in SUBSET Row
    BY DEF Covering, UpTo
<1>2. e \in Covering(rows, d)
    BY <1>1, EarliestIsFirst
<1>3. e \in rows /\ e.start <= d /\ d < e.end
    BY <1>2 DEF Covering
<1>4. e \in UpTo(rows, d)
    BY <1>3 DEF UpTo
<1>5. l \in UpTo(rows, d) /\ e.start <= l.start
    BY <1>1, <1>4, LatestIsLast
<1>6. l \in rows /\ l.start <= d
    BY <1>5 DEF UpTo
<1>7. e # l => e.end <= l.start
    BY <1>3, <1>5, <1>6, ChainInOrder
<1>8. e.end \in Int /\ l.start \in Int /\ d \in Int
    BY <1>3, <1>6, DaysAreIntegers
<1> QED
    BY <1>3, <1>4, <1>6, <1>7, <1>8

(* The last range to start is the last to end.                             *)
LEMMA LatestEndsLast ==
    ASSUME NEW rows \in SUBSET Row, Chain(rows), rows # {}
    PROVE  Latest(rows).end = CHOOSE e \in Ends : (\E t \in rows : t.end = e)
                                                  /\ \A t \in rows : t.end <= e
<1> DEFINE l == Latest(rows)
           LastEnd(e) == (\E t \in rows : t.end = e) /\ \A t \in rows : t.end <= e
<1>1. l \in rows /\ \A u \in rows : u.start <= l.start
    BY LatestIsLast
<1>2. l.start < l.end /\ l.start \in Int /\ l.end \in Int /\ l.end \in Ends
    BY <1>1, DaysAreIntegers DEF Chain, Apart, Row
<1>3. ASSUME NEW t \in rows PROVE t.end <= l.end
  <2>1. t # l => t.end <= l.start
    BY <1>1, ChainInOrder
  <2>2. t.end \in Int
    BY DaysAreIntegers
  <2> QED
    BY <1>2, <2>1, <2>2
<1>4. LastEnd(l.end)
    BY <1>1, <1>3
<1>5. ASSUME NEW e \in Ends, LastEnd(e) PROVE e = l.end
  <2>1. e <= l.end /\ l.end <= e
    BY <1>1, <1>3, <1>5
  <2>2. e \in Int
    BY DaysAreIntegers
  <2> QED
    BY <1>2, <2>1, <2>2
<1> HIDE DEF LastEnd
<1>6. l.end = CHOOSE e \in Ends : LastEnd(e)
    BY <1>2, <1>4, <1>5
<1> QED
    BY <1>6 DEF LastEnd

LEMMA ChainViews ==
    ASSUME NEW rows \in SUBSET Row, Chain(rows), rows # {}
    PROVE  Derived(rows) = Listed(rows)
<1>1. Today \in Days
    BY HorizonAssumption
<1> DEFINE effective == IF UpTo(rows, Today) # {} THEN Latest(UpTo(rows, Today))
                        ELSE Earliest(rows)
<1>2. TermAt(rows, Today) = effective
  <2>1. CASE Covering(rows, Today) # {}
    BY <1>1, <2>1, CoveringIsLatest DEF TermAt
  <2>2. CASE Covering(rows, Today) = {}
    BY <2>2 DEF TermAt
  <2> QED
    BY <2>1, <2>2
<1> QED
    BY <1>2, LatestEndsLast DEF Derived, Listed

(* The list of series (SQL) and the answer about one (Go) never differ on a *)
(* series' period, amount and account, for a series without an overlap.     *)
THEOREM ViewsOfASeriesAgree == Spec => []TwoViewsAgree
<1>1. ASSUME RowsInv PROVE TwoViewsAgree
  <2>1. ASSUME NEW s \in series, Of(terms, s) # {}, Apart(Of(terms, s))
        PROVE  Derived(Of(terms, s)) = Listed(Of(terms, s))
    <3>1. Of(terms, s) \in SUBSET Row /\ Chain(Of(terms, s))
      BY <1>1, <2>1, StoredChain DEF RowsInv, TypeOK
    <3> QED
      BY <2>1, <3>1, ChainViews
  <2> QED
    BY <2>1 DEF TwoViewsAgree
<1>2. RowsInv /\ [Next]_vars => RowsInv'
    BY RowsStep
<1> QED
    BY <1>1, <1>2, InitRows, PTL DEF Spec

(* A request that knows its ranges: they are apart before and after.        *)
LEMMA KnownRanges ==
    ASSUME RowsInv, NEW r \in Requests, Knows(r), OnlyBy(r), req[r].op = "change",
           req[r].series \in series
    PROVE  /\ req[r].series \in Series
           /\ Apart(Of(terms, req[r].series)) /\ Apart(Of(terms', req[r].series))
           /\ Of(terms, req[r].series) \subseteq req[r].seen /\ IdKey(req[r].seen)
           /\ \A t \in req[r].seen : t.series = req[r].series
<1>1. req[r].series \in Series
    BY DEF RowsInv, TypeOK
<1>2. Apart(Of(terms, req[r].series))
    BY FewerApart DEF Knows
<1>3. Apart(Of(terms', req[r].series))
    BY <1>1, <1>2 DEF OnlyBy
<1> QED
    BY <1>1, <1>2, <1>3 DEF Knows, RowsInv, SeenRows

-----------------------------------------------------------------------------
(* A change of value from a day on.                                        *)

LEMMA PaysTheCovering ==
    ASSUME NEW rows \in SUBSET Row, Chain(rows), NEW d \in Days,
           NEW t \in rows, t.start <= d, d < t.end
    PROVE  Pays(rows, d) = [amount |-> t.amount, account |-> t.account]
<1> DEFINE e == Earliest(Covering(rows, d))
<1>1. Covering(rows, d) \in SUBSET Row /\ Covering(rows, d) # {}
    BY DEF Covering
<1>2. e \in Covering(rows, d)
    BY <1>1, EarliestIsFirst
<1>3. e \in rows /\ e.start <= d /\ d < e.end
    BY <1>2 DEF Covering
<1>4. e = t
    BY <1>3, OneCovers
<1> QED
    BY <1>1, <1>4 DEF Pays

LEMMA PaysNothing ==
    ASSUME NEW rows, NEW d, \A t \in rows : ~(t.start <= d /\ d < t.end)
    PROVE  Pays(rows, d) = Omitted
BY DEF Pays, Covering

\* Every range of rows that covers d has its like in others.
Matched(rows, others, d) ==
    \A t \in rows : t.start <= d /\ d < t.end =>
        \E u \in others : /\ u.start <= d /\ d < u.end
                          /\ u.amount = t.amount /\ u.account = t.account

LEMMA SamePays ==
    ASSUME NEW rows \in SUBSET Row, Chain(rows), NEW others \in SUBSET Row, Chain(others),
           NEW d \in Days, Matched(rows, others, d), Matched(others, rows, d)
    PROVE  Pays(rows, d) = Pays(others, d)
<1>1. CASE \A t \in rows : ~(t.start <= d /\ d < t.end)
  <2>1. \A u \in others : ~(u.start <= d /\ d < u.end)
    BY <1>1 DEF Matched
  <2> QED
    BY <1>1, <2>1, PaysNothing
<1>2. ASSUME NEW t \in rows, t.start <= d, d < t.end
      PROVE  Pays(rows, d) = Pays(others, d)
  <2>1. PICK u \in others : /\ u.start <= d /\ d < u.end
                            /\ u.amount = t.amount /\ u.account = t.account
    BY <1>2 DEF Matched
  <2>2. Pays(rows, d) = [amount |-> t.amount, account |-> t.account]
    BY <1>2, PaysTheCovering
  <2>3. Pays(others, d) = [amount |-> u.amount, account |-> u.account]
    BY <2>1, PaysTheCovering
  <2> QED
    BY <2>1, <2>2, <2>3
<1> QED
    BY <1>1, <1>2

\* What ChangeFromEff says of one change.
KeepsAndSets(r, eff, new) ==
    LET s == req[r].series IN
    /\ \A d \in Days : d < eff => Pays(Of(terms', s), d) = Pays(Of(terms, s), d)
    /\ Pays(Of(terms', s), eff) = new

LEMMA InPlaceFromEff ==
    ASSUME RowsInv, RowsInv', NEW r \in Requests, Knows(r), OnlyBy(r),
           NEW eff \in Days, NEW v \in Values, ChangeInPlace(r, eff, v)
    PROVE  KeepsAndSets(r, eff, Merged(req[r].seen, v))
<1> DEFINE s == req[r].series
           seen == req[r].seen
           new == Merged(seen, v)
           Over(c, t) == IF t.id = c.id
                         THEN [t EXCEPT !.amount = new.amount, !.account = new.account]
                         ELSE t
           before == Of(terms, s)
           after == Of(terms', s)
<1>0. Changes(r, eff, new)
    BY Zenon DEF ChangeInPlace
<1>4. req[r].op = "change" /\ s \in series
    BY <1>0 DEF Changes
<1>5. /\ s \in Series /\ Apart(before) /\ Apart(after)
      /\ before \subseteq seen /\ IdKey(seen)
      /\ \A t \in seen : t.series = s
    BY <1>4, KnownRanges
<1>1. PICK c \in Covered(seen, eff) : /\ c.start = eff /\ c.id \in IdsOf(terms)
                                      /\ terms' = {Over(c, t) : t \in terms}
    BY Zenon DEF ChangeInPlace
<1> HIDE DEF Over
<1>2. /\ seen \in SUBSET Row /\ terms \in SUBSET Row
      /\ before \in SUBSET Row /\ Chain(before) /\ after \in SUBSET Row /\ Chain(after)
    BY <1>5, StoredChain DEF RowsInv, TypeOK
<1>3. c \in seen /\ eff < c.end
    BY <1>1, <1>2, CoveredCovers
<1>6. ASSUME NEW t \in terms
      PROVE  /\ Over(c, t).series = t.series
             /\ Over(c, t).start = t.start /\ Over(c, t).end = t.end
             /\ t.id = c.id => /\ Over(c, t).amount = new.amount
                               /\ Over(c, t).account = new.account
             /\ t.id # c.id => Over(c, t) = t
    BY <1>2 DEF Over, Row
\* The overwritten row is the one that was read.
<1>7. ASSUME NEW t \in before, t.id = c.id PROVE t = c
    BY <1>3, <1>5, <1>7 DEF IdKey
<1>8. c \in before
  <2>1. PICK t \in terms : t.id = c.id
    BY <1>1 DEF IdsOf
  <2>2. t.series = s
    BY <1>3, <1>5, <2>1 DEF RowsInv, SeenSeries
  <2> QED
    BY <1>7, <2>1, <2>2 DEF Of
<1>9. ASSUME NEW d \in Days, d < eff
      PROVE  Pays(after, d) = Pays(before, d)
  <2>1. d \in Int /\ eff \in Int
    BY DaysAreIntegers
  <2>2. Matched(before, after, d)
    <3>1. ASSUME NEW t \in before, t.start <= d, d < t.end
          PROVE  t \in after
      <4>1. t \in terms /\ t.series = s
        BY DEF Of
      <4>2. t.id # c.id
        BY <1>1, <1>7, <1>9, <2>1, <3>1
      <4> QED
        BY <1>1, <1>6, <4>1, <4>2 DEF Of
    <3> QED
      BY <3>1 DEF Matched
  <2>3. Matched(after, before, d)
    <3>1. ASSUME NEW u \in after, u.start <= d, d < u.end
          PROVE  u \in before
      <4>1. PICK t \in terms : u = Over(c, t)
        BY <1>1 DEF Of
      <4>2. t \in before /\ t.start = u.start
        BY <1>6, <4>1 DEF Of
      <4>3. t.id # c.id
        BY <1>1, <1>7, <1>9, <2>1, <3>1, <4>2
      <4> QED
        BY <1>6, <4>1, <4>2, <4>3
    <3> QED
      BY <3>1 DEF Matched
  <2> QED
    BY <1>2, <2>2, <2>3, SamePays
<1>10. Pays(after, eff) = new
  <2>1. c \in terms /\ Over(c, c) \in terms'
    BY <1>1, <1>8 DEF Of
  <2>2. Over(c, c) \in after
    BY <1>6, <1>8, <2>1 DEF Of
  <2>3. Over(c, c).start <= eff /\ eff < Over(c, c).end
    BY <1>1, <1>3, <1>6, <2>1, DaysAreIntegers
  <2>4. Pays(after, eff) = [amount |-> new.amount, account |-> new.account]
    BY <1>2, <1>6, <2>1, <2>2, <2>3, PaysTheCovering
  <2> QED
    BY <2>4 DEF Merged
<1> QED
    BY <1>9, <1>10 DEF KeepsAndSets

LEMMA ChangeSetsFromEff ==
    ASSUME RowsInv, RowsInv', NEW r \in Requests, Knows(r), OnlyBy(r),
           NEW eff \in Days, NEW v \in Values, ChangeFrom(r, eff, v)
    PROVE  KeepsAndSets(r, eff, Merged(req[r].seen, v))
<1> DEFINE s == req[r].series
           seen == req[r].seen
           new == Merged(seen, v)
           g == [start |-> eff, end |-> Until(seen, eff),
                 amount |-> new.amount, account |-> new.account]
           Cut(t) == IF t.id \in IdsOf(Covered(seen, eff)) THEN [t EXCEPT !.end = eff]
                     ELSE t
           before == Of(terms, s)
           after == Of(terms', s)
<1>1. PICK i \in FreeIds : terms' = {Cut(t) : t \in terms} \cup {ToRow(i, s, g)}
    BY DEF ChangeFrom
<1>2. PICK n : n = ToRow(i, s, g)
    OBVIOUS
<1>6. req[r].op = "change" /\ s \in series
    BY DEF ChangeFrom, Changes
<1>7. /\ s \in Series /\ Apart(before) /\ Apart(after)
      /\ before \subseteq seen /\ IdKey(seen)
      /\ \A t \in seen : t.series = s
    BY <1>6, KnownRanges
<1>3. /\ seen \in SUBSET Row /\ terms \in SUBSET Row
      /\ before \in SUBSET Row /\ Chain(before) /\ after \in SUBSET Row /\ Chain(after)
    BY <1>7, StoredChain DEF RowsInv, TypeOK
<1>4. /\ n.series = s /\ n.start = eff /\ eff < n.end
      /\ n.amount = new.amount /\ n.account = new.account
    BY <1>2, <1>3, UntilIsNext DEF ToRow
<1>5. ASSUME NEW t \in terms
      PROVE  /\ Cut(t).series = t.series /\ Cut(t).start = t.start
             /\ Cut(t).amount = t.amount /\ Cut(t).account = t.account
             /\ Cut(t).end = t.end \/ (Cut(t).end = eff /\ t.id \in IdsOf(Covered(seen, eff)))
    BY <1>3 DEF Row
<1> HIDE DEF Cut
\* A range that is cut reached past the cut.
<1>8. ASSUME NEW t \in before, t.id \in IdsOf(Covered(seen, eff))
      PROVE  eff < t.end
  <2>1. PICK c \in Covered(seen, eff) : t.id = c.id
    BY <1>8 DEF IdsOf
  <2>2. c \in seen /\ eff < c.end
    BY <1>3, <2>1, CoveredCovers
  <2>3. t = c
    BY <1>7, <2>1, <2>2 DEF IdKey
  <2> QED
    BY <2>2, <2>3
<1>9. ASSUME NEW d \in Days, d < eff
      PROVE  Pays(after, d) = Pays(before, d)
  <2>1. d \in Int /\ eff \in Int
    BY DaysAreIntegers
  <2>2. Matched(before, after, d)
    <3>1. ASSUME NEW t \in before, t.start <= d, d < t.end
          PROVE  /\ Cut(t) \in after /\ Cut(t).start <= d /\ d < Cut(t).end
                 /\ Cut(t).amount = t.amount /\ Cut(t).account = t.account
      <4>1. t \in terms /\ t.series = s /\ Cut(t) \in terms'
        BY <1>1 DEF Of
      <4>2. Cut(t) \in after
        BY <1>5, <4>1 DEF Of
      <4> QED
        BY <1>5, <1>9, <3>1, <4>1, <4>2
    <3> QED
      BY <3>1 DEF Matched
  <2>3. Matched(after, before, d)
    <3>1. ASSUME NEW u \in after, u.start <= d, d < u.end
          PROVE  \E t \in before : /\ t.start <= d /\ d < t.end
                                   /\ t.amount = u.amount /\ t.account = u.account
      <4>1. u # n
        BY <1>4, <1>9, <2>1, <3>1
      <4>2. PICK t \in terms : u = Cut(t)
        BY <1>1, <1>2, <4>1 DEF Of
      <4>3. t \in before
        BY <1>5, <4>2 DEF Of
      <4>4. t.end \in Int /\ eff \in Int
        BY <1>3, DaysAreIntegers
      <4>5. d < t.end
        BY <1>5, <1>8, <1>9, <2>1, <3>1, <4>2, <4>3, <4>4
      <4> QED
        BY <1>5, <3>1, <4>2, <4>3, <4>5
    <3> QED
      BY <3>1 DEF Matched
  <2> QED
    BY <1>3, <2>2, <2>3, SamePays
<1>10. Pays(after, eff) = new
  <2>1. n \in after
    BY <1>1, <1>2, <1>4 DEF Of
  <2>2. n.start <= eff
    BY <1>4, DaysAreIntegers
  <2>3. Pays(after, eff) = [amount |-> n.amount, account |-> n.account]
    BY <1>3, <1>4, <2>1, <2>2, PaysTheCovering
  <2> QED
    BY <1>4, <2>3 DEF Merged
<1> QED
    BY <1>9, <1>10 DEF KeepsAndSets

(* A change of value from a day on leaves what every day before it is       *)
(* charged, and that day is charged the new value, whatever was removed     *)
(* since the handler read the list.                                        *)
THEOREM ChangesKeepThePast == Spec => ChangeFromEff
<1> DEFINE PastKept ==
        \A r \in Requests : req[r].op = "change" /\ Knows(r) =>
           \A eff \in Days, v \in Values :
              ChangeInPlace(r, eff, v) \/ ChangeFrom(r, eff, v) =>
                KeepsAndSets(r, eff, Merged(req[r].seen, v))
<1>1. ASSUME RowsInv, [Next]_vars PROVE PastKept
  <2>1. RowsInv' /\ TypeOK'
    BY <1>1, RowsStep DEF RowsInv
  <2>2. ASSUME NEW r \in Requests, Knows(r), NEW eff \in Days, NEW v \in Values,
               ChangeInPlace(r, eff, v)
        PROVE  KeepsAndSets(r, eff, Merged(req[r].seen, v))
    BY <1>1, <2>1, <2>2, InPlaceKeepsApart, InPlaceFromEff
  <2>3. ASSUME NEW r \in Requests, Knows(r), NEW eff \in Days, NEW v \in Values,
               ChangeFrom(r, eff, v)
        PROVE  KeepsAndSets(r, eff, Merged(req[r].seen, v))
    BY <1>1, <2>1, <2>3, ChangeKeepsApart, ChangeSetsFromEff
  <2> QED
    BY <2>2, <2>3
<1>2. RowsInv /\ [Next]_vars => RowsInv' /\ [PastKept]_vars
    BY <1>1, RowsStep
<1>3. Spec => [][PastKept]_vars
    BY <1>2, InitRows, PTL DEF Spec
<1> QED
    BY <1>3 DEF ChangeFromEff, KeepsAndSets

-----------------------------------------------------------------------------
(* Every series keeps a range.                                             *)

\* Every series with a range has one after the step.
NoneEmptied == \A t \in terms : \E u \in terms' : u.series = t.series

LEMMA WritersEmptyNone ==
    ASSUME RowsInv, NEW r \in Requests,
           \/ \E g \in Ranges : CreateRecurringTerm(r, g)
           \/ \E i \in Ids, g \in Ranges : UpdateRecurringTerm(r, i, g)
           \/ \E G \in Lists : ReplaceRanges(r, G)
           \/ \E eff \in Days, v \in Values :
                 ChangeInPlace(r, eff, v) \/ ChangeFrom(r, eff, v)
    PROVE  NoneEmptied
<1>1. ASSUME NEW g \in Ranges, CreateRecurringTerm(r, g) PROVE NoneEmptied
    BY <1>1 DEF CreateRecurringTerm, NoneEmptied
<1>2. ASSUME NEW i \in Ids, NEW g \in Ranges, UpdateRecurringTerm(r, i, g)
      PROVE  NoneEmptied
  <2>1. PICK w \in terms : w.id = i /\ w.series = req[r].series
    BY <1>2 DEF UpdateRecurringTerm, IdsOf, Of
  <2>2. PICK n : n = ToRow(i, req[r].series, g)
    OBVIOUS
  <2>3. n.series = req[r].series
    BY <2>2 DEF ToRow
  <2>4. terms' = {t \in terms : t.id # i} \cup {n}
    BY <1>2, <2>2 DEF UpdateRecurringTerm
  <2>5. ASSUME NEW t \in terms PROVE \E u \in terms' : u.series = t.series
    <3>1. CASE t.id = i
      <4>1. t = w
        BY <2>1, <3>1 DEF RowsInv, IdKey
      <4> QED
        BY <2>1, <2>3, <2>4, <4>1
    <3>2. CASE t.id # i
      BY <2>4, <3>2
    <3> QED
      BY <3>1, <3>2
  <2> QED
    BY <2>5 DEF NoneEmptied
<1>3. ASSUME NEW G \in Lists, ReplaceRanges(r, G) PROVE NoneEmptied
  <2>0. PICK s : s = req[r].series
    OBVIOUS
  <2>1. ValidList(G) /\ s \in Series /\ req[r].op = "replace"
    BY <1>3, <2>0 DEF ReplaceRanges, RowsInv, TypeOK
  <2>2. PICK rows \in RowsFor(G, s) : terms' = Kept(r) \cup rows
    BY <1>3, <2>0 DEF ReplaceRanges
  <2>3. rows # {} /\ \A x \in rows : x.series = s
    BY <2>1, RowsForList
  <2>4. \A t \in terms : t.series # s => t \in Kept(r)
    BY <2>0, <2>1 DEF Kept, IdsOf, RowsInv, SeenRows, SeenSeries
  <2> QED
    BY <2>2, <2>3, <2>4 DEF NoneEmptied
<1>4. ASSUME NEW eff \in Days, NEW v \in Values, ChangeInPlace(r, eff, v)
      PROVE  NoneEmptied
  <2> DEFINE new == Merged(req[r].seen, v)
             Over(c, t) == IF t.id = c.id
                           THEN [t EXCEPT !.amount = new.amount, !.account = new.account]
                           ELSE t
  <2>1. PICK c \in Covered(req[r].seen, eff) : terms' = {Over(c, t) : t \in terms}
    BY <1>4 DEF ChangeInPlace
  <2>2. \A t \in terms : Over(c, t).series = t.series
    BY DEF RowsInv, TypeOK, Row
  <2> HIDE DEF Over
  <2> QED
    BY <2>1, <2>2 DEF NoneEmptied
<1>5. ASSUME NEW eff \in Days, NEW v \in Values, ChangeFrom(r, eff, v)
      PROVE  NoneEmptied
  <2> DEFINE Cut(t) == IF t.id \in IdsOf(Covered(req[r].seen, eff))
                       THEN [t EXCEPT !.end = eff] ELSE t
  <2>1. {Cut(t) : t \in terms} \subseteq terms'
    BY <1>5 DEF ChangeFrom
  <2>2. \A t \in terms : Cut(t).series = t.series
    BY DEF RowsInv, TypeOK, Row
  <2> HIDE DEF Cut
  <2> QED
    BY <2>1, <2>2 DEF NoneEmptied
<1> QED
    BY <1>1, <1>2, <1>3, <1>4, <1>5

(* The last range of a series was not the only one its remover read.        *)
LEMMA RemovesTheLast ==
    ASSUME RowsInv, NEW r \in Requests, NEW i \in Ids, DeleteRecurringTerm(r, i),
           NEW s \in Series, Of(terms, s) # {}, Of(terms', s) = {}
    PROVE  Of(req[r].seen, s) # Of(terms, s)
<1>1. SUFFICES ASSUME Of(req[r].seen, s) = Of(terms, s) PROVE FALSE
    OBVIOUS
<1>2. \A t \in Of(terms, s) : t.id = i /\ t \in terms
    BY DEF DeleteRecurringTerm, Of
<1>3. PICK t \in Of(terms, s) : Of(terms, s) = {t}
    BY <1>2 DEF RowsInv, IdKey
<1>4. PICK u \in req[r].seen : u.id = i
    BY DEF DeleteRecurringTerm, IdsOf
<1>5. t.series = s /\ u.series = s
    BY <1>2, <1>3, <1>4 DEF RowsInv, SeenSeries, Of
<1>6. req[r].op = "remove" /\ Cardinality(req[r].seen) # 1
    BY DEF DeleteRecurringTerm
<1>7. Of(req[r].seen, s) = req[r].seen
    BY <1>4, <1>5, <1>6 DEF RowsInv, SeenRows, Of
<1> QED
    BY <1>1, <1>3, <1>6, <1>7, FS_Singleton

(* An account that takes the last range of a series and leaves the series   *)
(* did not see its ranges as they are.                                      *)
LEMMA AccountTakesTheLast ==
    ASSUME NEW r \in Requests, NEW a \in Accounts, DeleteAccount(r, a),
           NEW s \in Series, s \in series', Of(terms, s) # {}, Of(terms', s) = {}
    PROVE  Of(req[r].seen, s) # Of(terms, s)
<1> DEFINE gone == OnlyOn(req[r].seen, a)
<1>1. SUFFICES ASSUME Of(req[r].seen, s) = Of(terms, s) PROVE FALSE
    OBVIOUS
<1>2. s \notin gone /\ terms' = {t \in terms : t.series \notin gone /\ t.account # a}
    BY DEF DeleteAccount
<1>3. PICK t \in Of(terms, s) : t.account # a
    BY <1>1, <1>2 DEF OnlyOn
<1>4. t \in terms /\ t.series = s
    BY DEF Of
<1>5. t \in terms'
    BY <1>2, <1>3, <1>4
<1> QED
    BY <1>4, <1>5 DEF Of

LEMMA KeepStep ==
    ASSUME RowsInv, [Next]_vars, NEW s \in series \cap series',
           Of(terms, s) # {}, Of(terms', s) = {}
    PROVE  \E r \in Requests : Answered(r) /\ Of(req[r].seen, s) # Of(terms, s)
<1>0. s \in Series
    BY DEF RowsInv, TypeOK
<1>1. NoneEmptied => FALSE
    BY DEF NoneEmptied, Of
<1>2. terms \subseteq terms' => FALSE
    BY DEF Of
<1>3. ASSUME NEW r \in Requests, Answer(r), req[r].op \in Ops PROVE Answered(r)
    BY <1>3 DEF Answer, Answered, Ops, Editors, Idle, RowsInv, TypeOK
<1>4. ASSUME NEW r \in Requests, Handle(r)
      PROVE  Answered(r) /\ Of(req[r].seen, s) # Of(terms, s)
  <2>1. CASE \/ \E o \in Ops \ {"deleteAccount"}, z \in Series : Load(r, o, z)
             \/ StartDeleteAccount(r)
             \/ Fail(r)
    BY <1>2, <2>1 DEF Load, StartDeleteAccount, Fail
  <2>2. ASSUME NEW i \in Ids, DeleteRecurringTerm(r, i)
        PROVE  Answered(r) /\ Of(req[r].seen, s) # Of(terms, s)
    <3>1. Answer(r) /\ req[r].op \in Ops
      BY <2>2 DEF DeleteRecurringTerm, Ops
    <3> QED
      BY <1>0, <1>3, <2>2, <3>1, RemovesTheLast
  <2>3. ASSUME NEW a \in Accounts, DeleteAccount(r, a)
        PROVE  Answered(r) /\ Of(req[r].seen, s) # Of(terms, s)
    <3>1. Answer(r) /\ req[r].op \in Ops
      BY <2>3 DEF DeleteAccount, Ops
    <3> QED
      BY <1>0, <1>3, <2>3, <3>1, AccountTakesTheLast
  <2>4. CASE \/ \E g \in Ranges : CreateRecurringTerm(r, g)
             \/ \E i \in Ids, g \in Ranges : UpdateRecurringTerm(r, i, g)
             \/ \E G \in Lists : ReplaceRanges(r, G)
             \/ \E eff \in Days, v \in Values :
                   ChangeInPlace(r, eff, v) \/ ChangeFrom(r, eff, v)
    BY <1>1, <2>4, WritersEmptyNone
  <2> QED
    BY <1>4, <2>1, <2>2, <2>3, <2>4 DEF Handle
<1>5. ASSUME NEW z \in Series, NEW G \in Lists, CreateSeries(z, G) PROVE FALSE
    BY <1>2, <1>5 DEF CreateSeries
<1>6. ASSUME NEW z \in Series, DeleteSeries(z) PROVE FALSE
    BY <1>6 DEF DeleteSeries, Of
<1>7. ASSUME NEW a \in Accounts, CreateAccount(a) PROVE FALSE
    BY <1>2, <1>7 DEF CreateAccount
<1>8. CASE UNCHANGED vars
    BY <1>2, <1>8 DEF vars
<1> QED
    BY <1>4, <1>5, <1>6, <1>7, <1>8 DEF Next

(* A series loses its last range and stays only through a removal, of a     *)
(* range or of an account, that was decided on other ranges than those the  *)
(* series had when it was carried out.                                     *)
THEOREM SeriesKeepsARange == Spec => KeepsARange
<1> DEFINE Emptied ==
        \A s \in series \cap series' :
           Of(terms, s) # {} /\ Of(terms', s) = {} =>
              \E r \in Requests : Answered(r) /\ Of(req[r].seen, s) # Of(terms, s)
<1>1. RowsInv /\ [Next]_vars => RowsInv' /\ [Emptied]_vars
    BY RowsStep, KeepStep
<1>2. Spec => [][Emptied]_vars
    BY <1>1, InitRows, PTL DEF Spec
<1> QED
    BY <1>2 DEF KeepsARange
=============================================================================
