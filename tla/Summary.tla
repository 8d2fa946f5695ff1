------------------------------- MODULE Summary -------------------------------
(***************************************************************************)
(* The synthetic total rows that transaction_summary.go makes of an        *)
(* account's balances and cycle list and merges into a page of the         *)
(* transaction list.                                                       *)
(***************************************************************************)
EXTENDS Balances, SequencesExt

-----------------------------------------------------------------------------
(* Total rows: [date, cycle, total]. *)

\* One for every cycle in the range that has transactions, and one at the end
\* of the range for the cycle in progress then.
CycleRows(a, from, to) ==
    LET listed == ListedCycles(a)
        ended == {l \in listed : l.count > 0 /\ from <= l.cycle.end /\ l.cycle.end <= to}
        current == {l \in listed : Within(to, l.cycle) /\ l.cycle.end > to}
    IN  {[date |-> l.cycle.end, cycle |-> l.cycle, total |-> l.total] : l \in ended}
        \cup {[date |-> to, cycle |-> l.cycle, total |-> Activity(UpTo(a, to))] :
                l \in {l \in current : UpTo(a, to) # {}}}

\* Without a billing day: one for every month that has transactions, the month
\* of the end of the range at that end.
MonthRows(a, from, to) ==
    LET months == {MonthOf(txns[t].row.date) : t \in TxnsOf(txns, a)}
        open == {m \in months : m = MonthOf(to) /\ MonthEnd(m) > to}
        ended == {m \in months \ open : from <= MonthEnd(m) /\ MonthEnd(m) <= to}
    IN  {[date |-> MonthEnd(m), cycle |-> NoCycle, total |-> BalanceAsOf(a, MonthEnd(m))] :
           m \in ended}
        \cup {[date |-> to, cycle |-> NoCycle, total |-> BalanceAsOf(a, to)] :
                m \in {m \in open : UpTo(a, to) # {}}}

\* A page of the transaction list is a sequence of entries, each with its date
\* and cycle; a transaction also has its id, a total row its total.
Entry(t) == [date |-> txns[t].row.date, cycle |-> txns[t].cycle, txn |-> t]

Sooner(u, v, asc) == IF asc THEN u.date <= v.date ELSE u.date >= v.date
InOrder(s, asc) == \A i, j \in DOMAIN s : i < j => Sooner(s[i], s[j], asc)

Sortings(S, asc) == {s \in [1 .. Cardinality(S) -> S] : IsInjective(s) /\ InOrder(s, asc)}
ByDate(rows, asc) == CHOOSE s \in Sortings(rows, asc) : TRUE

\* A page shows the rows whose window, the time since the row before, holds
\* one of the page's transactions.
RowsForPage(page, rows) ==
    IF page = << >> THEN {}
    ELSE LET dates == {page[i].date : i \in DOMAIN page}
             sorted == ByDate(rows, TRUE)
             since(k) == IF k = 1 THEN Min(dates) - 1 ELSE sorted[k - 1].date
         IN  {sorted[k] : k \in {j \in DOMAIN sorted :
                \E d \in dates : since(j) < d /\ d <= sorted[j].date}}

\* What a page has of T.
Of(page, T) ==
    FlattenSeq([i \in DOMAIN page |-> IF page[i] \in T THEN <<page[i]>> ELSE << >>])

\* Mutant of Rest: only transactions without any cycle are held aside.
WithoutCycle(page, rows) == Of(page, {e \in Range(page) : e.cycle = NoCycle})

Rest(page, rows) == Of(page, {e \in Range(page) : \A row \in rows : e.cycle # row.cycle})

\* mergeByDate: the transactions of a cycle stand next to its row; those of no
\* row shown stand apart, last when ascending and first when descending.
MergeByCycle(page, rows, asc) ==
    LET kept == ByDate(rows, asc)
        grouped(row) == Of(page, {e \in Range(page) : e.cycle = row.cycle})
        block(row) == IF asc THEN grouped(row) \o <<row>> ELSE <<row>> \o grouped(row)
        blocks == FlattenSeq([k \in DOMAIN kept |-> block(kept[k])])
    IN  IF rows = {} THEN page
        ELSE IF asc THEN blocks \o Rest(page, rows) ELSE Rest(page, rows) \o blocks

\* mergeMonthEndRows: by date alone, a transaction of the row's day before it
\* when ascending and after it when descending.
Leads(e, row, asc) == IF asc THEN e.date <= row.date ELSE e.date > row.date

MergeByMonth(page, rows, asc) ==
    LET kept == ByDate(rows, asc)
        between(k) == Of(page, {e \in Range(page) :
            /\ k <= Len(kept) => Leads(e, kept[k], asc)
            /\ k > 1 => ~Leads(e, kept[k - 1], asc)})
    IN  FlattenSeq([k \in 1 .. (Len(kept) + 1) |->
          between(k) \o IF k <= Len(kept) THEN <<kept[k]>> ELSE << >>])

\* The total rows of account a, and a page of its transaction list sorted by
\* date with the rows that belong on it.
TotalRows(a, to) ==
    IF accounts[a].day = NoDay THEN MonthRows(a, Start[0], to) ELSE CycleRows(a, Start[0], to)

ShownPage(a, page, totals, asc) ==
    LET rows == RowsForPage(page, totals)
    IN  IF accounts[a].day = NoDay THEN MergeByMonth(page, rows, asc)
                                   ELSE MergeByCycle(page, rows, asc)

\* A page of the list is a stretch of it.  The list is in the order of dates;
\* rows of one day may be in any order here.
Entries(a) == {Entry(t) : t \in TxnsOf(txns, a)}

Pages(a, asc) ==
    UNION {{SubSeq(all, i, j) : i, j \in DOMAIN all} : all \in Sortings(Entries(a), asc)}

-----------------------------------------------------------------------------
(* Properties. *)

\* The list never loses a transaction to the total rows it merges in, nor
\* shows one twice, whatever the cycles the page's transactions are in: a page
\* shows exactly its transactions and the rows that belong on it, each once,
\* and without cycles it stays in the order of dates.
PageComplete ==
    \A a \in {b \in Accounts : Exists(b)} :
        LET totals == TotalRows(a, today)
        IN  \A asc \in BOOLEAN : \A page \in Pages(a, asc) :
              LET shown == ShownPage(a, page, totals, asc)
              IN  /\ Range(shown) = Range(page) \cup RowsForPage(page, totals)
                  /\ IsInjective(shown)
                  /\ accounts[a].day = NoDay => InOrder(shown, asc)
=============================================================================
