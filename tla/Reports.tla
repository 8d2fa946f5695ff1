------------------------------- MODULE Reports -------------------------------
(***************************************************************************)
(* What the reports say of the rows and links of Catalog, for a filter on  *)
(* dates, account and currency: the currency scope and its totals          *)
(* (currency.go), the money-flow graph (money_flow.go), its timeline       *)
(* (money_flow_timeline.go), the circular-money report (link_cycles.go),   *)
(* the cash-flow calendar (cash_flow_calendar.go) and the dashboard's      *)
(* breakdown by category (dashboard.go).                                   *)
(*                                                                         *)
(* Every report reads one snapshot (REPEATABLE READ), so it is a function  *)
(* of the state.  Ids are numbers, in the order the code sorts them in;    *)
(* NULL, "uncategorized" or "none" there, comes after them.              *)
(***************************************************************************)
EXTENDS Catalog

CONSTANTS
    Currencies,
    Currency,       \* of each account
    Filters,
    Limit,          \* nodes a stage of the graph keeps
    Top,            \* categories a breakdown keeps per currency
    MonthLength,
    Other           \* the node the tail of a stage is rolled into

INSTANCE Flows WITH Nodes <- Accounts

ASSUME ReportsAssumption ==
    /\ Currency \in [Accounts -> Currencies] /\ Currencies \subseteq Nat /\ Accounts \subseteq Nat
    /\ Categories \cup Payees \subseteq Nat /\ Other \notin Categories \cup Payees \cup {None}
    /\ Limit \in Nat /\ Top \in Nat /\ MonthLength \in Nat \ {0}
    /\ Filters \subseteq [from : Nat \cup {None}, to : Nat \cup {None},
                          account : Accounts \cup {None}, currency : Currencies \cup {None}]
    /\ IsFiniteSet(Accounts) /\ IsFiniteSet(TxnIds) /\ IsFiniteSet(LinkTypes)

-----------------------------------------------------------------------------
(* What a filter takes in.                                                  *)

Within(t, f) == /\ f.from # None => Fact[t].day >= f.from
                /\ f.to # None => Fact[t].day <= f.to

\* flowFilter without the currency, as the link queries use it.
Taken(t, f) == Within(t, f) /\ Allows(f.account, Fact[t].account)

CurrencyOf(t) == Currency[Fact[t].account]

InScope(f) == {t \in DOMAIN rows : Taken(t, f) /\ Allows(f.currency, CurrencyOf(t))}

Worth ==
    [t \in TxnIds |-> [k \in Currencies |-> IF k = CurrencyOf(t) THEN Fact[t].amount ELSE 0]]

OfType(S, type) == {t \in S : Fact[t].type = type}

Sum(S, type) == Total(Worth, OfType(S, type))

\* currencyScope: the accounts first, each with its rows in the window.
ScopedAccounts(f) ==
    {a \in Accounts : accounts[a] # "gone" /\ Allows(f.account, a) /\ Allows(f.currency, Currency[a])}

\* Mutant of Scope: the window is lost where the accounts join their rows.
ScopeOfAll(f, type) ==
    LET of == [a \in ScopedAccounts(f) |-> Sum({t \in DOMAIN rows : Fact[t].account = a}, type)]
    IN  Total(of, ScopedAccounts(f))

Scope(f, type) ==
    LET of == [a \in ScopedAccounts(f) |->
                  Sum({t \in DOMAIN rows : Fact[t].account = a /\ Within(t, f)}, type)]
    IN  Total(of, ScopedAccounts(f))

\* One entry per month or day that has a row.
By(f, key) ==
    [d \in {key[t] : t \in InScope(f)} |->
        LET at == {t \in InScope(f) : key[t] = d}
        IN  [income |-> Sum(at, "credit"), expense |-> Sum(at, "debit"), count |-> Cardinality(at)]]

MonthOf == [t \in TxnIds |-> Fact[t].day \div MonthLength]

DayOf == [t \in TxnIds |-> Fact[t].day]

Timeline(f) == By(f, MonthOf)

Daily(f) == By(f, DayOf)

\* The scale of the calendar: per currency, the largest net of a day.
MaxAbsNet(f) ==
    LET net(d) == Minus(Daily(f)[d].income, Daily(f)[d].expense)
        abs(x) == [k \in Currencies |-> IF x[k] < 0 THEN -x[k] ELSE x[k]]
    IN  FoldSet(LAMBDA d, m : Larger(abs(net(d)), m), Nothing, DOMAIN Daily(f))

-----------------------------------------------------------------------------
(* The stages of the graph.                                                 *)

\* What the rows in S come to for each value of the key.
Per(S, key) == [i \in {key[t] : t \in S} |-> Total(Worth, {t \in S : key[t] = i})]

Stage(f, type, key) == Per(OfType(InScope(f), type), key)

CategoryOf == [t \in DOMAIN rows |-> rows[t].category]

PayeeIn == [t \in DOMAIN rows |-> rows[t].payee]

Income(f) == Stage(f, "credit", CategoryOf)

Spending(f) == Stage(f, "debit", CategoryOf)

Paid(f) == Stage(f, "debit", PayeeIn)

\* compareFlowTotals: by the first currency in which the totals differ.
Exceeds(x, y) ==
    \E k \in Currencies : x[k] > y[k] /\ \A j \in Currencies : j < k => x[j] = y[j]

Before(i, j) == i # None /\ (j # None => i < j)

Above(stage, i, j) == Exceeds(stage[i], stage[j]) \/ (stage[i] = stage[j] /\ Before(i, j))

\* keepTopFlowNodes.
Kept(stage) ==
    {i \in DOMAIN stage : Cardinality({j \in DOMAIN stage : Above(stage, j, i)}) < Limit}

RolledUp(kept, i) == IF i \in kept THEN i ELSE Other

\* The nodes of a stage as they are shown, the tail as one.
Shown(stage) ==
    LET kept == Kept(stage)
    IN  [n \in {RolledUp(kept, i) : i \in DOMAIN stage} |->
           Total(stage, {i \in DOMAIN stage : RolledUp(kept, i) = n})]

\* The node of a stage a row goes through.
NodeOf(stage, key) == LET kept == Kept(stage) IN [t \in DOMAIN rows |-> RolledUp(kept, key[t])]

AccountOf == [t \in DOMAIN rows |-> Fact[t].account]

\* The width of the edges between two stages, both ends rolled up.
Edges(f, type, source, target) ==
    Per(OfType(InScope(f), type), [t \in DOMAIN rows |-> <<source[t], target[t]>>])

IncomeEdges(f) == Edges(f, "credit", NodeOf(Income(f), CategoryOf), AccountOf)

\* Mutant of SpendingEdges: the categories kept are those of the income.
EdgesOfIncome(f) == Edges(f, "debit", AccountOf, NodeOf(Income(f), CategoryOf))

SpendingEdges(f) == Edges(f, "debit", AccountOf, NodeOf(Spending(f), CategoryOf))

PayeeEdges(f) ==
    Edges(f, "debit", NodeOf(Spending(f), CategoryOf), NodeOf(Paid(f), PayeeIn))

\* The dashboard's breakdown: categorized rows only, the top of each currency.
Breakdown(f, type) ==
    LET all == Stage(f, type, CategoryOf)
        first(i, j, k) == all[i][k] > all[j][k] \/ (all[i][k] = all[j][k] /\ i < j)
        ranked(i, k) == Cardinality({j \in DOMAIN all \ {None} : first(j, i, k)}) < Top
    IN  [i \in DOMAIN all \ {None} |-> [k \in Currencies |-> IF ranked(i, k) THEN all[i][k] ELSE 0]]

-----------------------------------------------------------------------------
(* Links as flows between accounts.                                         *)

\* A link is worth its debit side.
ValueOf == [l \in links |-> Worth[IF Fact[l.from].type = "debit" THEN l.from ELSE l.to]]

ValueCurrency(l) == CurrencyOf(IF Fact[l.from].type = "debit" THEN l.from ELSE l.to)

LinksIn(f) ==
    {l \in links : /\ Taken(l.from, f) \/ Taken(l.to, f)
                   /\ Allows(f.currency, ValueCurrency(l))}

\* flowLinkEnds: money flows from the debit to the credit.
FlowPair(l) ==
    LET swapped == Fact[l.from].type = "credit" /\ Fact[l.to].type = "debit"
    IN  IF swapped THEN <<Fact[l.to].account, Fact[l.from].account>>
        ELSE <<Fact[l.from].account, Fact[l.to].account>>

Gross(f) == [p \in Pairs |-> Total(ValueOf, {l \in LinksIn(f) : FlowPair(l) = p})]

\* The graph's summary of the links by their type, those within an account too.
LinkSummary(f) ==
    [ty \in {l.type : l \in LinksIn(f)} |-> Total(ValueOf, {l \in LinksIn(f) : l.type = ty})]

\* What an account node passes on, and what it is drawn as.
Passing(f, a, type) ==
    LET side == IF type = "credit" THEN 2 ELSE 1
    IN  Plus(Sum({t \in InScope(f) : Fact[t].account = a}, type),
             Total(Drawn(Gross(f)), {p \in Pairs : p[side] = a}))

AccountNode(f, a) == Larger(Passing(f, a, "credit"), Passing(f, a, "debit"))

\* GetLinkCycles: flows on no loop that have no reverse, and what circulates.
OneSided(f) ==
    LET gross == Gross(f)
        flowing == Flowing(gross)
        legs == UNION {Legs(c) : c \in Cycles(gross)}
    IN  {p \in flowing \ legs : Opposite(p) \notin flowing}

Circulating(gross, c) ==
    [k \in Currencies |->
        LET held == {gross[p][k] : p \in Legs(c)} \ {0}
        IN  IF held = {} THEN 0 ELSE CHOOSE n \in held : \A m \in held : n <= m]
-----------------------------------------------------------------------------
(* What the reports are asked of: links come and go, rows lose theirs.      *)

ReportsNext ==
    \/ \E b \in Batches : BulkCreateLinks(b)
    \/ \E t \in TxnIds : DeleteTransaction(t)

ReportsSpec == CatalogInit /\ [][ReportsNext]_catalog

-----------------------------------------------------------------------------
(* Properties.                                                              *)

\* The graph drawn has no loop, and what it leaves out is accounted for: a pair
\* of accounts is drawn with all that flowed between them unless it is a leg of
\* a reported loop; every reported loop lost something on a leg; and a flow that
\* no chain of flows brings back is drawn whole and listed as one-sided
\* (money_flow.go: analyzeAccountFlows; link_cycles.go: buildLinkCycleReport).
FlowsAccounted ==
    \A f \in Filters :
       LET gross == Gross(f)
           drawn == Drawn(gross)
           shown == {p \in Pairs : drawn[p] # Nothing}
           flowing == Flowing(gross)
           cycles == Cycles(gross)
           legs  == UNION {Legs(c) : c \in cycles}
           comesBack(p) == \A S \in SUBSET Accounts :
                              p[2] \in S /\ p[1] \notin S =>
                                 \E q \in flowing : q[1] \in S /\ q[2] \notin S
       IN  /\ \A S \in (SUBSET Accounts) \ {{}} : \E a \in S : \A b \in S : <<a, b>> \notin shown
           /\ \A p \in flowing \ legs : drawn[p] = gross[p]
           /\ legs \subseteq flowing
           /\ \A c \in cycles : \E p \in Legs(c) : drawn[p] # gross[p]
           /\ {p \in flowing : ~comesBack(p)} \subseteq OneSided(f)

\* In the stages of the income sources, the categories and the payees, every
\* node, the tail rolled into one included, is as wide as the edges that leave it
\* or enter it, and the stages carry the totals of the scope (money_flow.go:
\* buildMoneyFlowGraph, keepTopFlowNodes; currency.go: currencyScope).  The
\* accounts in the middle need not balance.
GraphConserves ==
    \A f \in Filters :
       LET income   == Shown(Income(f))
           incomeEdges == IncomeEdges(f)
           spendingEdges == SpendingEdges(f)
           payeeEdges == PayeeEdges(f)
           spending == Shown(Spending(f))
           paid     == Shown(Paid(f))
           leaving(edges, n) == Total(edges, {e \in DOMAIN edges : e[1] = n})
           entering(edges, n) == Total(edges, {e \in DOMAIN edges : e[2] = n})
           whole(stage) == Total(stage, DOMAIN stage)
       IN  /\ \A n \in DOMAIN income : income[n] = leaving(incomeEdges, n)
           /\ \A n \in DOMAIN spending :
                 /\ spending[n] = entering(spendingEdges, n)
                 /\ spending[n] = leaving(payeeEdges, n)
           /\ \A n \in DOMAIN paid : paid[n] = entering(payeeEdges, n)
           /\ whole(income) = Scope(f, "credit")
           /\ whole(spending) = Scope(f, "debit") /\ whole(paid) = Scope(f, "debit")
           /\ \A S \in {income, spending, paid} : Cardinality(DOMAIN S \ {Other}) <= Limit

\* Reports built from different queries over the same rows agree: the months of
\* the timeline and the days of the calendar add up to the scope, a breakdown
\* shows of a category what the graph does or nothing, and all of them under
\* the cap, and the links' summary is what flows between accounts and within
\* one (currency.go, money_flow_timeline.go, cash_flow_calendar.go,
\* dashboard.go, money_flow.go: queryMoneyFlowLinks).
ReportsAgree ==
    \A f \in Filters :
       LET months == Timeline(f)
           days   == Daily(f)
           income(r) == Total([d \in DOMAIN r |-> r[d].income], DOMAIN r)
           spent(r) == Total([d \in DOMAIN r |-> r[d].expense], DOMAIN r)
           summary == LinkSummary(f)
           within == {l \in LinksIn(f) : FlowPair(l)[1] = FlowPair(l)[2]}
       IN  /\ \A r \in {months, days} :
                 income(r) = Scope(f, "credit") /\ spent(r) = Scope(f, "debit")
           /\ \A type \in Types :
                 LET all == Stage(f, type, CategoryOf)
                     top == Breakdown(f, type)
                 IN  \A i \in DOMAIN all \ {None} :
                        /\ \A k \in Currencies : top[i][k] \in {0, all[i][k]}
                        /\ Cardinality(DOMAIN all \ {None}) <= Top => top[i] = all[i]
           /\ Total(summary, DOMAIN summary)
                = Plus(Total(Gross(f), Pairs), Total(ValueOf, within))
=============================================================================
