------------------------------ MODULE Balances ------------------------------
(***************************************************************************)
(* What the ledger says an account comes to: its balance now and on a past *)
(* day (account.go, asof_balance.go), and the cycle list with its running  *)
(* totals (billing_cycle.go).  Nothing here is stored; every operator      *)
(* reads the state of Ledger.                                              *)
(***************************************************************************)
EXTENDS Ledger, Functions

Debit(t) == IF txns[t].row.type = "debit" THEN txns[t].row.amount
            ELSE -txns[t].row.amount

Activity(S) == SumFunctionOnSet([t \in S |-> Debit(t)], S)

\* Mutant of UpTo: the day itself is left out.
Until(a, d) == {t \in TxnsOf(txns, a) : txns[t].row.date < d}

UpTo(a, d) == {t \in TxnsOf(txns, a) : txns[t].row.date <= d}

\* Of an account of kind bank, which counts credits as positive.  That of a
\* loan is made of the payments attached to it.
Balance(a) == -Activity(TxnsOf(txns, a))
BalanceAsOf(a, d) == -Activity(UpTo(a, d))

-----------------------------------------------------------------------------
(* GET /accounts/:id/billing-cycles: each cycle with what is attached to it *)
(* and the total of the list, oldest first, down to it.                     *)

AttachedTo(c) == {t \in DOMAIN txns : txns[t].cycle = c}

RunningTotal(c) ==
    LET first == {d \in CyclesOf(cycles, c.acct) : d.start <= c.start}
    IN  SumFunctionOnSet([d \in first |-> Activity(AttachedTo(d))], first)

ListedCycles(a) ==
    {[cycle |-> c, count |-> Cardinality(AttachedTo(c)), total |-> RunningTotal(c)] :
       c \in CyclesOf(cycles, a)}

-----------------------------------------------------------------------------
\* The user moved no row of a by hand, and the last read attached every row
\* that has a cycle to be in.
AttachedByDate(a) ==
    \A t \in TxnsOf(txns, a) :
        IF \E c \in CyclesOf(cycles, a) : txns[t].row.date <= c.end
          THEN txns[t].cycle # NoCycle /\ ~txns[t].chosen
          ELSE txns[t].cycle = NoCycle

\* The account list and the cycle list tell one story: where every row is in
\* the cycle of its date, and in no other, the running total through each cycle
\* is the balance on its last day.
TotalsAreBalances ==
    \A a \in {b \in Accounts : Exists(b) /\ accounts[b].kind = "bank"} :
        AttachedByDate(a) /\ CyclesApart(a) =>
          \A l \in ListedCycles(a) : l.total = -BalanceAsOf(a, l.cycle.end)
=============================================================================
