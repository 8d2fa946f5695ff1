------------------------------ MODULE MCLedger ------------------------------
(* Ledger on a card whose billing day changes and a bank account without one, *)
(* over months of three and of two days.                                      *)
EXTENDS Summary, TLC

CONSTANTS card, bank

MCStart == [m \in 0 .. 6 |-> IF m % 2 = 0 THEN 5 * (m \div 2) ELSE 5 * (m \div 2) + 3]

Row(d, ty, n) == [date |-> d, type |-> ty, amount |-> n]
Spent == Row(7, "debit", 2)
Paid == Row(9, "credit", 1)
MCRows == {Spent, Paid}

\* The same row twice.
MCBatch == <<Spent, Spent>>
MCImports == {[op |-> "skip", acct |-> card, batch |-> MCBatch, named |-> FALSE],
              [op |-> "keep", acct |-> card, batch |-> MCBatch, named |-> TRUE]}

MCFirstDay == [a \in {card, bank} |-> IF a = card THEN 2 ELSE NoDay]
MCFirstKind == [a \in {card, bank} |-> "bank"]

Patch(a, d, c, k) == [acct |-> a, day |-> d, closed |-> c, kind |-> k]
\* A later billing day, given alone or on closing the account; opening it again.
MCPatches == {Patch(card, 3, Keep, Keep), Patch(card, 3, TRUE, Keep),
              Patch(card, Keep, FALSE, Keep)}

\* The hypotheses of LedgerProofs!CyclesStayApart hold of this instance; that no
\* row is dated ahead makes NoneAhead hold of it.
ASSUME ApartAssumption == LongMonths /\ MaxCycles >= 2
ASSUME PastRows == \A r \in MCRows : r.date <= FirstToday

TwoSkips == {<<"skip", card, "skip", card>>}
TwoIds == Permutations(Requests)
=============================================================================
