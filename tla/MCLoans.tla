------------------------------- MODULE MCLoans -------------------------------
(* Two loans beside a bank account whose rows pay them or released them, over *)
(* months of three days.                                                      *)
EXTENDS Loans, TLC

CONSTANTS bank, loanA, loanB

MCStart == [m \in 0 .. 9 |-> 3 * m]

Row(d, ty, n) == [date |-> d, type |-> ty, amount |-> n]
Payment == Row(9, "debit", 6)
Received == Row(9, "credit", 8)
MCRows == {Payment, Received}

MCFirstDay == [a \in {bank, loanA, loanB} |-> NoDay]
MCFirstKind == [a \in {bank, loanA, loanB} |-> IF a = bank THEN "bank" ELSE "loan"]

TwoAlike == Permutations({loanA, loanB})

\* A broken first period, and installments rounded up so far that they repay
\* the loan before the last; a transfer opens one without interest.
MCTerms == {[principal |-> 4, fee |-> 0, rate |-> 1, tenure |-> 3, first |-> 12,
             disbursed |-> 8]}
MCOpenings == {[rate |-> 0, tenure |-> 2, first |-> 15]}
MCDates == {13}
=============================================================================
