-------------------------- MODULE MCRecurringTerms --------------------------
(* RecurringTerms on one series, three days and two accounts. *)
EXTENDS RecurringTerms, TLC

CONSTANTS a1, a2

Period(first, last) == [start |-> first, end |-> last, amount |-> 1, account |-> a1]

\* All three days, the first of them, the last, and an inverted period.  Other
\* periods and the other account come of changes of value.
MCRanges == {Period(0, 3), Period(0, 1), Period(2, 3), Period(2, 1)}

\* Lists of one and of two ranges; some of them are refused.
MCLists == {{g, h} : g \in MCRanges, h \in MCRanges}

\* A move to the other account.
MCValues == {[amount |-> Omitted, account |-> a2]}

Symmetric == Permutations(Ids) \cup Permutations(Requests)
=============================================================================
