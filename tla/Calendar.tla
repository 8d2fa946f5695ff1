------------------------------ MODULE Calendar ------------------------------
(***************************************************************************)
(* The calendar arithmetic of the billing-cycle generator                  *)
(* (backend/handlers/billing_cycle.go and transaction_summary.go).  Days   *)
(* are numbered through; month m is Start[m] .. Start[m + 1] - 1, so that  *)
(* months of different lengths, and billing days past the end of the short *)
(* ones, are the general case.                                             *)
(***************************************************************************)
EXTENDS Integers

CONSTANTS
    LastMonth,    \* months are 0 .. LastMonth
    Start         \* first day of each month, and of the one after the last

Months == 0 .. LastMonth

ASSUME CalendarAssumption ==
    /\ LastMonth \in Nat
    /\ Start \in [0 .. (LastMonth + 1) -> Nat]
    /\ \A m \in Months : Start[m] < Start[m + 1]

Dates == Start[0] .. (Start[LastMonth + 1] - 1)

MonthOf(d) == CHOOSE m \in Months : Start[m] <= d /\ d < Start[m + 1]
MonthEnd(m) == Start[m + 1] - 1

\* The billing day within month m, or the month's last day when it is shorter.
BillingDate(m, b) ==
    IF Start[m] + b - 1 <= MonthEnd(m) THEN Start[m] + b - 1 ELSE MonthEnd(m)

\* The cycle that ends in month m: from the day after the previous billing
\* date to this one, both included.
CycleStart(m, b) == BillingDate(m - 1, b) + 1
CycleEnd(m, b) == BillingDate(m, b)
=============================================================================
