---------------------------- MODULE Amortization ----------------------------
(***************************************************************************)
(* The amortization table of a loan (backend/handlers/loan.go).            *)
(*                                                                         *)
(* Amounts are minor units, rates fractions of RateUnit per month.  What   *)
(* the code computes in floating point and then rounds is the same         *)
(* quotient of integers here, rounded half up.                             *)
(***************************************************************************)
EXTENDS Calendar, Sequences, Functions

CONSTANTS
    RateUnit,     \* 120000: basis points a year, per month
    MonthDays,    \* 30: days of a month that interest is prorated by
    Rupee,        \* 100: minor units of what a lender rounds up to
    NoDate

ASSUME UnitsAssumption ==
    RateUnit \in Nat \ {0} /\ MonthDays \in Nat \ {0} /\ Rupee \in Nat \ {0}

Terms == [principal : Nat \ {0}, fee : Nat, rate : Nat, tenure : Nat \ {0},
          first : Dates, disbursed : Dates \cup {NoDate}]

Rounded(n, d) == (2 * n + d) \div (2 * d)

RupeeCeil(x) == IF x <= 0 THEN x ELSE ((x + Rupee - 1) \div Rupee) * Rupee

AddMonths(d, k) == BillingDate(MonthOf(d) + k, d - Start[MonthOf(d)] + 1)

BrokenPeriodInterest(balance, rate, days) ==
    Rounded(balance * rate * days, RateUnit * MonthDays)

\* A function, not ^, of which the provers know nothing.
Power(x, n) ==
    LET p[k \in 0 .. n] == IF k = 0 THEN 1 ELSE x * p[k - 1]
    IN  p[n]

LoanEMI(balance, rate, n) ==
    LET whole == Power(rate + RateUnit, n)
    IN  IF rate = 0 THEN Rounded(balance, n)
        ELSE Rounded(balance * rate * whole, RateUnit * (whole - Power(RateUnit, n)))

\* Solved so that the first of the n installments also carries interest.
LoanEMIWithStub(balance, rate, n, interest) ==
    LET whole == Power(rate + RateUnit, n - 1)
    IN  IF n <= 1 THEN balance + interest
        ELSE IF rate = 0 THEN Rounded(balance + interest, n)
        ELSE Rounded((balance + interest) * (rate * whole),
                     rate * whole + RateUnit * (whole - Power(RateUnit, n - 1)))

\* Days of a first period that is not a whole month; 0 when it is one.
StubDays(t) ==
    IF t.disbursed = NoDate \/ t.disbursed >= t.first THEN 0
    ELSE IF AddMonths(t.disbursed, 1) = t.first THEN 0
    ELSE t.first - t.disbursed

Due(t, i) == AddMonths(t.first, i - 1)

\* What the transfers in S amount to.
Amounts(moved, S) == SumFunctionOnSet([s \in S |-> moved[s].amount], S)

\* Principal that transfers moved in before day d, by where from.
AddedBefore(added, d) == Amounts(added, {s \in DOMAIN added : added[s].date < d})

\* Mutant of PrincipalPart: a rounded-up installment is charged in full.
WholePart(i, n, emi, interest, balance) ==
    IF i = n THEN (IF balance > 0 THEN balance ELSE 0)
    ELSE IF emi > interest THEN emi - interest
    ELSE 0

\* The principal part of installment i of n.
PrincipalPart(i, n, emi, interest, balance) ==
    IF i = n THEN (IF balance > 0 THEN balance ELSE 0)
    ELSE IF emi > interest
      THEN (IF emi - interest > balance THEN balance ELSE emi - interest)
    ELSE 0

\* Installments 1 .. tenure of terms t over the transfers in added.  Entry 0
\* is the loan as released.
LoanAmortization(t, added) ==
    LET n == t.tenure
        stub(i) == i = 1 /\ StubDays(t) > 0
        broken(balance) == BrokenPeriodInterest(balance, t.rate, StubDays(t))
        emi(i, balance) ==
            RupeeCeil(IF stub(i) THEN LoanEMIWithStub(balance, t.rate, n, broken(balance))
                      ELSE LoanEMI(balance, t.rate, n - i + 1))
        entry[i \in 0 .. n] ==
            IF i = 0
              THEN [due |-> t.first, emi |-> emi(1, t.principal), interest |-> 0,
                    principal |-> 0, balance |-> t.principal, recast |-> FALSE]
            ELSE LET last == entry[i - 1]
                     new == AddedBefore(added, Due(t, i))
                            - (IF i = 1 THEN 0 ELSE AddedBefore(added, Due(t, i - 1)))
                     owed == last.balance + new
                     level == IF new > 0 THEN emi(i, owed) ELSE last.emi
                     interest == IF stub(i) THEN broken(owed)
                                 ELSE Rounded(owed * t.rate, RateUnit)
                     part == PrincipalPart(i, n, level, interest, owed)
                 IN  [due |-> Due(t, i), emi |-> level, interest |-> interest,
                      principal |-> part, balance |-> owed - part,
                      recast |-> last.recast \/ new > 0]
    IN  [i \in 1 .. n |-> entry[i]]
=============================================================================
