----------------------------- MODULE LoansProofs -----------------------------
(***************************************************************************)
(* The money of loans adds up: a table repays its loan, what its unpaid    *)
(* installments repay is outstanding, and transfers move debt and give it  *)
(* back; and a transaction has one role, provided no credit is linked      *)
(* while an attachment of it is uncommitted.  Whatever the terms, the      *)
(* rates, the units, the calendar, the ledger and the number of requests.  *)
(***************************************************************************)
EXTENDS Loans, LedgerProofs

-----------------------------------------------------------------------------
(* What the tables are computed with. *)

LEMMA RoundedIsInt ==
    ASSUME NEW n \in Int, NEW d \in Nat \ {0}
    PROVE  Rounded(n, d) \in Int /\ (n >= 0 => Rounded(n, d) >= 0)
<1> DEFINE x == 2 * n + d
           y == 2 * d
<1>1. x \in Int /\ y \in Nat /\ y > 0 /\ (n >= 0 => x >= 0)
    OBVIOUS
<1> HIDE DEF x, y
<1>2. x \div y \in Int /\ (x >= 0 => x \div y >= 0)
    BY <1>1
<1>3. Rounded(n, d) = x \div y
    BY DEF Rounded, x, y
<1> QED
    BY <1>1, <1>2, <1>3

LEMMA RupeeCeilIsInt ==
    ASSUME NEW x \in Int
    PROVE  RupeeCeil(x) \in Int
<1>1. Rupee \in Nat /\ Rupee > 0 /\ x + Rupee - 1 \in Int
    BY UnitsAssumption
<1>2. (x + Rupee - 1) \div Rupee \in Int
    BY <1>1
<1> QED
    BY <1>1, <1>2 DEF RupeeCeil

IsPower(x, n, p) == p = [k \in 0 .. n |-> IF k = 0 THEN 1 ELSE x * p[k - 1]]

LEMMA PowerExists ==
    ASSUME NEW x, NEW n \in Nat
    PROVE  \E p : IsPower(x, n, p)
<1> DEFINE K == {m \in 0..n : \E p : IsPower(x, m, p)}
<1>1. 0 \in K
  <2> DEFINE p == [k \in 0..0 |-> 1]
  <2>1. IsPower(x, 0, p)
    <3>1. \A k \in 0..0 : k = 0
        OBVIOUS
    <3> QED
        BY <3>1 DEF IsPower
  <2> HIDE DEF p
  <2> QED
      BY <2>1
<1>2. ASSUME NEW m \in 0..(n - 1), m \in K
      PROVE  m + 1 \in K
  <2>1. PICK p : IsPower(x, m, p)
      BY <1>2
  <2> DEFINE q == [k \in 0..(m + 1) |-> IF k <= m THEN p[k] ELSE x * p[m]]
  <2>2. \A k \in 0..m : p[k] = IF k = 0 THEN 1 ELSE x * p[k - 1]
      BY <2>1 DEF IsPower
  <2>3. ASSUME NEW k \in 0..(m + 1)
        PROVE  q[k] = IF k = 0 THEN 1 ELSE x * q[k - 1]
    <3>1. CASE k = 0
      <4>1. k \in 0..m /\ k <= m
          BY <3>1
      <4> QED
          BY <2>2, <3>1, <4>1
    <3>2. CASE k # 0 /\ k <= m
      <4>1. k \in 0..m /\ k - 1 \in 0..(m + 1) /\ k - 1 <= m
          BY <3>2
      <4> QED
          BY <2>2, <3>2, <4>1
    <3>3. CASE k # 0 /\ ~ (k <= m)
      <4>1. k = m + 1 /\ k - 1 = m /\ m \in 0..(m + 1) /\ m <= m
          BY <3>3
      <4> QED
          BY <3>3, <4>1
    <3> QED
        BY <3>1, <3>2, <3>3
  <2>4. q = [k \in 0..(m + 1) |-> q[k]]
      OBVIOUS
  <2> HIDE DEF q
  <2>5. IsPower(x, m + 1, q)
      BY <2>3, <2>4 DEF IsPower
  <2>6. m + 1 \in 0..n
      OBVIOUS
  <2> QED
      BY <2>5, <2>6
<1> HIDE DEF K
<1>3. \A m \in 0..n : m \in K
    BY <1>1, <1>2, Induct
<1>4. n \in K
    BY <1>3
<1> QED
    BY <1>4 DEF K

LEMMA PowerUnfolds ==
    ASSUME NEW x, NEW n \in Nat
    PROVE  \E p : IsPower(x, n, p) /\ Power(x, n) = p[n]
<1> DEFINE p == CHOOSE p : IsPower(x, n, p)
<1>1. IsPower(x, n, p)
    BY PowerExists
<1>2. Power(x, n) = p[n]
    BY DEF Power, IsPower
<1> HIDE DEF p
<1> QED
    BY <1>1, <1>2

LEMMA PowersGrow ==
    ASSUME NEW n \in Nat \ {0}, NEW x \in Nat, NEW y \in Nat, 1 <= y, y < x
    PROVE  /\ Power(x, n) \in Nat /\ Power(y, n) \in Nat
           /\ 1 <= Power(y, n) /\ Power(y, n) < Power(x, n)
<1>1. PICK p : IsPower(x, n, p) /\ Power(x, n) = p[n]
    BY PowerUnfolds
<1>2. PICK q : IsPower(y, n, q) /\ Power(y, n) = q[n]
    BY PowerUnfolds
<1> DEFINE K == {k \in 0..n : /\ p[k] \in Nat /\ q[k] \in Nat /\ 1 <= q[k] /\ q[k] <= p[k]
                              /\ k # 0 => q[k] < p[k]}
<1>3. \A k \in 0..n : /\ p[k] = IF k = 0 THEN 1 ELSE x * p[k - 1]
                      /\ q[k] = IF k = 0 THEN 1 ELSE y * q[k - 1]
    BY <1>1, <1>2 DEF IsPower
<1>4. 0 \in K
  <2>1. 0 \in 0..n
      OBVIOUS
  <2>2. p[0] = 1 /\ q[0] = 1
      BY <1>3, <2>1
  <2> QED
      BY <2>1, <2>2
<1>5. ASSUME NEW k \in 0..(n - 1), k \in K
      PROVE  k + 1 \in K
  <2>1. k + 1 \in 0..n /\ k + 1 # 0 /\ (k + 1) - 1 = k
      OBVIOUS
  <2>2. p[k + 1] = x * p[k] /\ q[k + 1] = y * q[k]
      BY <1>3, <2>1
  <2> DEFINE a == p[k]
             b == q[k]
  <2>3. a \in Nat /\ b \in Nat /\ 1 <= b /\ b <= a
      BY <1>5
  <2> HIDE DEF a, b
  <2>4. x * a \in Nat /\ y * b \in Nat
      BY <2>3
  <2>5. 1 <= y * b
      BY <2>3
  <2>6. y * b <= y * a /\ y * a < x * a
    <3>1. PICK c \in Nat : a = b + c
      <4>1. a - b \in Nat /\ a = b + (a - b)
          BY <2>3
      <4> QED
          BY <4>1
    <3>2. PICK d \in Nat : x = y + d /\ d >= 1
      <4>1. x - y \in Nat /\ x = y + (x - y) /\ x - y >= 1
          OBVIOUS
      <4> QED
          BY <4>1
    <3>3. y * a = y * b + y * c /\ y * c \in Nat /\ y * b \in Nat
        BY <2>3, <3>1
    <3>4. x * a = y * a + d * a /\ d * a \in Nat /\ y * a \in Nat
        BY <2>3, <3>2
    <3>5. d * a >= 1
        BY <2>3, <3>2
    <3> QED
        BY <3>3, <3>4, <3>5
  <2>7. y * a \in Int
      BY <2>3
  <2>8. p[k + 1] = x * a /\ q[k + 1] = y * b
      BY <2>2 DEF a, b
  <2> QED
      BY <2>1, <2>4, <2>5, <2>6, <2>7, <2>8
<1> HIDE DEF K
<1>6. \A k \in 0..n : k \in K
    BY <1>4, <1>5, Induct
<1>7. n \in K
    BY <1>6
<1> QED
    BY <1>1, <1>2, <1>7 DEF K

LEMMA LoanEMIIsInt ==
    ASSUME NEW balance \in Int, NEW rate \in Nat, NEW n \in Nat \ {0}
    PROVE  LoanEMI(balance, rate, n) \in Int
<1>1. CASE rate = 0
    BY <1>1, RoundedIsInt DEF LoanEMI
<1>2. CASE rate # 0
  <2> DEFINE p == Power(rate + RateUnit, n)
             q == Power(RateUnit, n)
  <2>1. RateUnit \in Nat /\ 1 <= RateUnit /\ rate + RateUnit \in Nat /\ RateUnit < rate + RateUnit
      BY <1>2, UnitsAssumption
  <2>2. p \in Nat /\ q \in Nat /\ 1 <= q /\ q < p
      BY <2>1, PowersGrow
  <2>3. LoanEMI(balance, rate, n) = Rounded(balance * rate * p, RateUnit * (p - q))
      BY <1>2 DEF LoanEMI
  <2> HIDE DEF p, q
  <2>4. balance * rate * p \in Int
      BY <2>2
  <2>5. p - q \in Nat /\ p - q > 0
      BY <2>2
  <2>6. RateUnit * (p - q) \in Nat \ {0}
      BY <2>1, <2>5
  <2> QED
      BY <2>3, <2>4, <2>6, RoundedIsInt
<1> QED
    BY <1>1, <1>2

LEMMA LoanEMIWithStubIsInt ==
    ASSUME NEW balance \in Int, NEW rate \in Nat, NEW n \in Nat \ {0}, NEW interest \in Int
    PROVE  LoanEMIWithStub(balance, rate, n, interest) \in Int
<1>1. CASE n <= 1
    BY <1>1 DEF LoanEMIWithStub
<1>2. CASE ~ (n <= 1) /\ rate = 0
    BY <1>2, RoundedIsInt DEF LoanEMIWithStub
<1>3. CASE ~ (n <= 1) /\ rate # 0
  <2> DEFINE p == Power(rate + RateUnit, n - 1)
             q == Power(RateUnit, n - 1)
  <2>1. /\ RateUnit \in Nat /\ 1 <= RateUnit /\ rate + RateUnit \in Nat
        /\ RateUnit < rate + RateUnit /\ n - 1 \in Nat \ {0}
      BY <1>3, UnitsAssumption
  <2>2. p \in Nat /\ q \in Nat /\ 1 <= q /\ q < p
      BY <2>1, PowersGrow
  <2>3. LoanEMIWithStub(balance, rate, n, interest)
          = Rounded((balance + interest) * (rate * p), rate * p + RateUnit * (p - q))
      BY <1>3 DEF LoanEMIWithStub
  <2> HIDE DEF p, q
  <2>4. rate * p \in Nat /\ balance + interest \in Int
      BY <2>2
  <2>5. (balance + interest) * (rate * p) \in Int
      BY <2>4
  <2>6. p - q \in Nat /\ p - q > 0
      BY <2>2
  <2>7. RateUnit * (p - q) \in Nat \ {0}
      BY <2>1, <2>6
  <2>8. rate * p + RateUnit * (p - q) \in Nat \ {0}
      BY <2>4, <2>7
  <2> QED
      BY <2>3, <2>5, <2>8, RoundedIsInt
<1> QED
    BY <1>1, <1>2, <1>3

-----------------------------------------------------------------------------
(* Due dates. *)

(* Terms whose installments the calendar reaches.                          *)
InCalendar(t) == MonthOf(t.first) >= 1 /\ MonthOf(t.first) + t.tenure <= LastMonth + 1

Scheduled(t) == t \in Terms /\ InCalendar(t)

LEMMA TermsFields ==
    ASSUME NEW t, t \in Terms
    PROVE  /\ t.principal \in Nat \ {0} /\ t.fee \in Nat /\ t.rate \in Nat
           /\ t.tenure \in Nat \ {0} /\ t.first \in Dates /\ t.disbursed \in Dates \cup {NoDate}
BY DEF Terms

LEMMA DueIs ==
    ASSUME NEW t, Scheduled(t), NEW i \in 1..t.tenure
    PROVE  \E b \in Nat \ {0} : /\ MonthOf(t.first) + i - 1 \in Months
                                /\ MonthOf(t.first) \in Int
                                /\ b = t.first - Start[MonthOf(t.first)] + 1
                                /\ Due(t, i) = BillingDate(MonthOf(t.first) + i - 1, b)
<1> DEFINE m == MonthOf(t.first)
           b == t.first - Start[m] + 1
<1>1. t.tenure \in Nat \ {0} /\ t.first \in Dates
    BY TermsFields DEF Scheduled
<1>2. m \in Months /\ Start[m] <= t.first /\ t.first \in Int
    BY <1>1, MonthOfDate
<1>3. LastMonth \in Nat /\ m >= 1 /\ m + t.tenure <= LastMonth + 1
    BY CalendarAssumption DEF Scheduled, InCalendar
<1>4. m \in 0..(LastMonth + 1) /\ m \in Int
    BY <1>2, <1>3 DEF Months
<1>5. Start[m] \in Nat
    BY <1>4, StartIsNat
<1>6. b \in Nat \ {0}
    BY <1>2, <1>5
<1>7. i \in Int /\ 1 <= i /\ i <= t.tenure
    BY <1>1
<1>8. m + i - 1 \in Months /\ m + (i - 1) = m + i - 1
    BY <1>1, <1>3, <1>4, <1>7 DEF Months
<1>9. Due(t, i) = BillingDate(m + (i - 1), b)
    BY DEF Due, AddMonths
<1> QED
    BY <1>4, <1>6, <1>8, <1>9

LEMMA DueGrows ==
    ASSUME NEW t, Scheduled(t), NEW i \in 1..t.tenure, NEW j \in 1..t.tenure, i < j
    PROVE  Due(t, i) \in Int /\ Due(t, j) \in Int /\ Due(t, i) < Due(t, j)
<1> DEFINE m == MonthOf(t.first)
           b == t.first - Start[m] + 1
<1>0. t.tenure \in Nat \ {0}
    BY TermsFields DEF Scheduled
<1>1. /\ b \in Nat \ {0} /\ m \in Int
      /\ m + i - 1 \in Months /\ Due(t, i) = BillingDate(m + i - 1, b)
      /\ m + j - 1 \in Months /\ Due(t, j) = BillingDate(m + j - 1, b)
    BY DueIs
<1>2. m + i - 1 < m + j - 1
    BY <1>0, <1>1
<1> HIDE DEF m, b
<1> QED
    BY <1>1, <1>2, BillingDateRises, BillingDateFits

LEMMA DueIsInt ==
    ASSUME NEW t, Scheduled(t), NEW i \in 1..t.tenure
    PROVE  Due(t, i) \in Int
BY DueIs, BillingDateFits

-----------------------------------------------------------------------------
(* What transfers amount to. *)

Moving(added) ==
    /\ IsFiniteSet(DOMAIN added)
    /\ \A s \in DOMAIN added : added[s].amount \in Nat /\ added[s].date \in Int

LEMMA AmountsFacts ==
    ASSUME NEW added, Moving(added), NEW S, S \subseteq DOMAIN added
    PROVE  /\ IsFiniteSet(S) /\ Amounts(added, S) \in Nat
           /\ Amounts(added, S) = SumFunctionOnSet([s \in DOMAIN added |-> added[s].amount], S)
<1> DEFINE f == [s \in S |-> added[s].amount]
           g == [s \in DOMAIN added |-> added[s].amount]
<1>1. IsFiniteSet(S) /\ \A s \in S : f[s] \in Nat /\ g[s] = f[s] /\ f[s] \in Int
    BY FS_Subset DEF Moving
<1>2. Amounts(added, S) = SumFunctionOnSet(f, S)
    BY DEF Amounts
<1> HIDE DEF f, g
<1>3. SumFunctionOnSet(f, S) \in Nat /\ SumFunctionOnSet(f, S) = SumFunctionOnSet(g, S)
    BY <1>1, SumIsNat, SumSame
<1> QED
    BY <1>1, <1>2, <1>3 DEF g

LEMMA AmountsGrow ==
    ASSUME NEW added, Moving(added), NEW R, NEW S, R \subseteq S, S \subseteq DOMAIN added
    PROVE  Amounts(added, R) <= Amounts(added, S)
<1> DEFINE g == [s \in DOMAIN added |-> added[s].amount]
           D == S \ R
<1>1. R \subseteq DOMAIN added /\ D \subseteq DOMAIN added /\ R \cap D = {} /\ R \cup D = S
    OBVIOUS
<1>2. \A s \in DOMAIN added : g[s] \in Int
    BY DEF Moving
<1> HIDE DEF D
<1>3. /\ IsFiniteSet(R) /\ Amounts(added, R) \in Nat /\ Amounts(added, R) = SumFunctionOnSet(g, R)
      /\ IsFiniteSet(D) /\ Amounts(added, D) \in Nat /\ Amounts(added, D) = SumFunctionOnSet(g, D)
      /\ Amounts(added, S) \in Nat /\ Amounts(added, S) = SumFunctionOnSet(g, S)
    BY <1>1, AmountsFacts
<1> HIDE DEF g
<1>4. SumFunctionOnSet(g, R \cup D) = SumFunctionOnSet(g, R) + SumFunctionOnSet(g, D)
  <2>1. \A s \in R \cup D : g[s] \in Int
      BY <1>1, <1>2
  <2> QED
      BY <1>1, <1>3, <2>1, SumOfUnion
<1>5. Amounts(added, S) = Amounts(added, R) + Amounts(added, D)
    BY <1>1, <1>3, <1>4
<1> QED
    BY <1>3, <1>5

LEMMA AddedBeforeFacts ==
    ASSUME NEW added, Moving(added)
    PROVE  /\ \A d : AddedBefore(added, d) \in Nat
           /\ \A d, e \in Int : d <= e => AddedBefore(added, d) <= AddedBefore(added, e)
           /\ \A d : (\A s \in DOMAIN added : added[s].date < d) =>
                 AddedBefore(added, d) = Amounts(added, DOMAIN added)
           /\ \A d : AddedBefore(added, d) <= Amounts(added, DOMAIN added)
<1> DEFINE before(d) == {s \in DOMAIN added : added[s].date < d}
<1>1. \A d : before(d) \subseteq DOMAIN added /\ AddedBefore(added, d) = Amounts(added, before(d))
    BY DEF AddedBefore
<1>2. \A d, e \in Int : d <= e => before(d) \subseteq before(e)
    BY DEF Moving
<1>3. \A d : (\A s \in DOMAIN added : added[s].date < d) => before(d) = DOMAIN added
    OBVIOUS
<1> HIDE DEF before
<1>4. \A d : AddedBefore(added, d) \in Nat
    BY <1>1, AmountsFacts
<1>5. ASSUME NEW d \in Int, NEW e \in Int, d <= e
      PROVE  AddedBefore(added, d) <= AddedBefore(added, e)
    BY <1>1, <1>2, <1>5, AmountsGrow
<1>6. \A d : AddedBefore(added, d) <= Amounts(added, DOMAIN added)
    BY <1>1, AmountsGrow
<1> QED
    BY <1>1, <1>3, <1>4, <1>5, <1>6

-----------------------------------------------------------------------------
(* The table. *)

Stub(t, i) == i = 1 /\ StubDays(t) > 0
Broken(t, balance) == BrokenPeriodInterest(balance, t.rate, StubDays(t))
Level(t, i, balance) ==
    RupeeCeil(IF Stub(t, i) THEN LoanEMIWithStub(balance, t.rate, t.tenure, Broken(t, balance))
              ELSE LoanEMI(balance, t.rate, t.tenure - i + 1))

Opening(t) ==
    [due |-> t.first, emi |-> Level(t, 1, t.principal), interest |-> 0, principal |-> 0,
     balance |-> t.principal, recast |-> FALSE]

NewBefore(t, added, i) ==
    AddedBefore(added, Due(t, i)) - (IF i = 1 THEN 0 ELSE AddedBefore(added, Due(t, i - 1)))

Installment(t, i, last, new) ==
    LET owed == last.balance + new
        level == IF new > 0 THEN Level(t, i, owed) ELSE last.emi
        interest == IF Stub(t, i) THEN Broken(t, owed) ELSE Rounded(owed * t.rate, RateUnit)
        part == PrincipalPart(i, t.tenure, level, interest, owed)
    IN  [due |-> Due(t, i), emi |-> level, interest |-> interest, principal |-> part,
         balance |-> owed - part, recast |-> last.recast \/ new > 0]

IsTableOf(t, added, n, e) ==
    e = [i \in 0 .. n |-> IF i = 0 THEN Opening(t)
                          ELSE Installment(t, i, e[i - 1], NewBefore(t, added, i))]

LEMMA TableExists ==
    ASSUME NEW t, NEW added, NEW n \in Nat
    PROVE  \E e : IsTableOf(t, added, n, e)
<1> DEFINE K == {m \in 0..n : \E e : IsTableOf(t, added, m, e)}
<1>1. 0 \in K
  <2> DEFINE e == [k \in 0..0 |-> Opening(t)]
  <2>1. IsTableOf(t, added, 0, e)
    <3>1. \A k \in 0..0 : k = 0
        OBVIOUS
    <3> QED
        BY <3>1 DEF IsTableOf
  <2> HIDE DEF e
  <2> QED
      BY <2>1
<1>2. ASSUME NEW m \in 0..(n - 1), m \in K
      PROVE  m + 1 \in K
  <2>1. PICK e : IsTableOf(t, added, m, e)
      BY <1>2
  <2> DEFINE row(g, k) == Installment(t, k, g[k - 1], NewBefore(t, added, k))
  <2>2. \A k \in 0..m : e[k] = IF k = 0 THEN Opening(t) ELSE row(e, k)
      BY <2>1 DEF IsTableOf
  <2> DEFINE last == Installment(t, m + 1, e[m], NewBefore(t, added, m + 1))
             q == [k \in 0..(m + 1) |-> IF k <= m THEN e[k] ELSE last]
  <2>3. ASSUME NEW k \in 0..(m + 1)
        PROVE  q[k] = IF k = 0 THEN Opening(t) ELSE row(q, k)
    <3>1. CASE k = 0
      <4>1. k \in 0..m /\ k <= m
          BY <3>1
      <4> HIDE DEF last, row
      <4> QED
          BY <2>2, <3>1, <4>1
    <3>2. CASE k # 0 /\ k <= m
      <4>1. k \in 0..m /\ k - 1 \in 0..(m + 1) /\ k - 1 <= m
          BY <3>2
      <4>2. q[k] = e[k] /\ q[k - 1] = e[k - 1]
          BY <3>2, <4>1
      <4> HIDE DEF q
      <4>3. e[k] = row(e, k)
          BY <2>2, <3>2, <4>1
      <4> QED
          BY <3>2, <4>2, <4>3
    <3>3. CASE k # 0 /\ ~ (k <= m)
      <4>1. k = m + 1 /\ k - 1 = m /\ m \in 0..(m + 1) /\ m <= m
          BY <3>3
      <4>2. q[k] = last /\ q[m] = e[m]
          BY <3>3, <4>1
      <4> HIDE DEF q
      <4> QED
          BY <3>3, <4>1, <4>2
    <3> HIDE DEF q, row
    <3> QED
        BY <3>1, <3>2, <3>3
  <2>4. q = [k \in 0..(m + 1) |-> q[k]]
      OBVIOUS
  <2> HIDE DEF q
  <2>5. IsTableOf(t, added, m + 1, q)
      BY <2>3, <2>4 DEF IsTableOf
  <2>6. m + 1 \in 0..n
      OBVIOUS
  <2> QED
      BY <2>5, <2>6
<1> HIDE DEF K
<1>3. \A m \in 0..n : m \in K
    BY <1>1, <1>2, Induct
<1>4. n \in K
    BY <1>3
<1> QED
    BY <1>4 DEF K

LEMMA TableUnfolds ==
    ASSUME NEW t, t \in Terms, NEW added
    PROVE  \E e : /\ IsTableOf(t, added, t.tenure, e)
                  /\ LoanAmortization(t, added) = [i \in 1..t.tenure |-> e[i]]
<1> DEFINE e == CHOOSE e : IsTableOf(t, added, t.tenure, e)
<1>1. IsTableOf(t, added, t.tenure, e)
  <2>1. t.tenure \in Nat
      BY TermsFields
  <2> QED
      BY <2>1, TableExists
<1>2. LoanAmortization(t, added) = [i \in 1..t.tenure |-> e[i]]
    BY DEF LoanAmortization, IsTableOf, Installment, Opening, Level, Stub, Broken, NewBefore
<1> HIDE DEF e
<1> QED
    BY <1>1, <1>2

LEMMA NewBeforeFacts ==
    ASSUME NEW t, Scheduled(t), NEW added, Moving(added), NEW i \in 1..t.tenure
    PROVE  /\ NewBefore(t, added, i) \in Nat
           /\ AddedBefore(added, Due(t, i)) \in Nat
           /\ AddedBefore(added, Due(t, i)) =
                 NewBefore(t, added, i) + (IF i = 1 THEN 0 ELSE AddedBefore(added, Due(t, i - 1)))
<1>1. AddedBefore(added, Due(t, i)) \in Nat
    BY AddedBeforeFacts
<1>2. CASE i = 1
    BY <1>1, <1>2 DEF NewBefore
<1>3. CASE i # 1
  <2>1. i - 1 \in 1..t.tenure /\ i - 1 < i
    <3>1. t.tenure \in Nat
        BY TermsFields DEF Scheduled
    <3> QED
        BY <1>3, <3>1
  <2>2. Due(t, i - 1) \in Int /\ Due(t, i) \in Int /\ Due(t, i - 1) < Due(t, i)
      BY <2>1, DueGrows
  <2>3. /\ AddedBefore(added, Due(t, i - 1)) \in Nat
        /\ AddedBefore(added, Due(t, i - 1)) <= AddedBefore(added, Due(t, i))
      BY <2>2, AddedBeforeFacts
  <2> QED
      BY <1>1, <1>3, <2>3 DEF NewBefore
<1> QED
    BY <1>2, <1>3

LEMMA BrokenIsInt ==
    ASSUME NEW t, t \in Terms, NEW balance \in Int
    PROVE  Broken(t, balance) \in Int /\ (balance >= 0 => Broken(t, balance) >= 0)
<1>1. t.rate \in Nat /\ t.first \in Dates /\ t.disbursed \in Dates \cup {NoDate}
    BY TermsFields
<1>2. t.first \in Int /\ (t.disbursed # NoDate => t.disbursed \in Int)
    BY <1>1, MonthOfDate
<1>3. StubDays(t) \in Nat
    BY <1>2 DEF StubDays
<1> DEFINE days == StubDays(t)
           x == balance * t.rate * days
<1> HIDE DEF days
<1>4. t.rate * days \in Nat
    BY <1>1, <1>3 DEF days
<1>5. x \in Int /\ (balance >= 0 => x >= 0)
  <2>1. x = balance * (t.rate * days)
      BY <1>1, <1>3 DEF days
  <2> DEFINE k == t.rate * days
  <2>2. k \in Nat /\ x = balance * k
      BY <1>4, <2>1
  <2> HIDE DEF k, x
  <2> QED
      BY <2>2
<1>6. RateUnit * MonthDays \in Nat \ {0}
    BY UnitsAssumption
<1>7. Broken(t, balance) = Rounded(x, RateUnit * MonthDays)
    BY DEF Broken, BrokenPeriodInterest, days
<1> HIDE DEF x
<1> QED
    BY <1>5, <1>6, <1>7, RoundedIsInt

LEMMA LevelIsInt ==
    ASSUME NEW t, t \in Terms, NEW i \in 1..t.tenure, NEW balance \in Int
    PROVE  Level(t, i, balance) \in Int
<1>1. t.rate \in Nat /\ t.tenure \in Nat \ {0}
    BY TermsFields
<1>2. Broken(t, balance) \in Int
    BY BrokenIsInt
<1>3. LoanEMIWithStub(balance, t.rate, t.tenure, Broken(t, balance)) \in Int
    BY <1>1, <1>2, LoanEMIWithStubIsInt
<1>4. t.tenure - i + 1 \in Nat \ {0}
    BY <1>1
<1>5. LoanEMI(balance, t.rate, t.tenure - i + 1) \in Int
    BY <1>1, <1>4, LoanEMIIsInt
<1> QED
    BY <1>3, <1>5, RupeeCeilIsInt DEF Level

(* What an installment repays is never negative nor more than is owed; the  *)
(* last repays all of it.                                                   *)
LEMMA PrincipalPartFacts ==
    ASSUME NEW i \in Int, NEW n \in Int, NEW emi \in Int, NEW interest \in Nat, NEW balance \in Nat
    PROVE  /\ PrincipalPart(i, n, emi, interest, balance) \in Nat
           /\ PrincipalPart(i, n, emi, interest, balance) <= balance
           /\ i = n => PrincipalPart(i, n, emi, interest, balance) = balance
BY DEF PrincipalPart

IsRow(r) == /\ r.balance \in Nat /\ r.emi \in Int
            /\ r.principal \in Nat /\ r.interest \in Nat

LEMMA InstallmentFacts ==
    ASSUME NEW t, t \in Terms, NEW i \in 1..t.tenure, NEW last, IsRow(last), NEW new \in Nat
    PROVE  /\ IsRow(Installment(t, i, last, new))
           /\ Installment(t, i, last, new).balance + Installment(t, i, last, new).principal
                = last.balance + new
           /\ i = t.tenure => Installment(t, i, last, new).balance = 0
           /\ Installment(t, i, last, new).due = Due(t, i)
<1> DEFINE owed == last.balance + new
           level == IF new > 0 THEN Level(t, i, owed) ELSE last.emi
           interest == IF Stub(t, i) THEN Broken(t, owed) ELSE Rounded(owed * t.rate, RateUnit)
           part == PrincipalPart(i, t.tenure, level, interest, owed)
<1>1. Installment(t, i, last, new) =
        [due |-> Due(t, i), emi |-> level, interest |-> interest, principal |-> part,
         balance |-> owed - part, recast |-> last.recast \/ new > 0]
    BY DEF Installment
<1>2. owed \in Nat /\ t.rate \in Nat /\ t.tenure \in Nat
    BY TermsFields DEF IsRow
<1>3. owed * t.rate \in Nat
    BY <1>2
<1>4. level \in Int
    BY <1>2, LevelIsInt DEF IsRow
<1>5. interest \in Nat
  <2>1. Broken(t, owed) \in Nat
      BY <1>2, BrokenIsInt
  <2>2. Rounded(owed * t.rate, RateUnit) \in Nat
      BY <1>3, UnitsAssumption, RoundedIsInt
  <2> QED
      BY <2>1, <2>2
<1> HIDE DEF owed, level, interest
<1>6. part \in Nat /\ part <= owed /\ (i = t.tenure => part = owed)
  <2>1. i \in Int /\ t.tenure \in Int
      BY <1>2
  <2> DEFINE n == t.tenure
  <2>2. part = PrincipalPart(i, n, level, interest, owed) /\ n \in Int
      BY <2>1
  <2> HIDE DEF n, part
  <2>3. part \in Nat /\ part <= owed /\ (i = n => part = owed)
      BY <1>2, <1>4, <1>5, <2>1, <2>2, PrincipalPartFacts
  <2> QED
      BY <2>3 DEF n
<1> HIDE DEF part
<1>7. owed - part \in Nat /\ (owed - part) + part = owed
    BY <1>2, <1>6
<1> QED
    BY <1>1, <1>2, <1>4, <1>5, <1>6, <1>7 DEF IsRow, owed

LEMMA RowsOfTable ==
    ASSUME NEW t, Scheduled(t), NEW added, Moving(added), NEW e, IsTableOf(t, added, t.tenure, e)
    PROVE  \A i \in 0..t.tenure : IsRow(e[i])
<1> DEFINE n == t.tenure
           K == {i \in 0..n : IsRow(e[i])}
<1>1. t \in Terms /\ n \in Nat \ {0} /\ t.principal \in Nat
    BY TermsFields DEF Scheduled
<1> HIDE DEF n
<1>2. \A i \in 0..n : e[i] = IF i = 0 THEN Opening(t)
                             ELSE Installment(t, i, e[i - 1], NewBefore(t, added, i))
    BY DEF IsTableOf, n
<1>3. 0 \in K
  <2>1. 0 \in 0..n /\ 1 \in 1..n
      BY <1>1
  <2>2. Level(t, 1, t.principal) \in Int
      BY <1>1, <2>1, LevelIsInt DEF n
  <2>3. IsRow(Opening(t))
      BY <1>1, <2>2 DEF IsRow, Opening
  <2> QED
      BY <1>2, <2>1, <2>3
<1>4. ASSUME NEW i \in 0..(n - 1), i \in K
      PROVE  i + 1 \in K
  <2>1. i + 1 \in 1..n /\ i + 1 \in 0..n /\ i + 1 # 0 /\ (i + 1) - 1 = i
      BY <1>1
  <2>2. e[i + 1] = Installment(t, i + 1, e[i], NewBefore(t, added, i + 1))
      BY <1>2, <2>1
  <2>3. NewBefore(t, added, i + 1) \in Nat
      BY <2>1, NewBeforeFacts DEF n
  <2>4. IsRow(e[i])
      BY <1>4
  <2>5. IsRow(Installment(t, i + 1, e[i], NewBefore(t, added, i + 1)))
      BY <1>1, <2>1, <2>3, <2>4, InstallmentFacts DEF n
  <2> QED
      BY <2>1, <2>2, <2>5
<1> HIDE DEF K
<1>5. \A i \in 0..n : i \in K
    BY <1>1, <1>3, <1>4, Induct
<1> QED
    BY <1>5 DEF K, n

LEMMA CountUp ==
    ASSUME NEW k \in Nat
    PROVE  /\ IsFiniteSet(1..k) /\ k + 1 \notin 1..k /\ 1..(k + 1) = (1..k) \cup {k + 1}
           /\ 1..0 = {}
<1>1. IsFiniteSet(1..k)
    BY FS_Interval
<1>2. 1..(k + 1) = (1..k) \cup {k + 1}
    OBVIOUS
<1> QED
    BY <1>1, <1>2

Parts(e, n) == [k \in 1..n |-> e[k].principal]

(* What is owed is what was lent and moved in before, less what was repaid. *)
LEMMA BalanceOfTable ==
    ASSUME NEW t, Scheduled(t), NEW added, Moving(added), NEW e, IsTableOf(t, added, t.tenure, e)
    PROVE  /\ \A i \in 0..t.tenure :
                 e[i].balance + SumFunctionOnSet(Parts(e, t.tenure), 1..i)
                   = t.principal + (IF i = 0 THEN 0 ELSE AddedBefore(added, Due(t, i)))
           /\ e[t.tenure].balance = 0
<1> DEFINE n == t.tenure
           f == Parts(e, n)
           moved(i) == IF i = 0 THEN 0 ELSE AddedBefore(added, Due(t, i))
           K == {i \in 0..n : e[i].balance + SumFunctionOnSet(f, 1..i) = t.principal + moved(i)}
<1>1. t \in Terms /\ n \in Nat \ {0} /\ t.principal \in Nat
    BY TermsFields DEF Scheduled
<1>2. \A i \in 0..n : IsRow(e[i])
    BY RowsOfTable
<1>3. /\ e[0] = Opening(t)
      /\ \A i \in 1..n : e[i] = Installment(t, i, e[i - 1], NewBefore(t, added, i))
  <2>1. \A i \in 0..n : e[i] = IF i = 0 THEN Opening(t)
                               ELSE Installment(t, i, e[i - 1], NewBefore(t, added, i))
      BY DEF IsTableOf
  <2>2. 0 \in 0..n /\ \A i \in 1..n : i \in 0..n /\ i # 0
      BY <1>1
  <2> QED
      BY <2>1, <2>2
<1>4. ASSUME NEW i \in 1..n
      PROVE  /\ f[i] = e[i].principal /\ f[i] \in Int
             /\ NewBefore(t, added, i) \in Nat
             /\ e[i].balance + e[i].principal = e[i - 1].balance + NewBefore(t, added, i)
             /\ i = n => e[i].balance = 0
  <2>1. i \in 0..n /\ i - 1 \in 0..n
      BY <1>1
  <2>2. NewBefore(t, added, i) \in Nat
      BY NewBeforeFacts
  <2>3. IsRow(e[i]) /\ IsRow(e[i - 1])
      BY <1>2, <2>1
  <2>4. f[i] = e[i].principal /\ f[i] \in Int
      BY <2>3 DEF Parts, IsRow
  <2> DEFINE last == e[i - 1]
             new == NewBefore(t, added, i)
             row == Installment(t, i, last, new)
  <2>5. /\ row.balance + row.principal = last.balance + new
        /\ i = t.tenure => row.balance = 0
    <3>1. IsRow(last) /\ new \in Nat /\ t \in Terms /\ i \in 1..t.tenure
        BY <1>1, <2>2, <2>3
    <3> HIDE DEF last, new
    <3> QED
        BY <3>1, InstallmentFacts
  <2>6. e[i] = row
      BY <1>3
  <2> HIDE DEF row
  <2> QED
      BY <2>2, <2>4, <2>5, <2>6
<1>5. ASSUME NEW i \in 1..n
      PROVE  moved(i) = NewBefore(t, added, i) + moved(i - 1) /\ moved(i) \in Nat /\ moved(i - 1) \in Int
  <2>1. i # 0 /\ (i = 1 <=> i - 1 = 0)
      BY <1>1
  <2>2. AddedBefore(added, Due(t, i - 1)) \in Nat
      BY AddedBeforeFacts
  <2> QED
      BY <2>1, <2>2, NewBeforeFacts
<1> HIDE DEF n, f, moved
<1>6. 0 \in K
  <2>1. 0 \in 0..n /\ moved(0) = 0 /\ e[0].balance = t.principal
      BY <1>1, <1>3 DEF Opening, moved
  <2>2. SumFunctionOnSet(f, 1..0) = 0
    <3>1. 1..0 = {}
        OBVIOUS
    <3> QED
        BY <3>1, SumEmpty
  <2> QED
      BY <1>1, <2>1, <2>2
<1>7. ASSUME NEW i \in 0..(n - 1), i \in K
      PROVE  i + 1 \in K
  <2> DEFINE j == i + 1
             was == SumFunctionOnSet(f, 1..i)
             new == NewBefore(t, added, j)
             b == e[i].balance
             c == e[j].balance
             p == e[j].principal
             u == moved(i)
             v == moved(j)
  <2>1. i \in Nat /\ j \in 1..n /\ j \in 0..n /\ j - 1 = i /\ i \in 0..n
      BY <1>1
  <2>2. c + p = b + new /\ new \in Nat /\ f[j] = p
      BY <1>4, <2>1
  <2>3. v = new + u /\ u \in Int /\ v \in Int
      BY <1>5, <2>1
  <2>4. b \in Int /\ c \in Int /\ p \in Int
      BY <1>2, <2>1 DEF IsRow
  <2>5. SumFunctionOnSet(f, 1..j) = p + was /\ was \in Int
    <3>1. IsFiniteSet(1..i) /\ j \notin 1..i /\ 1..j = (1..i) \cup {j}
        BY <2>1, CountUp
    <3>2. \A x \in (1..i) \cup {j} : f[x] \in Int
      <4>1. \A x \in (1..i) \cup {j} : x \in 1..n
        <5>1. i <= n /\ i \in Nat /\ n \in Nat
            BY <1>1, <2>1
        <5>2. \A x \in 1..i : x \in 1..n
            BY <5>1
        <5> QED
            BY <2>1, <5>2
      <4> QED
          BY <1>4, <4>1
    <3>3. \A x \in 1..i : f[x] \in Int
        BY <3>2
    <3> HIDE DEF j
    <3>4. SumFunctionOnSet(f, (1..i) \cup {j}) = f[j] + SumFunctionOnSet(f, 1..i)
        BY <3>1, <3>2, SumAdds
    <3>5. SumFunctionOnSet(f, 1..i) \in Int
        BY <3>1, <3>3, SumUnfolds
    <3> QED
        BY <2>2, <3>1, <3>4, <3>5
  <2>6. b + was = t.principal + u
      BY <1>7
  <2>7. c + SumFunctionOnSet(f, 1..j) = t.principal + v
    <3> DEFINE s == SumFunctionOnSet(f, 1..j)
               x == t.principal
    <3>1. s = p + was /\ was \in Int /\ x \in Int
        BY <1>1, <2>5
    <3>2. b + was = x + u
        BY <2>6
    <3>3. c + p = b + new /\ new \in Nat /\ v = new + u /\ u \in Int /\ v \in Int
        BY <2>2, <2>3
    <3> HIDE DEF s, was, new, b, c, p, u, v, x, j
    <3>4. c + s = x + v
        BY <2>4, <3>1, <3>2, <3>3
    <3> QED
        BY <3>4 DEF s, c, x, v
  <2> HIDE DEF c, v
  <2> QED
      BY <2>1, <2>7 DEF c, v
<1> HIDE DEF K
<1>8. \A i \in 0..n : i \in K
    BY <1>1, <1>6, <1>7, Induct
<1>9. \A i \in 0..n : e[i].balance + SumFunctionOnSet(f, 1..i) = t.principal + moved(i)
    BY <1>8 DEF K
<1>10. e[n].balance = 0
  <2>1. n \in 1..n
      BY <1>1
  <2> QED
      BY <1>4, <2>1
<1> QED
    BY <1>9, <1>10 DEF n, f, moved

(* A sum over some installments is one of the parts of the table.           *)
LEMMA SumOfParts ==
    ASSUME NEW n \in Nat, NEW e, \A i \in 1..n : e[i].principal \in Nat,
           NEW S, S \subseteq 1..n
    PROVE  /\ IsFiniteSet(S) /\ PrincipalIn(e, S) \in Nat
           /\ PrincipalIn(e, S) = SumFunctionOnSet(Parts(e, n), S)
<1> DEFINE f == [i \in S |-> e[i].principal]
           g == Parts(e, n)
<1>1. IsFiniteSet(S)
    BY CountUp, FS_Subset
<1>2. \A i \in S : f[i] \in Nat /\ f[i] \in Int /\ g[i] = f[i]
  <2>1. ASSUME NEW i \in S
        PROVE  f[i] = e[i].principal /\ g[i] = e[i].principal /\ e[i].principal \in Nat
    <3>1. i \in 1..n
        OBVIOUS
    <3> QED
        BY <3>1 DEF Parts
  <2> HIDE DEF f, g
  <2> QED
      BY <2>1
<1>3. PrincipalIn(e, S) = SumFunctionOnSet(f, S)
    BY DEF PrincipalIn
<1> HIDE DEF f, g
<1>4. SumFunctionOnSet(f, S) \in Nat /\ SumFunctionOnSet(f, S) = SumFunctionOnSet(g, S)
    BY <1>1, <1>2, SumIsNat, SumSame
<1> QED
    BY <1>1, <1>3, <1>4 DEF g

LEMMA SumSplits ==
    ASSUME NEW n \in Nat, NEW e, \A i \in 1..n : e[i].principal \in Nat, NEW k \in 0..n
    PROVE  /\ PrincipalIn(e, 1..k) \in Nat /\ PrincipalIn(e, (k + 1)..n) \in Nat
           /\ PrincipalIn(e, 1..n) \in Nat
           /\ PrincipalIn(e, 1..n) = PrincipalIn(e, 1..k) + PrincipalIn(e, (k + 1)..n)
<1> DEFINE f == Parts(e, n)
           R == 1..k
           S == (k + 1)..n
<1>1. R \subseteq 1..n /\ S \subseteq 1..n /\ R \cap S = {} /\ R \cup S = 1..n
    OBVIOUS
<1>2. \A i \in R \cup S : f[i] \in Int
    BY <1>1 DEF Parts
<1> HIDE DEF R, S, f
<1>3. /\ IsFiniteSet(R) /\ PrincipalIn(e, R) \in Nat /\ PrincipalIn(e, R) = SumFunctionOnSet(f, R)
      /\ IsFiniteSet(S) /\ PrincipalIn(e, S) \in Nat /\ PrincipalIn(e, S) = SumFunctionOnSet(f, S)
      /\ PrincipalIn(e, 1..n) \in Nat /\ PrincipalIn(e, 1..n) = SumFunctionOnSet(f, 1..n)
    BY <1>1, SumOfParts DEF f
<1>4. SumFunctionOnSet(f, R \cup S) = SumFunctionOnSet(f, R) + SumFunctionOnSet(f, S)
    BY <1>1, <1>2, <1>3, SumOfUnion
<1>5. PrincipalIn(e, 1..n) = PrincipalIn(e, R) + PrincipalIn(e, S)
    BY <1>1, <1>3, <1>4
<1> QED
    BY <1>3, <1>5 DEF R, S

MovedBy(t, added, k) == IF k = 0 THEN 0 ELSE AddedBefore(added, Due(t, k))

(* Each amortization table repays its loan: no part is negative, the        *)
(* balance ends at nothing, and the first k parts repay no more than what   *)
(* was lent and moved in by then.                                           *)
LEMMA TableRepays ==
    ASSUME NEW t, Scheduled(t), NEW added, Moving(added)
    PROVE  LET table == LoanAmortization(t, added)
               n == t.tenure
           IN  /\ table[n].balance = 0
               /\ \A i \in 1..n : table[i].principal \in Nat /\ table[i].interest \in Nat
               /\ \A k \in 0..n : /\ MovedBy(t, added, k) \in Nat
                                  /\ PrincipalIn(table, 1..k) \in Nat
                                  /\ PrincipalIn(table, 1..k) <= t.principal + MovedBy(t, added, k)
               /\ PrincipalIn(table, 1..n) = t.principal + MovedBy(t, added, n)
<1> DEFINE table == LoanAmortization(t, added)
           n == t.tenure
<1>1. t \in Terms /\ n \in Nat \ {0} /\ t.principal \in Nat
    BY TermsFields DEF Scheduled
<1>2. PICK e : /\ IsTableOf(t, added, n, e)
               /\ table = [i \in 1..n |-> e[i]]
    BY <1>1, TableUnfolds
<1> HIDE DEF table
<1>3. /\ \A i \in 0..n : e[i].balance + SumFunctionOnSet(Parts(e, n), 1..i)
                           = t.principal + MovedBy(t, added, i)
      /\ e[n].balance = 0
    BY <1>2, BalanceOfTable DEF MovedBy
<1>4. \A i \in 0..n : IsRow(e[i])
    BY <1>2, RowsOfTable
<1>5. \A i \in 1..n : i \in 0..n /\ table[i] = e[i]
    BY <1>1, <1>2
<1>6. \A i \in 1..n : table[i].principal \in Nat /\ table[i].interest \in Nat
    BY <1>4, <1>5 DEF IsRow
<1>7. Parts(e, n) = Parts(table, n)
    BY <1>5 DEF Parts
<1>8. ASSUME NEW k \in 0..n
      PROVE  /\ MovedBy(t, added, k) \in Nat
             /\ PrincipalIn(table, 1..k) \in Nat
             /\ e[k].balance \in Nat
             /\ e[k].balance + PrincipalIn(table, 1..k) = t.principal + MovedBy(t, added, k)
  <2>1. MovedBy(t, added, k) \in Nat
      BY AddedBeforeFacts DEF MovedBy
  <2>2. 1..k \subseteq 1..n /\ n \in Nat
      BY <1>1
  <2> HIDE DEF n
  <2>3. PrincipalIn(table, 1..k) \in Nat /\ PrincipalIn(table, 1..k) = SumFunctionOnSet(Parts(table, n), 1..k)
      BY <1>6, <2>2, SumOfParts
  <2> QED
      BY <1>3, <1>4, <1>7, <2>1, <2>3 DEF IsRow
<1>9. \A k \in 0..n : /\ MovedBy(t, added, k) \in Nat
                      /\ PrincipalIn(table, 1..k) \in Nat
                      /\ PrincipalIn(table, 1..k) <= t.principal + MovedBy(t, added, k)
  <2>1. ASSUME NEW k \in 0..n
        PROVE  PrincipalIn(table, 1..k) <= t.principal + MovedBy(t, added, k)
    <3> DEFINE b == e[k].balance
               s == PrincipalIn(table, 1..k)
               m == t.principal + MovedBy(t, added, k)
    <3>1. b \in Nat /\ s \in Nat /\ m \in Nat /\ b + s = m
        BY <1>1, <1>8
    <3> HIDE DEF b, s, m
    <3>2. s <= m
        BY <3>1
    <3> QED
        BY <3>2 DEF s, m
  <2> QED
      BY <1>8, <2>1
<1>10. n \in 0..n /\ n \in 1..n
    BY <1>1
<1>11. table[n].balance = 0
    BY <1>3, <1>5, <1>10
<1>12. PrincipalIn(table, 1..n) = t.principal + MovedBy(t, added, n)
    BY <1>1, <1>3, <1>8, <1>10
<1> QED
    BY <1>6, <1>9, <1>11, <1>12 DEF table

Attaching(q) ==
    /\ q.op = "attach"
    /\ q = [op |-> "attach", inserted |-> q.inserted, ids |-> q.ids, loan |-> q.loan]

Transferring(q) ==
    /\ q.op = "transfer"
    /\ q = [op |-> "transfer", from |-> q.from, opening |-> q.opening, fresh |-> q.fresh,
            made |-> q.made]

Shaped(q) == q = Idle \/ Attaching(q) \/ Transferring(q)

Shape ==
    /\ attached = [t \in TxnIds |-> attached[t]]
    /\ released = [a \in Accounts |-> released[a]]
    /\ pending = [r \in Requests |-> pending[r]]
    /\ \A r \in Requests : Shaped(pending[r])

(* An uncommitted attachment is as good as a committed one.                  *)
Inserted(q) == q.op = "attach" /\ q.inserted

Claimed(t) == attached[t] # NoLoan \/ \E r \in Requests : Inserted(pending[r]) /\ t \in pending[r].ids

LEMMA ClaimsRepay == \A t : Repays(t) <=> Claimed(t)
BY DEF Repays, Claimed, InFlight, Inserted

(* No transaction comes to have both roles.                                  *)
NoNewRole ==
    \A t \in TxnIds : ~(Claimed(t) /\ Releases(t)) => ~(Claimed(t) /\ Releases(t))'

(* What a step may do without care: claim nothing and release nothing.       *)
Tame ==
    /\ attached' = [t \in TxnIds |-> attached'[t]]
    /\ \A t \in TxnIds : attached'[t] # NoLoan => attached[t] # NoLoan
    /\ released' = [a \in Accounts |-> released'[a]]
    /\ \A a \in Accounts : released'[a] \in {released[a], NoTxn}
    /\ pending' = [r \in Requests |-> pending'[r]]
    /\ \A r \in Requests : Shaped(pending'[r])
    /\ \A r \in Requests : Inserted(pending'[r]) =>
          Inserted(pending[r]) /\ pending'[r].ids \subseteq pending[r].ids

LEMMA TameKeepsShape ==
    ASSUME Tame
    PROVE  Shape'
BY DEF Tame, Shape

LEMMA TameKeepsRoles ==
    ASSUME Tame
    PROVE  Shape' /\ NoNewRole
<1>1. \A t \in TxnIds : Claimed(t)' => Claimed(t)
    BY DEF Tame, Claimed
<1>2. \A t \in TxnIds : Releases(t)' => Releases(t)
    BY NoTxnIsFresh DEF Tame, Releases
<1> QED
    BY <1>1, <1>2, TameKeepsShape DEF NoNewRole

(* Marking a transfer stale leaves every attachment as it is.                *)
LEMMA StaleIsShaped ==
    ASSUME Shape, NEW r \in Requests
    PROVE  /\ Shaped(Stale[r])
           /\ Inserted(Stale[r]) => Inserted(pending[r]) /\ Stale[r] = pending[r]
<1>1. Stale[r] = IF pending[r].op = "transfer" THEN [pending[r] EXCEPT !.fresh = FALSE]
                 ELSE pending[r]
    BY DEF Stale
<1>2. CASE pending[r] = Idle
    BY <1>1, <1>2 DEF Idle, Shaped, Inserted
<1>3. CASE Attaching(pending[r])
    BY <1>1, <1>3 DEF Attaching, Shaped
<1>4. CASE Transferring(pending[r])
  <2>1. Stale[r] = [op |-> "transfer", from |-> pending[r].from, opening |-> pending[r].opening,
                    fresh |-> FALSE, made |-> pending[r].made]
      BY <1>1, <1>4 DEF Transferring
  <2> QED
      BY <2>1 DEF Shaped, Transferring, Inserted
<1> QED
    BY <1>2, <1>3, <1>4 DEF Shape, Shaped

LEMMA IdleIsShaped == Shaped(Idle) /\ ~Inserted(Idle)
BY DEF Shaped, Idle, Inserted

-----------------------------------------------------------------------------
(* The steps that claim nothing.                                             *)

LEMMA TermsAreTame ==
    ASSUME Shape, TermsNext \/ (\E a \in Accounts : DeleteLoanTransfer(a))
    PROVE  Tame
<1>1. UNCHANGED <<attached, released>> /\ pending' = Stale
    BY DEF TermsNext, UpsertLoanSchedule, DeleteLoanSchedule, DeleteLoanTransfer
<1>2. pending' = [r \in Requests |-> pending'[r]]
    BY <1>1 DEF Stale
<1> QED
    BY <1>1, <1>2, StaleIsShaped DEF Shape, Tame

LEMMA DetachIsTame ==
    ASSUME Shape, NEW ids, Detach(ids)
    PROVE  Tame
<1>1. /\ attached' = [t \in TxnIds |-> IF t \in ids THEN NoLoan ELSE attached[t]]
      /\ released' = released /\ pending' = Stale
    BY DEF Detach
<1>2. pending' = [r \in Requests |-> pending'[r]]
    BY <1>1 DEF Stale
<1> QED
    BY <1>1, <1>2, StaleIsShaped DEF Shape, Tame

LEMMA UnlinkIsTame ==
    ASSUME Shape, NEW a \in Accounts, UnlinkLoanDisbursement(a)
    PROVE  Tame
BY DEF UnlinkLoanDisbursement, Shape, Tame

LEMMA ChecksAreTame ==
    ASSUME Shape, NEW r \in Requests, NEW q, Shaped(q), ~Inserted(q),
           pending' = [pending EXCEPT ![r] = q] \/ pending' = [Stale EXCEPT ![r] = q],
           UNCHANGED <<attached, released>>
    PROVE  Tame
<1>1. \A p \in Requests : pending'[p] = q \/ pending'[p] = pending[p] \/ pending'[p] = Stale[p]
    BY DEF Shape, Stale
<1>2. pending' = [p \in Requests |-> pending'[p]]
    BY DEF Shape, Stale
<1> QED
    BY <1>1, <1>2, StaleIsShaped DEF Shape, Tame

LEMMA CheckAttachIsTame ==
    ASSUME Shape, NEW r \in Requests, NEW ids, NEW a, CheckAttach(r, ids, a)
    PROVE  Tame
<1> DEFINE q == [op |-> "attach", inserted |-> FALSE, ids |-> ids, loan |-> a]
<1>1. Shaped(q) /\ ~Inserted(q)
    BY DEF Shaped, Attaching, Inserted
<1>2. pending' = [pending EXCEPT ![r] = q] /\ UNCHANGED <<attached, released>>
    BY DEF CheckAttach
<1> QED
    BY <1>1, <1>2, ChecksAreTame

LEMMA CheckTransferIsTame ==
    ASSUME Shape, NEW r \in Requests, NEW a, NEW b, NEW d, NEW mode, NEW o,
           CheckTransfer(r, a, b, d, mode, o)
    PROVE  Tame
<1>1. PICK op, made : pending' = [pending EXCEPT ![r] =
          [op |-> "transfer", from |-> a, opening |-> op, fresh |-> TRUE, made |-> made]]
    BY DEF CheckTransfer
<1> DEFINE q == [op |-> "transfer", from |-> a, opening |-> op, fresh |-> TRUE, made |-> made]
<1>2. Shaped(q) /\ ~Inserted(q)
    BY DEF Shaped, Transferring, Inserted
<1>3. UNCHANGED <<attached, released>>
    BY DEF CheckTransfer
<1>4. pending' = [pending EXCEPT ![r] = q]
    BY <1>1
<1> QED
    BY <1>2, <1>3, <1>4, ChecksAreTame

LEMMA CommitTransferIsTame ==
    ASSUME Shape, NEW r \in Requests, CommitTransfer(r)
    PROVE  Tame
<1>1. UNCHANGED <<attached, released>>
    BY DEF CommitTransfer
<1>2. pending' = [pending EXCEPT ![r] = Idle] \/ pending' = [Stale EXCEPT ![r] = Idle]
    BY DEF CommitTransfer, Done
<1> QED
    BY <1>1, <1>2, IdleIsShaped, ChecksAreTame

(* Foreign keys clear; a request whose row is deleted names none any more.   *)
LEMMA CascadeIsTame ==
    ASSUME Shape, Cascade
    PROVE  Tame
<1> DEFINE dead(r) == pending[r].op = "attach" /\ ~(pending[r].ids \subseteq DOMAIN txns')
<1>1. /\ attached' = [t \in TxnIds |-> attached'[t]]
      /\ \A t \in TxnIds : attached'[t] \in {attached[t], NoLoan}
    BY DEF Cascade
<1>2. /\ released' = [a \in Accounts |-> released'[a]]
      /\ \A a \in Accounts : released'[a] \in {released[a], NoTxn}
    BY DEF Cascade
<1>3. pending' = [r \in Requests |-> IF dead(r) THEN [pending[r] EXCEPT !.ids = {}] ELSE Stale[r]]
    BY DEF Cascade
<1>4. ASSUME NEW r \in Requests
      PROVE  /\ Shaped(pending'[r])
             /\ Inserted(pending'[r]) =>
                   Inserted(pending[r]) /\ pending'[r].ids \subseteq pending[r].ids
  <2>1. CASE dead(r)
    <3>1. Attaching(pending[r])
        BY <2>1 DEF Shape, Shaped, Idle, Transferring
    <3>2. pending'[r] = [op |-> "attach", inserted |-> pending[r].inserted, ids |-> {},
                         loan |-> pending[r].loan]
        BY <1>3, <2>1, <3>1 DEF Attaching
    <3> QED
        BY <3>1, <3>2 DEF Attaching, Shaped, Inserted
  <2>2. CASE ~dead(r)
      BY <1>3, <2>2, StaleIsShaped
  <2> QED
      BY <2>1, <2>2
<1>5. pending' = [r \in Requests |-> pending'[r]]
    BY <1>3
<1> QED
    BY <1>1, <1>2, <1>4, <1>5 DEF Tame

-----------------------------------------------------------------------------
(* The steps that claim a transaction, and the one that releases a loan.     *)

LEMMA InsertKeepsShape ==
    ASSUME Shape, NEW r \in Requests, InsertAttachments(r)
    PROVE  /\ Shape' /\ UNCHANGED <<attached, released>>
           /\ \A p \in Requests : p # r => pending'[p] = pending[p]
           /\ \/ pending' = [pending EXCEPT ![r] = Idle]
              \/ /\ MayBePayment(pending[r].ids)
                 /\ pending'[r] = [op |-> "attach", inserted |-> TRUE, ids |-> pending[r].ids,
                                   loan |-> pending[r].loan]
<1> DEFINE q == pending[r]
           in == [op |-> "attach", inserted |-> TRUE, ids |-> q.ids, loan |-> q.loan]
<1>1. UNCHANGED <<attached, released>>
    BY DEF InsertAttachments
<1>2. Attaching(q)
    BY DEF InsertAttachments, Shape, Shaped, Idle, Transferring
<1>3. CASE pending' = [pending EXCEPT ![r] = Idle]
  <2>1. Tame
      BY <1>1, <1>3, IdleIsShaped, ChecksAreTame
  <2> QED
      BY <1>1, <1>3, <2>1, TameKeepsShape DEF Shape
<1>4. CASE pending' = [pending EXCEPT ![r].inserted = TRUE] /\ MayBePayment(q.ids)
  <2>1. /\ pending'[r] = in
        /\ \A p \in Requests : p # r => pending'[p] = pending[p]
        /\ pending' = [p \in Requests |-> pending'[p]]
      BY <1>2, <1>4 DEF Shape, Attaching
  <2>2. Attaching(in)
      BY DEF Attaching
  <2>3. Shape'
      BY <1>1, <2>1, <2>2 DEF Shape, Shaped
  <2> QED
      BY <1>1, <1>4, <2>1, <2>3
<1> QED
    BY <1>3, <1>4 DEF InsertAttachments

LEMMA InsertClaimsUnreleased ==
    ASSUME Shape, NEW r \in Requests, InsertAttachments(r)
    PROVE  Shape' /\ NoNewRole
<1>2. /\ Shape' /\ UNCHANGED <<attached, released>>
      /\ \A p \in Requests : p # r => pending'[p] = pending[p]
    BY InsertKeepsShape
<1>3. CASE pending' = [pending EXCEPT ![r] = Idle]
    BY <1>2, <1>3, IdleIsShaped, ChecksAreTame, TameKeepsRoles
<1>4. CASE /\ MayBePayment(pending[r].ids)
           /\ pending'[r] = [op |-> "attach", inserted |-> TRUE, ids |-> pending[r].ids,
                             loan |-> pending[r].loan]
  <2>1. pending'[r].ids = pending[r].ids
      BY <1>4
  <2>2. \A t \in TxnIds : Claimed(t)' => Claimed(t) \/ t \in pending[r].ids
      BY <1>2, <2>1 DEF Claimed, Inserted
  <2>3. \A t \in pending[r].ids : ~Releases(t)
      BY <1>4 DEF MayBePayment, Releases
  <2>4. \A t : Releases(t)' <=> Releases(t)
      BY <1>2 DEF Releases
  <2> QED
      BY <1>2, <2>2, <2>3, <2>4 DEF NoNewRole
<1> QED
    BY <1>3, <1>4, InsertKeepsShape

LEMMA CommitKeepsShape ==
    ASSUME Shape, NEW r \in Requests, CommitAttachments(r)
    PROVE  /\ Shape'
           /\ \A p \in Requests : pending'[p] = Idle \/ pending'[p] = Stale[p]
<1>1. /\ attached' = [t \in TxnIds |-> IF t \in pending[r].ids THEN pending[r].loan ELSE attached[t]]
      /\ released' = released
      /\ pending' = [Stale EXCEPT ![r] = Idle]
    BY DEF CommitAttachments, Done
<1>2. \A p \in Requests : pending'[p] = Idle \/ pending'[p] = Stale[p]
    BY <1>1 DEF Stale
<1>3. pending' = [p \in Requests |-> pending'[p]]
    BY <1>1 DEF Stale
<1>4. Shape'
    BY <1>1, <1>2, <1>3, StaleIsShaped, IdleIsShaped DEF Shape
<1> QED
    BY <1>2, <1>4

LEMMA CommitClaimsTheSame ==
    ASSUME Shape, NEW r \in Requests, CommitAttachments(r)
    PROVE  Shape' /\ NoNewRole
<1>1. /\ Inserted(pending[r])
      /\ attached' = [t \in TxnIds |-> IF t \in pending[r].ids THEN pending[r].loan ELSE attached[t]]
      /\ released' = released
    BY DEF CommitAttachments, Inserted
<1>2. Shape' /\ \A p \in Requests : pending'[p] = Idle \/ pending'[p] = Stale[p]
    BY CommitKeepsShape
<1>3. \A p \in Requests : Inserted(pending'[p]) => Inserted(pending[p]) /\ pending'[p] = pending[p]
    BY <1>2, StaleIsShaped, IdleIsShaped
<1>4. \A t \in TxnIds : Claimed(t)' => Claimed(t)
    BY <1>1, <1>3 DEF Claimed
<1>5. \A t : Releases(t)' <=> Releases(t)
    BY <1>1 DEF Releases
<1> QED
    BY <1>2, <1>4, <1>5 DEF NoNewRole

LEMMA ReleaseKeepsShape ==
    ASSUME Shape, NEW a \in Accounts, NEW t, LinkLoanDisbursement(a, t)
    PROVE  Shape' /\ UNCHANGED <<attached, pending>>
BY DEF LinkLoanDisbursement, Shape

(* The one step that gives a transaction both roles.                        *)
LEMMA ReleaseTakesUncommitted ==
    ASSUME Shape, NEW a \in Accounts, NEW u \in DOMAIN txns, LinkLoanDisbursement(a, u),
           NEW t \in TxnIds, ~(Claimed(t) /\ Releases(t)), (Claimed(t) /\ Releases(t))'
    PROVE  t \in InFlight /\ ~Releases(t)
<1>1. /\ UNCHANGED <<attached, pending>>
      /\ released' = [released EXCEPT ![a] = u]
      /\ attached[u] = NoLoan
    BY DEF LinkLoanDisbursement, MayRelease
<1>2. Claimed(t)
    BY <1>1 DEF Claimed
<1>3. ~Releases(t)
    BY <1>2
<1>4. \A b \in Accounts : released'[b] = released[b] \/ released'[b] = u
    BY <1>1 DEF Shape
<1>5. t = u
    BY <1>3, <1>4 DEF Releases
<1> QED
    BY <1>1, <1>2, <1>3, <1>5 DEF Claimed, InFlight, Inserted

-----------------------------------------------------------------------------

LEMMA InitShape == LoanInit => Shape
BY IdleIsShaped DEF LoanInit, Shape

LEMMA StepRoles ==
    ASSUME Shape, [LoansNext]_<<ledger, loans>>
    PROVE  /\ Shape'
           /\ \A t \in TxnIds :
                 ~(Claimed(t) /\ Releases(t)) /\ (Claimed(t) /\ Releases(t))' =>
                    t \in InFlight /\ ~Releases(t)
<1> DEFINE Roles == \A t \in TxnIds :
                       ~(Claimed(t) /\ Releases(t)) /\ (Claimed(t) /\ Releases(t))' =>
                          t \in InFlight /\ ~Releases(t)
<1>0. NoNewRole => Roles
    BY DEF NoNewRole
<1>1. ASSUME LedgerStep PROVE Shape' /\ Roles
    BY <1>0, <1>1, CascadeIsTame, TameKeepsRoles DEF LedgerStep
<1>2. ASSUME LinkNext PROVE Shape' /\ Roles
  <2>1. ASSUME NEW ids, Detach(ids)
        PROVE  Shape' /\ Roles
      BY <1>0, <2>1, DetachIsTame, TameKeepsRoles
  <2>2. ASSUME NEW r \in Requests, NEW a \in Accounts, NEW ids, CheckAttach(r, ids, a)
        PROVE  Shape' /\ Roles
      BY <1>0, <2>2, CheckAttachIsTame, TameKeepsRoles
  <2>3. ASSUME NEW a \in Accounts, UnlinkLoanDisbursement(a)
        PROVE  Shape' /\ Roles
      BY <1>0, <2>3, UnlinkIsTame, TameKeepsRoles
  <2>4. ASSUME NEW r \in Requests, InsertAttachments(r) \/ CommitAttachments(r)
        PROVE  Shape' /\ Roles
      BY <1>0, <2>4, InsertClaimsUnreleased, CommitClaimsTheSame
  <2>5. ASSUME NEW a \in Accounts, NEW u \in DOMAIN txns, LinkLoanDisbursement(a, u)
        PROVE  Shape' /\ Roles
    <3>1. Shape'
        BY <2>5, ReleaseKeepsShape
    <3>2. Roles
        BY <2>5, ReleaseTakesUncommitted
    <3> QED
        BY <3>1, <3>2
  <2> HIDE DEF Roles
  <2> QED
      BY <1>2, <2>1, <2>2, <2>3, <2>4, <2>5 DEF LinkNext
<1>3. ASSUME TermsNext PROVE Shape' /\ Roles
    BY <1>0, <1>3, TermsAreTame, TameKeepsRoles
<1>4. ASSUME TransferNext PROVE Shape' /\ Roles
  <2>1. ASSUME NEW r \in Requests, NEW a \in Accounts, NEW b \in Accounts,
               NEW d \in TransferDates, NEW mode \in Modes, NEW o \in Openings,
               CheckTransfer(r, a, b, d, mode, o)
        PROVE  Shape' /\ Roles
      BY <1>0, <2>1, CheckTransferIsTame, TameKeepsRoles
  <2>2. ASSUME NEW r \in Requests, CommitTransfer(r)
        PROVE  Shape' /\ Roles
      BY <1>0, <2>2, CommitTransferIsTame, TameKeepsRoles
  <2>3. ASSUME NEW a \in Accounts, DeleteLoanTransfer(a)
        PROVE  Shape' /\ Roles
      BY <1>0, <2>3, TermsAreTame, TameKeepsRoles
  <2> HIDE DEF Roles
  <2> QED
      BY <1>4, <2>1, <2>2, <2>3 DEF TransferNext
<1>5. ASSUME UNCHANGED <<ledger, loans>> PROVE Shape' /\ Roles
  <2>1. UNCHANGED <<attached, released, pending>>
      BY <1>5 DEF loans
  <2> QED
      BY <2>1 DEF Shape, Claimed, Releases
<1>6. ASSUME LoansNext PROVE Shape' /\ Roles
    BY <1>1, <1>2, <1>3, <1>4, <1>6 DEF LoansNext
<1>7. Shape' /\ Roles
    BY <1>5, <1>6
<1> QED
    BY <1>7

(* The code keeps the two tables apart by a check in each INSERT             *)
(* (BulkLinkLoan, LinkLoanDisbursement), which sees committed rows only: a   *)
(* row gets a second role only by a disbursement linked while an attachment  *)
(* of it is not committed.                                                   *)
THEOREM RolesApart == LoansSpec => OneRole
<1> DEFINE Roles == \A t \in TxnIds :
                       ~(Claimed(t) /\ Releases(t)) /\ (Claimed(t) /\ Releases(t))' =>
                          t \in InFlight /\ ~Releases(t)
<1>1. Shape /\ [LoansNext]_<<ledger, loans>> => Shape' /\ [Roles]_<<ledger, loans>>
    BY StepRoles
<1>2. Roles => \A t \in TxnIds :
                  ~(Repays(t) /\ Releases(t)) /\ (Repays(t) /\ Releases(t))' =>
                     t \in InFlight /\ ~Releases(t)
  <2>1. \A t \in TxnIds : (Repays(t) /\ Releases(t))' <=> (Claimed(t) /\ Releases(t))'
      BY DEF Repays, Claimed, InFlight, Inserted
  <2>2. \A t \in TxnIds : (Repays(t) /\ Releases(t)) <=> (Claimed(t) /\ Releases(t))
      BY ClaimsRepay
  <2> QED
      BY <2>1, <2>2
<1> HIDE DEF Roles
<1> QED
    BY InitShape, <1>1, <1>2, PTL DEF LoansSpec, OneRole

-----------------------------------------------------------------------------
(* What the loans are made of, in every state.                              *)

(* What a transfer in progress carries.                                     *)
Carries(q) ==
    q.op = "transfer" =>
        /\ q.made \in Transfer /\ q.from \in Accounts
        /\ q.made.mode = "opens" => q.opening \in Openings

LoansMade ==
    /\ schedules \in [Accounts -> Terms \cup {NoTerms}]
    /\ transfers \in [Accounts -> Transfer \cup {NoTransfer}]
    /\ \A a \in Accounts : schedules[a] # NoTerms => InCalendar(schedules[a])

MoneyInv ==
    /\ LedgerTypeOK
    /\ LoansMade
    /\ Shape
    /\ \A r \in Requests : Carries(pending[r])

LEMMA TransferFields ==
    ASSUME NEW x, x \in Transfer
    PROVE  /\ x.to \in Accounts /\ x.amount \in Nat \ {0} /\ x.principal \in Nat
           /\ x.date \in TransferDates /\ x.date \in Int /\ x.mode \in Modes
           /\ x # NoTransfer
<1>1. /\ x.to \in Accounts /\ x.amount \in Nat \ {0} /\ x.principal \in Nat
      /\ x.date \in TransferDates /\ x.mode \in Modes
    BY DEF Transfer
<1>2. x.date \in Int
    BY <1>1, LoansAssumption, MonthOfDate
<1> QED
    BY <1>1, <1>2, NoTransferIsFresh

(* The transfers into a loan, as its table takes them.                      *)
Into(a) == [s \in Recasts(a) |-> transfers[s]]

LEMMA IntoIsMoving ==
    ASSUME LoansMade, NEW a
    PROVE  /\ Moving(Into(a)) /\ DOMAIN Into(a) = Recasts(a)
           /\ Recasts(a) \subseteq Accounts
           /\ \A s \in Recasts(a) : transfers[s] \in Transfer
           /\ Amounts(Into(a), DOMAIN Into(a)) = Amounts(transfers, Recasts(a))
<1>1. Recasts(a) \subseteq Accounts /\ \A s \in Recasts(a) : transfers[s] # NoTransfer
    BY DEF Recasts, Incoming
<1>2. \A s \in Recasts(a) : transfers[s] \in Transfer
    BY <1>1 DEF LoansMade
<1>3. IsFiniteSet(Recasts(a))
    BY <1>1, LoansAssumption, FS_Subset
<1>4. DOMAIN Into(a) = Recasts(a) /\ \A s \in Recasts(a) : Into(a)[s] = transfers[s]
    BY DEF Into
<1>5. Moving(Into(a))
    BY <1>2, <1>3, <1>4, TransferFields DEF Moving
<1>6. Amounts(Into(a), DOMAIN Into(a)) = Amounts(transfers, Recasts(a))
  <2>1. [s \in Recasts(a) |-> Into(a)[s].amount] = [s \in Recasts(a) |-> transfers[s].amount]
      BY <1>4
  <2> QED
      BY <1>4, <2>1 DEF Amounts
<1> QED
    BY <1>1, <1>2, <1>4, <1>5, <1>6

LEMMA DebitsFacts ==
    ASSUME LedgerTypeOK, NEW a, NEW t, t \in Terms, schedules[a] = t
    PROVE  /\ Cardinality(Debits(a)) \in Nat /\ PaidInstallments(a) \in 0..t.tenure
           /\ Debits(a) = {} => PaidInstallments(a) = 0
<1>1. Debits(a) \subseteq DOMAIN txns /\ DOMAIN txns \subseteq TxnIds
    BY DEF Debits, LedgerTypeOK
<1>2. IsFiniteSet(Debits(a))
    BY <1>1, LimitAssumption, FS_Subset
<1>3. Cardinality(Debits(a)) \in Nat
    BY <1>2, FS_CardinalityType
<1>4. t.tenure \in Nat \ {0}
    BY TermsFields
<1>5. PaidInstallments(a) \in 0..t.tenure
    BY <1>3, <1>4 DEF PaidInstallments
<1>6. Debits(a) = {} => Cardinality(Debits(a)) = 0
    BY FS_EmptySet
<1> QED
    BY <1>3, <1>4, <1>5, <1>6 DEF PaidInstallments

(* A loan's table repays it, and what was not repaid is outstanding.        *)
LEMMA LoanRepays ==
    ASSUME LedgerTypeOK, LoansMade, NEW a \in Accounts, schedules[a] # NoTerms
    PROVE  LET table == Table(a)
               n == schedules[a].tenure
           IN  /\ schedules[a] \in Terms /\ n \in Nat \ {0}
               /\ PaidInstallments(a) \in 0..n
               /\ table[n].balance = 0
               /\ \A i \in 1..n : table[i].principal \in Nat /\ table[i].interest \in Nat
               /\ PrincipalPaid(a) \in Nat
               /\ Amounts(transfers, Recasts(a)) \in Nat
               /\ PrincipalPaid(a) <= schedules[a].principal + Amounts(transfers, Recasts(a))
               /\ OutstandingPrincipal(a) =
                     IF Settled(a) THEN 0
                     ELSE schedules[a].principal + Amounts(transfers, Recasts(a)) - PrincipalPaid(a)
               /\ OutstandingPrincipal(a) \in Nat
               /\ (\A s \in Recasts(a) : transfers[s].date < Due(schedules[a], n)) =>
                     PrincipalIn(table, Unpaid(a)) =
                        schedules[a].principal + Amounts(transfers, Recasts(a)) - PrincipalPaid(a)
<1> DEFINE t == schedules[a]
           n == t.tenure
           table == Table(a)
           added == Into(a)
           all == Amounts(transfers, Recasts(a))
           p == PaidInstallments(a)
<1>1. t \in Terms /\ Scheduled(t)
    BY DEF LoansMade, Scheduled
<1>2. n \in Nat \ {0} /\ t.principal \in Nat
    BY <1>1, TermsFields
<1>3. p \in 0..n /\ n \in 0..n
    BY <1>1, <1>2, DebitsFacts
<1>4. Moving(added) /\ all = Amounts(added, DOMAIN added) /\ DOMAIN added = Recasts(a)
      /\ \A s \in Recasts(a) : added[s] = transfers[s]
    BY IntoIsMoving DEF Into
<1>5. table = LoanAmortization(t, added)
    BY DEF Table, Into
<1>6. /\ PrincipalPaid(a) = PrincipalIn(table, 1..p)
      /\ Unpaid(a) = (p + 1)..n
    BY DEF PrincipalPaid, Unpaid
<1>7. OutstandingPrincipal(a) =
        LET owed == t.principal + all - PrincipalPaid(a)
        IN  IF Settled(a) \/ owed < 0 THEN 0 ELSE owed
    BY DEF OutstandingPrincipal
<1> HIDE DEF t, n, table, added, all, p
<1>8. /\ table[n].balance = 0
      /\ \A i \in 1..n : table[i].principal \in Nat /\ table[i].interest \in Nat
      /\ \A k \in 0..n : /\ MovedBy(t, added, k) \in Nat
                         /\ PrincipalIn(table, 1..k) \in Nat
                         /\ PrincipalIn(table, 1..k) <= t.principal + MovedBy(t, added, k)
      /\ PrincipalIn(table, 1..n) = t.principal + MovedBy(t, added, n)
    BY <1>1, <1>4, <1>5, TableRepays DEF n
<1>9. /\ all \in Nat
      /\ \A k \in 0..n : MovedBy(t, added, k) <= all
      /\ (\A s \in Recasts(a) : transfers[s].date < Due(t, n)) => MovedBy(t, added, n) = all
  <2>1. all \in Nat
      BY <1>4, AmountsFacts
  <2>2. \A k \in 0..n : MovedBy(t, added, k) <= all
      BY <1>4, <2>1, AddedBeforeFacts DEF MovedBy
  <2>3. n # 0
      BY <1>2
  <2>4. (\A s \in DOMAIN added : added[s].date < Due(t, n)) => AddedBefore(added, Due(t, n)) = all
      BY <1>4, AddedBeforeFacts
  <2> QED
      BY <1>4, <2>1, <2>2, <2>3, <2>4 DEF MovedBy
<1>10. /\ PrincipalIn(table, 1..p) \in Nat
       /\ PrincipalIn(table, 1..n) = PrincipalIn(table, 1..p) + PrincipalIn(table, (p + 1)..n)
       /\ PrincipalIn(table, (p + 1)..n) \in Nat
  <2>1. n \in Nat
      BY <1>2
  <2> QED
      BY <1>3, <1>8, <2>1, SumSplits
<1> DEFINE paid == PrincipalPaid(a)
           m == MovedBy(t, added, p)
           pr == t.principal
<1>11. paid \in Nat /\ paid <= pr + m /\ m \in Nat /\ m <= all /\ pr \in Nat
    BY <1>2, <1>3, <1>6, <1>8, <1>9
<1> HIDE DEF paid, m, pr
<1>12. paid <= pr + all
    BY <1>9, <1>11
<1>13. /\ OutstandingPrincipal(a) = IF Settled(a) THEN 0 ELSE pr + all - paid
       /\ OutstandingPrincipal(a) \in Nat
  <2>1. pr + all - paid \in Nat /\ ~ (pr + all - paid < 0)
      BY <1>9, <1>11, <1>12
  <2>2. OutstandingPrincipal(a) = IF Settled(a) \/ pr + all - paid < 0 THEN 0 ELSE pr + all - paid
      BY <1>7 DEF paid, pr
  <2> QED
      BY <2>1, <2>2
<1>14. (\A s \in Recasts(a) : transfers[s].date < Due(t, n)) =>
          PrincipalIn(table, Unpaid(a)) = pr + all - paid
  <2>1. SUFFICES ASSUME \A s \in Recasts(a) : transfers[s].date < Due(t, n)
                 PROVE  PrincipalIn(table, Unpaid(a)) = pr + all - paid
      OBVIOUS
  <2> DEFINE rest == PrincipalIn(table, (p + 1)..n)
  <2>2. MovedBy(t, added, n) = all
      BY <1>9, <2>1
  <2>3. pr + all = paid + rest /\ rest \in Nat /\ PrincipalIn(table, Unpaid(a)) = rest
      BY <1>6, <1>8, <1>10, <2>2 DEF paid, pr
  <2> HIDE DEF rest
  <2> QED
      BY <1>9, <1>11, <2>3
<1> QED
    BY <1>1, <1>2, <1>3, <1>8, <1>9, <1>11, <1>12, <1>13, <1>14 DEF t, n, table, all, paid, pr, p

LEMMA MoneyAddsUp == LedgerTypeOK /\ LoansMade => OwedIsOutstanding
<1> SUFFICES ASSUME LedgerTypeOK, LoansMade, NEW a \in Accounts, schedules[a] # NoTerms
             PROVE  LET table == Table(a)
                        n == schedules[a].tenure
                    IN  /\ table[n].balance = 0
                        /\ \A i \in 1 .. n : table[i].principal >= 0 /\ table[i].interest >= 0
                        /\ (~Settled(a) /\ \A s \in Recasts(a) :
                                              transfers[s].date < Due(schedules[a], n))
                             => PrincipalIn(table, Unpaid(a)) = OutstandingPrincipal(a)
    BY DEF OwedIsOutstanding
<1> DEFINE table == Table(a)
           n == schedules[a].tenure
<1>1. /\ table[n].balance = 0
      /\ \A i \in 1..n : table[i].principal \in Nat /\ table[i].interest \in Nat
      /\ OutstandingPrincipal(a) =
            IF Settled(a) THEN 0
            ELSE schedules[a].principal + Amounts(transfers, Recasts(a)) - PrincipalPaid(a)
      /\ (\A s \in Recasts(a) : transfers[s].date < Due(schedules[a], n)) =>
            PrincipalIn(table, Unpaid(a)) =
               schedules[a].principal + Amounts(transfers, Recasts(a)) - PrincipalPaid(a)
    BY LoanRepays
<1> HIDE DEF table, n
<1>2. \A i \in 1..n : table[i].principal >= 0 /\ table[i].interest >= 0
    BY <1>1
<1>3. (~Settled(a) /\ \A s \in Recasts(a) : transfers[s].date < Due(schedules[a], n))
        => PrincipalIn(table, Unpaid(a)) = OutstandingPrincipal(a)
    BY <1>1
<1> QED
    BY <1>1, <1>2, <1>3 DEF table, n

-----------------------------------------------------------------------------
(* What a step does to the requests in progress.                            *)

(* A transfer in progress carries what it did, and reads nothing again.     *)
Follows(q, p) ==
    p.op = "transfer" =>
        /\ q.op = "transfer" /\ p.made = q.made /\ p.from = q.from /\ p.opening = q.opening
        /\ p.fresh => q.fresh

Quiet == \A r \in Requests : Follows(pending[r], pending'[r])

(* Every transfer in progress is out of date.                               *)
Unread == \A r \in Requests : pending'[r].op = "transfer" => ~ pending'[r].fresh

Still == UNCHANGED <<schedules, transfers, attached, ledger>>

LEMMA FollowsSame == \A q : Follows(q, q)
BY DEF Follows

LEMMA StaleFollows ==
    ASSUME Shape, NEW r \in Requests
    PROVE  /\ Follows(pending[r], Stale[r])
           /\ Stale[r].op = "transfer" => ~ Stale[r].fresh
           /\ pending[r].op = "transfer" => Stale[r].op = "transfer"
<1>1. Stale[r] = IF pending[r].op = "transfer" THEN [pending[r] EXCEPT !.fresh = FALSE]
                 ELSE pending[r]
    BY DEF Stale
<1>2. CASE pending[r].op # "transfer"
    BY <1>1, <1>2 DEF Follows
<1>3. CASE pending[r].op = "transfer"
  <2>1. Transferring(pending[r])
      BY <1>3 DEF Shape, Shaped, Idle, Attaching
  <2>2. Stale[r] = [op |-> "transfer", from |-> pending[r].from, opening |-> pending[r].opening,
                    fresh |-> FALSE, made |-> pending[r].made]
      BY <1>1, <1>3, <2>1 DEF Transferring
  <2> QED
      BY <1>3, <2>2 DEF Follows
<1> QED
    BY <1>2, <1>3

LEMMA IdleFollows == Idle.op # "transfer" /\ \A q : Follows(q, Idle)
BY DEF Follows, Idle

LEMMA StaleIsUnread ==
    ASSUME Shape, \A r \in Requests : pending'[r] = Stale[r] \/ pending'[r].op # "transfer"
    PROVE  Quiet /\ Unread
BY StaleFollows DEF Quiet, Unread, Follows

LEMMA KeptIsQuiet ==
    ASSUME \A r \in Requests : pending'[r] = pending[r] \/ pending'[r].op # "transfer"
    PROVE  Quiet
BY DEF Quiet, Follows

LEMMA CascadeIsUnread ==
    ASSUME Shape, Cascade
    PROVE  Quiet /\ Unread
<1>1. ASSUME NEW r \in Requests
      PROVE  pending'[r] = Stale[r] \/ pending'[r].op # "transfer"
  <2> DEFINE dead == pending[r].op = "attach" /\ ~(pending[r].ids \subseteq DOMAIN txns')
  <2>1. pending'[r] = IF dead THEN [pending[r] EXCEPT !.ids = {}] ELSE Stale[r]
      BY DEF Cascade
  <2>2. CASE dead
    <3>1. Attaching(pending[r])
        BY <2>2 DEF Shape, Shaped, Idle, Transferring
    <3>2. pending'[r] = [op |-> "attach", inserted |-> pending[r].inserted, ids |-> {},
                         loan |-> pending[r].loan]
        BY <2>1, <2>2, <3>1 DEF Attaching
    <3> QED
        BY <3>2
  <2> QED
      BY <2>1, <2>2
<1> QED
    BY <1>1, StaleIsUnread

(* The requests that only read, and those on payments, are no transfer's.   *)
LEMMA LinkSteps ==
    ASSUME Shape, LinkNext
    PROVE  /\ Shape' /\ Quiet /\ UNCHANGED <<schedules, transfers, ledger>>
           /\ Unread \/ Still
<1>1. ASSUME NEW ids, Detach(ids)
      PROVE  Shape' /\ Quiet /\ Unread /\ UNCHANGED <<schedules, transfers, ledger>>
  <2>1. pending' = Stale /\ UNCHANGED <<schedules, transfers, ledger>>
      BY <1>1 DEF Detach
  <2> QED
      BY <1>1, <2>1, DetachIsTame, TameKeepsShape, StaleIsUnread
<1>2. ASSUME NEW r \in Requests, NEW a \in Accounts, NEW ids, CheckAttach(r, ids, a)
      PROVE  Shape' /\ Quiet /\ Still
  <2>1. /\ \A p \in Requests : p # r => pending'[p] = pending[p]
        /\ pending'[r].op = "attach"
        /\ Still
      BY <1>2 DEF CheckAttach, Still, Shape
  <2> QED
      BY <1>2, <2>1, CheckAttachIsTame, TameKeepsShape, KeptIsQuiet
<1>3. ASSUME NEW r \in Requests, InsertAttachments(r)
      PROVE  Shape' /\ Quiet /\ Still
  <2>1. /\ Shape'
        /\ \A p \in Requests : p # r => pending'[p] = pending[p]
        /\ \/ pending' = [pending EXCEPT ![r] = Idle]
           \/ pending'[r] = [op |-> "attach", inserted |-> TRUE, ids |-> pending[r].ids,
                             loan |-> pending[r].loan]
      BY <1>3, InsertKeepsShape
  <2>2. pending'[r].op # "transfer"
      BY <2>1, IdleFollows DEF Shape
  <2>3. Still
      BY <1>3 DEF InsertAttachments, Still
  <2> QED
      BY <2>1, <2>2, <2>3, KeptIsQuiet
<1>4. ASSUME NEW r \in Requests, CommitAttachments(r)
      PROVE  Shape' /\ Quiet /\ Unread /\ UNCHANGED <<schedules, transfers, ledger>>
  <2>1. Shape' /\ \A p \in Requests : pending'[p] = Idle \/ pending'[p] = Stale[p]
      BY <1>4, CommitKeepsShape
  <2>2. UNCHANGED <<schedules, transfers, ledger>>
      BY <1>4 DEF CommitAttachments
  <2> QED
      BY <2>1, <2>2, IdleFollows, StaleIsUnread
<1>5. ASSUME NEW a \in Accounts, NEW t, LinkLoanDisbursement(a, t)
      PROVE  Shape' /\ Quiet /\ Still
  <2>1. Still /\ pending' = pending
      BY <1>5 DEF LinkLoanDisbursement, Still
  <2> QED
      BY <1>5, <2>1, ReleaseKeepsShape, KeptIsQuiet
<1>6. ASSUME NEW a \in Accounts, UnlinkLoanDisbursement(a)
      PROVE  Shape' /\ Quiet /\ Still
  <2>1. Still /\ pending' = pending
      BY <1>6 DEF UnlinkLoanDisbursement, Still
  <2> QED
      BY <1>6, <2>1, UnlinkIsTame, TameKeepsShape, KeptIsQuiet
<1>7. Still => UNCHANGED <<schedules, transfers, ledger>>
    BY DEF Still
<1> QED
    BY <1>1, <1>2, <1>3, <1>4, <1>5, <1>6, <1>7 DEF LinkNext

LEMMA TermsSteps ==
    ASSUME Shape, TermsNext \/ (\E a \in Accounts : DeleteLoanTransfer(a))
    PROVE  Shape' /\ Quiet /\ Unread /\ UNCHANGED ledger
<1>1. pending' = Stale /\ UNCHANGED ledger
    BY DEF TermsNext, UpsertLoanSchedule, DeleteLoanSchedule, DeleteLoanTransfer
<1> QED
    BY <1>1, TermsAreTame, TameKeepsShape, StaleIsUnread

(* What a commit of a transfer does: all of it, or nothing.                 *)
Lands(q) ==
    /\ ~Settled(q.from) /\ Exists(q.from) /\ Exists(q.made.to)
    /\ (q.made.mode = "opens" /\ LoanAccount(q.made.to)) => schedules[q.made.to] = NoTerms
    /\ transfers' = [transfers EXCEPT ![q.from] = q.made]
    /\ schedules' = IF q.made.mode = "opens" /\ LoanAccount(q.made.to)
                      THEN [schedules EXCEPT ![q.made.to] = OpenedTerms(q.opening, q.made.amount)]
                      ELSE schedules

LEMMA CommitTransferSteps ==
    ASSUME Shape, NEW r \in Requests, CommitTransfer(r)
    PROVE  /\ Shape' /\ Quiet /\ UNCHANGED <<attached, released, ledger>>
           /\ pending[r].op = "transfer" /\ pending'[r] = Idle
           /\ \A p \in Requests : p # r => pending'[p].op = pending[p].op
           /\ \/ Lands(pending[r]) /\ Unread
              \/ Still
<1>1. UNCHANGED <<attached, released, ledger>> /\ pending[r].op = "transfer"
    BY DEF CommitTransfer
<1>2. Shape'
    BY CommitTransferIsTame, TameKeepsShape
<1>3. CASE Lands(pending[r]) /\ pending' = [Stale EXCEPT ![r] = Idle]
  <2>1. /\ \A p \in Requests : p # r => pending'[p] = Stale[p]
        /\ pending'[r] = Idle
      BY <1>3 DEF Stale
  <2>2. \A p \in Requests : pending'[p] = Stale[p] \/ pending'[p].op # "transfer"
      BY <2>1, IdleFollows
  <2>3. \A p \in Requests : Stale[p].op = pending[p].op
    <3>1. ASSUME NEW p \in Requests
          PROVE  Stale[p].op = pending[p].op
      <4>1. CASE pending[p].op = "transfer"
          BY <4>1, StaleFollows
      <4>2. CASE pending[p].op # "transfer"
          BY <4>2 DEF Stale
      <4> QED
          BY <4>1, <4>2
    <3> QED
        BY <3>1
  <2> QED
      BY <1>1, <1>2, <1>3, <2>1, <2>2, <2>3, StaleIsUnread
<1>4. CASE pending' = [pending EXCEPT ![r] = Idle] /\ UNCHANGED <<schedules, transfers>>
  <2>1. /\ \A p \in Requests : p # r => pending'[p] = pending[p]
        /\ pending'[r] = Idle
      BY <1>4 DEF Shape
  <2>2. \A p \in Requests : pending'[p] = pending[p] \/ pending'[p].op # "transfer"
      BY <2>1, IdleFollows
  <2>3. Still
      BY <1>1, <1>4 DEF Still
  <2> QED
      BY <1>1, <1>2, <2>1, <2>2, <2>3, KeptIsQuiet
<1> QED
    BY <1>3, <1>4 DEF CommitTransfer, Lands, Done

-----------------------------------------------------------------------------
(* The loans stay what they are made of.                                    *)

LEMMA LedgerIsLedger ==
    ASSUME [LoansNext]_<<ledger, loans>>
    PROVE  [LedgerNext]_ledger
<1>1. CASE LedgerStep
  <2>1. \/ \E a \in Accounts, r \in Rows : CreateTransaction(a, r, NoCycle)
        \/ \E t \in DOMAIN txns, a \in Accounts \cup {Keep}, r \in Rows \cup {Keep} :
              UpdateTransaction(t, a, r, Keep)
        \/ \E ids \in SUBSET DOMAIN txns : BulkDeleteTransactions(ids)
        \/ \E a \in Accounts : CreateAccount(a)
        \/ \E p \in Patches : UpdateAccount(p)
        \/ \E a \in Accounts : DeleteAccount(a)
      BY <1>1 DEF LedgerStep
  <2>2. \A a : NoCycle \in CyclesOf(cycles, a) \cup {NoCycle}
      OBVIOUS
  <2>3. Keep \in cycles \cup {Keep, NoCycle}
      OBVIOUS
  <2>4. CASE \E a \in Accounts, r \in Rows : CreateTransaction(a, r, NoCycle)
      BY <2>2, <2>4 DEF LedgerNext, TxnNext
  <2>5. CASE \E t \in DOMAIN txns, a \in Accounts \cup {Keep}, r \in Rows \cup {Keep} :
              UpdateTransaction(t, a, r, Keep)
      BY <2>3, <2>5 DEF LedgerNext, TxnNext
  <2>6. CASE \E ids \in SUBSET DOMAIN txns : BulkDeleteTransactions(ids)
      BY <2>6 DEF LedgerNext, TxnNext
  <2>7. CASE \/ \E a \in Accounts : CreateAccount(a)
             \/ \E p \in Patches : UpdateAccount(p)
             \/ \E a \in Accounts : DeleteAccount(a)
      BY <2>7 DEF LedgerNext, AccountNext
  <2> QED
      BY <2>1, <2>4, <2>5, <2>6, <2>7
<1>2. CASE LinkNext
    BY <1>2 DEF LinkNext, Detach, CheckAttach, InsertAttachments, CommitAttachments,
                LinkLoanDisbursement, UnlinkLoanDisbursement
<1>3. CASE TermsNext
    BY <1>3 DEF TermsNext, UpsertLoanSchedule, DeleteLoanSchedule
<1>4. CASE TransferNext
    BY <1>4 DEF TransferNext, CheckTransfer, CommitTransfer, DeleteLoanTransfer
<1>5. CASE UNCHANGED <<ledger, loans>>
    BY <1>5
<1> QED
    BY <1>1, <1>2, <1>3, <1>4, <1>5 DEF LoansNext

LEMMA CarriesOn ==
    ASSUME Quiet, \A r \in Requests : Carries(pending[r])
    PROVE  \A r \in Requests : Carries(pending'[r])
BY DEF Quiet, Follows, Carries

LEMMA CascadeMakes ==
    ASSUME LoansMade, Cascade
    PROVE  /\ LoansMade'
           /\ \A a \in Accounts : /\ transfers'[a] \in {transfers[a], NoTransfer}
                                  /\ schedules'[a] \in {schedules[a], NoTerms}
<1> DEFINE gone == {a \in Accounts : accounts'[a].state = "deleted"}
<1>1. schedules' = [a \in Accounts |-> IF a \in gone THEN NoTerms ELSE schedules[a]]
    BY DEF Cascade
<1>2. transfers' = [a \in Accounts |->
              IF transfers[a] = NoTransfer \/ a \in gone THEN NoTransfer
              ELSE IF transfers[a].to \in gone THEN NoTransfer ELSE transfers[a]]
    BY DEF Cascade
<1> HIDE DEF gone
<1>3. \A a \in Accounts : /\ transfers'[a] \in {transfers[a], NoTransfer}
                          /\ schedules'[a] \in {schedules[a], NoTerms}
    BY <1>1, <1>2
<1> QED
    BY <1>1, <1>2, <1>3 DEF LoansMade

LEMMA TermsMake ==
    ASSUME LoansMade, TermsNext
    PROVE  LoansMade' /\ UNCHANGED transfers
<1>1. UNCHANGED transfers
    BY DEF TermsNext, UpsertLoanSchedule, DeleteLoanSchedule
<1>2. PICK a \in Accounts : \/ \E t \in TermsSent : UpsertLoanSchedule(a, t)
                            \/ DeleteLoanSchedule(a)
    BY DEF TermsNext
<1>3. ASSUME NEW t \in TermsSent, UpsertLoanSchedule(a, t)
      PROVE  LoansMade'
  <2>1. t \in Terms /\ InCalendar(t)
      BY LoansAssumption DEF InCalendar
  <2>2. schedules' = [schedules EXCEPT ![a] = t]
      BY <1>3 DEF UpsertLoanSchedule
  <2> QED
      BY <1>1, <2>1, <2>2 DEF LoansMade
<1>4. CASE DeleteLoanSchedule(a)
  <2>1. schedules' = [schedules EXCEPT ![a] = NoTerms]
      BY <1>4 DEF DeleteLoanSchedule
  <2> QED
      BY <1>1, <2>1 DEF LoansMade
<1> QED
    BY <1>1, <1>2, <1>3, <1>4

LEMMA UndoMakes ==
    ASSUME LoansMade, NEW a \in Accounts, DeleteLoanTransfer(a)
    PROVE  LoansMade'
<1>1. transfers' = [transfers EXCEPT ![a] = NoTransfer]
    BY DEF DeleteLoanTransfer
<1>2. schedules' = schedules \/ \E b : schedules' = [schedules EXCEPT ![b] = NoTerms]
    BY DEF DeleteLoanTransfer, Undone
<1>3. schedules' \in [Accounts -> Terms \cup {NoTerms}]
      /\ \A b \in Accounts : schedules'[b] \in {schedules[b], NoTerms}
    BY <1>2 DEF LoansMade
<1>4. transfers' \in [Accounts -> Transfer \cup {NoTransfer}]
    BY <1>1 DEF LoansMade
<1> QED
    BY <1>3, <1>4 DEF LoansMade

LEMMA OpenedIsScheduled ==
    ASSUME NEW o \in Openings, NEW n \in Nat \ {0}
    PROVE  OpenedTerms(o, n) \in Terms /\ InCalendar(OpenedTerms(o, n))
<1>1. o.rate \in Nat /\ o.tenure \in Nat \ {0} /\ o.first \in Dates
    BY LoansAssumption
<1>2. MonthOf(o.first) >= 1 /\ MonthOf(o.first) + o.tenure <= LastMonth + 1
    BY LoansAssumption
<1> QED
    BY <1>1, <1>2 DEF OpenedTerms, Terms, InCalendar

LEMMA LandingMakes ==
    ASSUME LoansMade, NEW q, q.op = "transfer", Carries(q), Lands(q)
    PROVE  LoansMade'
<1>1. q.made \in Transfer /\ q.from \in Accounts
      /\ (q.made.mode = "opens" => q.opening \in Openings)
    BY DEF Carries
<1>2. q.made.to \in Accounts /\ q.made.amount \in Nat \ {0}
    BY <1>1, TransferFields
<1>3. transfers' \in [Accounts -> Transfer \cup {NoTransfer}]
    BY <1>1 DEF Lands, LoansMade
<1>4. CASE schedules' = schedules
    BY <1>3, <1>4 DEF LoansMade
<1>5. CASE /\ q.made.mode = "opens"
           /\ schedules' = [schedules EXCEPT ![q.made.to] = OpenedTerms(q.opening, q.made.amount)]
  <2>1. /\ OpenedTerms(q.opening, q.made.amount) \in Terms
        /\ InCalendar(OpenedTerms(q.opening, q.made.amount))
      BY <1>1, <1>2, <1>5, OpenedIsScheduled
  <2> QED
      BY <1>2, <1>3, <1>5, <2>1 DEF LoansMade
<1> QED
    BY <1>4, <1>5 DEF Lands

LEMMA CheckTransferSteps ==
    ASSUME Shape, LedgerTypeOK, LoansMade,
           NEW r \in Requests, NEW a \in Accounts, NEW b \in Accounts,
           NEW d \in TransferDates, NEW mode \in Modes, NEW o \in Openings,
           CheckTransfer(r, a, b, d, mode, o)
    PROVE  /\ Shape' /\ Still
           /\ \A p \in Requests : p # r => pending'[p] = pending[p]
           /\ pending[r] = Idle
           /\ pending'[r] =
                 [op |-> "transfer", from |-> a, opening |-> IF mode = "opens" THEN o ELSE NoTerms,
                  fresh |-> TRUE,
                  made |-> [to |-> b, amount |-> Payoff(a, d), mode |-> mode, date |-> d,
                            principal |-> OutstandingPrincipal(a)]]
           /\ Carries(pending'[r])
<1> DEFINE x == [to |-> b, amount |-> Payoff(a, d), mode |-> mode, date |-> d,
                 principal |-> OutstandingPrincipal(a)]
           op == IF mode = "opens" THEN o ELSE NoTerms
           q == [op |-> "transfer", from |-> a, opening |-> op, fresh |-> TRUE, made |-> x]
<1>1. Shape'
    BY CheckTransferIsTame, TameKeepsShape
<1>2. Still /\ pending[r] = Idle /\ schedules[a] # NoTerms /\ Payoff(a, d) \in 1..MaxMoved
    BY DEF CheckTransfer, Still
<1>3. pending' = [pending EXCEPT ![r] = q]
    BY DEF CheckTransfer
<1>4. Payoff(a, d) \in Nat \ {0}
    BY <1>2, LoansAssumption
<1>5. OutstandingPrincipal(a) \in Nat
    BY <1>2, LoanRepays
<1>6. x \in Transfer
    BY <1>4, <1>5 DEF Transfer
<1> HIDE DEF x
<1>7. /\ \A p \in Requests : p # r => pending'[p] = pending[p]
      /\ pending'[r] = q
    BY <1>3 DEF Shape
<1>8. x.mode = mode
    BY DEF x
<1>9. Carries(q)
    BY <1>6, <1>8 DEF Carries
<1> QED
    BY <1>1, <1>2, <1>7, <1>9 DEF x

LEMMA MoneyInit == LoanInit => MoneyInv
<1> SUFFICES ASSUME LoanInit
             PROVE  MoneyInv
    OBVIOUS
<1>1. LedgerTypeOK
    BY TypeInit DEF LoanInit
<1>2. LoansMade
    BY DEF LoanInit, LoansMade
<1>3. Shape
    BY IdleIsShaped DEF LoanInit, Shape
<1>4. \A r \in Requests : Carries(pending[r])
    BY IdleFollows DEF LoanInit, Carries
<1> QED
    BY <1>1, <1>2, <1>3, <1>4 DEF MoneyInv

LEMMA MoneyStep ==
    ASSUME MoneyInv, [LoansNext]_<<ledger, loans>>
    PROVE  MoneyInv'
<1>0. LedgerTypeOK /\ LoansMade /\ Shape /\ \A r \in Requests : Carries(pending[r])
    BY DEF MoneyInv
<1>1. LedgerTypeOK'
    BY <1>0, LedgerIsLedger, TypeStep
<1>2. UNCHANGED <<schedules, transfers>> => LoansMade'
    BY <1>0 DEF LoansMade
<1>3. CASE LedgerStep
  <2>1. Cascade
      BY <1>3 DEF LedgerStep
  <2>2. LoansMade' /\ Shape' /\ Quiet
      BY <1>0, <2>1, CascadeMakes, CascadeIsTame, TameKeepsShape, CascadeIsUnread
  <2> QED
      BY <1>0, <1>1, <2>2, CarriesOn DEF MoneyInv
<1>4. CASE LinkNext
  <2>1. Shape' /\ Quiet /\ UNCHANGED <<schedules, transfers>>
      BY <1>0, <1>4, LinkSteps
  <2> QED
      BY <1>0, <1>1, <1>2, <2>1, CarriesOn DEF MoneyInv
<1>5. CASE TermsNext
  <2>1. Shape' /\ Quiet /\ LoansMade'
      BY <1>0, <1>5, TermsSteps, TermsMake
  <2> QED
      BY <1>0, <1>1, <2>1, CarriesOn DEF MoneyInv
<1>6. ASSUME NEW a \in Accounts, DeleteLoanTransfer(a)
      PROVE  MoneyInv'
  <2>1. Shape' /\ Quiet /\ LoansMade'
      BY <1>0, <1>6, TermsSteps, UndoMakes
  <2> QED
      BY <1>0, <1>1, <2>1, CarriesOn DEF MoneyInv
<1>7. ASSUME NEW r \in Requests, CommitTransfer(r)
      PROVE  MoneyInv'
  <2>1. Shape' /\ Quiet /\ pending[r].op = "transfer" /\ (Lands(pending[r]) \/ Still)
      BY <1>0, <1>7, CommitTransferSteps
  <2>2. LoansMade'
      BY <1>0, <1>2, <2>1, LandingMakes DEF Still
  <2> QED
      BY <1>0, <1>1, <2>1, <2>2, CarriesOn DEF MoneyInv
<1>8. ASSUME NEW r \in Requests, NEW a \in Accounts, NEW b \in Accounts,
             NEW d \in TransferDates, NEW mode \in Modes, NEW o \in Openings,
             CheckTransfer(r, a, b, d, mode, o)
      PROVE  MoneyInv'
  <2>1. /\ Shape' /\ Still
        /\ \A p \in Requests : p # r => pending'[p] = pending[p]
        /\ Carries(pending'[r])
      BY <1>0, <1>8, CheckTransferSteps
  <2>2. LoansMade'
      BY <1>2, <2>1 DEF Still
  <2>3. \A p \in Requests : Carries(pending'[p])
      BY <1>0, <2>1
  <2> QED
      BY <1>1, <2>1, <2>2, <2>3 DEF MoneyInv
<1>9. CASE UNCHANGED <<ledger, loans>>
  <2>1. Shape' /\ UNCHANGED <<schedules, transfers, pending>>
      BY <1>0, <1>9 DEF loans, Shape
  <2> QED
      BY <1>0, <1>1, <1>2, <2>1 DEF MoneyInv
<1>10. CASE TransferNext
    BY <1>6, <1>7, <1>8, <1>10 DEF TransferNext
<1> QED
    BY <1>3, <1>4, <1>5, <1>9, <1>10 DEF LoansNext

(* A loan's table repays it to the last unit, with no negative installment, *)
(* whatever its terms, however the payments, the recasts and the payoffs    *)
(* came about, and what the installments to come repay is what the handlers *)
(* report as outstanding (amortization.go, loadLoanScheduleDetail).         *)
THEOREM DebtIsAccountedFor == LoansSpec => []OwedIsOutstanding
<1>1. MoneyInv /\ [LoansNext]_<<ledger, loans>> => MoneyInv'
    BY MoneyStep
<1>2. MoneyInv => OwedIsOutstanding
    BY MoneyAddsUp DEF MoneyInv
<1> QED
    BY MoneyInit, <1>1, <1>2, PTL DEF LoansSpec

-----------------------------------------------------------------------------
(* One transfer more or less. *)

(* Recasts and TakenOver, of any transfers.                                 *)
By(moved, b, mode) ==
    {s \in Accounts : moved[s] # NoTransfer /\ moved[s].to = b /\ moved[s].mode = mode}

IntoOf(moved, b) == [s \in By(moved, b, "recast") |-> moved[s]]

AllTransfers == [Accounts -> Transfer \cup {NoTransfer}]

(* now is what was makes with transfer x out of f.                          *)
OneMore(was, now, f, x) ==
    /\ was \in AllTransfers /\ f \in Accounts /\ x \in Transfer
    /\ was[f] = NoTransfer /\ now = [was EXCEPT ![f] = x]

LEMMA ByIs ==
    /\ \A b : Recasts(b) = By(transfers, b, "recast")
    /\ \A b : TakenOver(b) = By(transfers, b, "takeover")
    /\ \A b : Table(b) = LoanAmortization(schedules[b], IntoOf(transfers, b))
<1>1. \A b : Recasts(b) = By(transfers, b, "recast")
    BY DEF Recasts, Incoming, By
<1>2. \A b : TakenOver(b) = By(transfers, b, "takeover")
    BY DEF TakenOver, Incoming, By
<1>3. ASSUME NEW b
      PROVE  Table(b) = LoanAmortization(schedules[b], IntoOf(transfers, b))
  <2>1. [s \in Recasts(b) |-> transfers[s]] = IntoOf(transfers, b)
      BY <1>1 DEF IntoOf
  <2> QED
      BY <2>1 DEF Table
<1> QED
    BY <1>1, <1>2, <1>3

LEMMA ByFacts ==
    ASSUME NEW moved, moved \in AllTransfers, NEW b, NEW mode
    PROVE  /\ By(moved, b, mode) \subseteq Accounts /\ IsFiniteSet(By(moved, b, mode))
           /\ \A s \in By(moved, b, mode) : moved[s] \in Transfer /\ moved[s].amount \in Nat
           /\ Amounts(moved, By(moved, b, mode)) \in Nat
<1> DEFINE S == By(moved, b, mode)
           f == [s \in S |-> moved[s].amount]
<1>1. S \subseteq Accounts /\ \A s \in S : moved[s] \in Transfer
    BY DEF By, AllTransfers
<1> HIDE DEF S
<1>2. IsFiniteSet(S)
    BY <1>1, LoansAssumption, FS_Subset
<1>3. \A s \in S : moved[s].amount \in Nat
    BY <1>1, TransferFields
<1>4. \A s \in S : f[s] \in Nat
    BY <1>3
<1>5. Amounts(moved, S) = SumFunctionOnSet(f, S)
    BY DEF Amounts
<1> HIDE DEF f
<1>6. SumFunctionOnSet(f, S) \in Nat
    BY <1>2, <1>4, SumIsNat
<1> QED
    BY <1>1, <1>2, <1>3, <1>5, <1>6 DEF S

LEMMA ByOfOneMore ==
    ASSUME NEW was, NEW now, NEW f, NEW x, OneMore(was, now, f, x), NEW b, NEW mode
    PROVE  /\ now \in AllTransfers
           /\ f \notin By(was, b, mode)
           /\ By(now, b, mode) = IF x.to = b /\ x.mode = mode THEN By(was, b, mode) \cup {f}
                                 ELSE By(was, b, mode)
           /\ \A s \in By(was, b, mode) : now[s] = was[s]
           /\ now[f] = x
<1>1. now \in AllTransfers /\ x # NoTransfer
    BY TransferFields DEF OneMore, AllTransfers
<1>2. \A s \in Accounts : now[s] = IF s = f THEN x ELSE was[s]
    BY DEF OneMore, AllTransfers
<1> QED
    BY <1>1, <1>2 DEF OneMore, By

LEMMA AmountsOfOneMore ==
    ASSUME NEW was, NEW now, NEW f, NEW x, OneMore(was, now, f, x), NEW b, NEW mode
    PROVE  /\ Amounts(was, By(was, b, mode)) \in Nat
           /\ Amounts(now, By(now, b, mode)) =
                Amounts(was, By(was, b, mode)) + (IF x.to = b /\ x.mode = mode THEN x.amount ELSE 0)
<1> DEFINE S == By(was, b, mode)
           g == [s \in S |-> was[s].amount]
           h == [s \in S \cup {f} |-> now[s].amount]
           k == [s \in S |-> now[s].amount]
<1>1. /\ now \in AllTransfers /\ f \notin S /\ now[f] = x
      /\ By(now, b, mode) = IF x.to = b /\ x.mode = mode THEN S \cup {f} ELSE S
      /\ \A s \in S : now[s] = was[s]
    BY ByOfOneMore
<1>2. /\ IsFiniteSet(S) /\ Amounts(was, S) \in Nat
      /\ \A s \in S : was[s].amount \in Nat
    BY ByFacts DEF OneMore
<1>3. x.amount \in Nat
    BY TransferFields DEF OneMore
<1> HIDE DEF S
<1>4. Amounts(now, S) = Amounts(was, S)
  <2>1. k = g
      BY <1>1
  <2> QED
      BY <2>1 DEF Amounts
<1>5. Amounts(now, S \cup {f}) = x.amount + Amounts(was, S)
  <2>1. /\ \A s \in S \cup {f} : h[s] \in Int
        /\ \A s \in S : g[s] \in Int /\ h[s] = g[s]
        /\ h[f] = x.amount
      BY <1>1, <1>2, <1>3
  <2>2. Amounts(now, S \cup {f}) = SumFunctionOnSet(h, S \cup {f})
        /\ Amounts(was, S) = SumFunctionOnSet(g, S)
      BY DEF Amounts
  <2> HIDE DEF g, h
  <2>3. SumFunctionOnSet(h, S \cup {f}) = h[f] + SumFunctionOnSet(h, S)
      BY <1>1, <1>2, <2>1, SumAdds
  <2>4. SumFunctionOnSet(g, S) = SumFunctionOnSet(h, S)
      BY <1>2, <2>1, SumSame
  <2> QED
      BY <2>1, <2>2, <2>3, <2>4
<1>6. CASE x.to = b /\ x.mode = mode
  <2>1. Amounts(now, By(now, b, mode)) = x.amount + Amounts(was, S)
      BY <1>1, <1>5, <1>6
  <2> QED
      BY <1>2, <1>3, <1>6, <2>1 DEF S
<1>7. CASE ~ (x.to = b /\ x.mode = mode)
  <2>1. Amounts(now, By(now, b, mode)) = Amounts(was, S)
      BY <1>1, <1>4, <1>7
  <2> QED
      BY <1>2, <1>7, <2>1 DEF S
<1> QED
    BY <1>6, <1>7

LEMMA IntoOfIsMoving ==
    ASSUME NEW moved, moved \in AllTransfers, NEW b
    PROVE  /\ Moving(IntoOf(moved, b)) /\ DOMAIN IntoOf(moved, b) = By(moved, b, "recast")
           /\ \A s \in By(moved, b, "recast") : IntoOf(moved, b)[s] = moved[s]
           /\ Amounts(IntoOf(moved, b), DOMAIN IntoOf(moved, b))
                = Amounts(moved, By(moved, b, "recast"))
<1> DEFINE S == By(moved, b, "recast")
           a == IntoOf(moved, b)
<1>1. DOMAIN a = S /\ \A s \in S : a[s] = moved[s]
    BY DEF IntoOf
<1>2. IsFiniteSet(S) /\ \A s \in S : moved[s] \in Transfer
    BY ByFacts
<1> HIDE DEF S, a
<1>3. Moving(a)
    BY <1>1, <1>2, TransferFields DEF Moving
<1>4. Amounts(a, DOMAIN a) = Amounts(moved, S)
  <2>1. [s \in S |-> a[s].amount] = [s \in S |-> moved[s].amount]
      BY <1>1
  <2> QED
      BY <1>1, <2>1 DEF Amounts
<1> QED
    BY <1>1, <1>3, <1>4 DEF S, a

(* A transfer dated no earlier than the first p installments is in none.    *)
LEMMA FirstRowsStay ==
    ASSUME NEW t, Scheduled(t), NEW was, NEW now, NEW f, NEW x, OneMore(was, now, f, x), NEW b,
           NEW p \in 0..t.tenure, \A i \in 1..p : Due(t, i) <= x.date
    PROVE  \A i \in 1..p : LoanAmortization(t, IntoOf(now, b))[i]
                            = LoanAmortization(t, IntoOf(was, b))[i]
<1> DEFINE n == t.tenure
           A == IntoOf(was, b)
           B == IntoOf(now, b)
           S == By(was, b, "recast")
           before(m, d) == {s \in DOMAIN m : m[s].date < d}
<1>1. t \in Terms /\ n \in Nat
    BY TermsFields DEF Scheduled
<1>2. /\ now \in AllTransfers /\ was \in AllTransfers /\ f \notin S /\ now[f] = x /\ x \in Transfer
      /\ By(now, b, "recast") \in {S, S \cup {f}}
      /\ \A s \in S : now[s] = was[s]
  <2>1. /\ now \in AllTransfers /\ f \notin S /\ now[f] = x
        /\ By(now, b, "recast") = IF x.to = b /\ x.mode = "recast" THEN S \cup {f} ELSE S
        /\ \A s \in S : now[s] = was[s]
      BY ByOfOneMore
  <2> HIDE DEF S
  <2> QED
      BY <2>1 DEF OneMore
<1>3. /\ DOMAIN A = S /\ \A s \in S : A[s] = was[s]
      /\ DOMAIN B = By(now, b, "recast") /\ \A s \in DOMAIN B : B[s] = now[s]
    BY <1>2, IntoOfIsMoving
<1> HIDE DEF S, A, B
<1>4. ASSUME NEW i \in 1..p
      PROVE  AddedBefore(B, Due(t, i)) = AddedBefore(A, Due(t, i))
  <2> DEFINE d == Due(t, i)
  <2>1. i \in 1..t.tenure /\ d <= x.date
      BY <1>1
  <2>2. d \in Int /\ x.date \in Int
      BY <1>2, <2>1, DueIsInt, TransferFields
  <2> HIDE DEF d
  <2>3. before(B, d) = before(A, d) /\ \A s \in before(A, d) : A[s] = B[s]
      BY <1>2, <1>3, <2>1, <2>2
  <2>4. AddedBefore(B, d) = Amounts(B, before(B, d)) /\ AddedBefore(A, d) = Amounts(A, before(A, d))
      BY DEF AddedBefore
  <2> HIDE DEF before
  <2>5. [s \in before(A, d) |-> A[s].amount] = [s \in before(A, d) |-> B[s].amount]
      BY <2>3
  <2>6. Amounts(A, before(A, d)) = Amounts(B, before(A, d))
      BY <2>5 DEF Amounts
  <2>7. AddedBefore(B, d) = AddedBefore(A, d)
      BY <2>3, <2>4, <2>6
  <2> QED
      BY <2>7 DEF d
<1>5. ASSUME NEW i \in 1..p
      PROVE  NewBefore(t, B, i) = NewBefore(t, A, i)
  <2>1. i # 1 => i - 1 \in 1..p
      BY <1>1
  <2> QED
      BY <1>4, <2>1 DEF NewBefore
<1>6. PICK e : IsTableOf(t, A, n, e) /\ LoanAmortization(t, A) = [i \in 1..n |-> e[i]]
    BY <1>1, TableUnfolds
<1>7. PICK g : IsTableOf(t, B, n, g) /\ LoanAmortization(t, B) = [i \in 1..n |-> g[i]]
    BY <1>1, TableUnfolds
<1> HIDE DEF n
<1>8. \A i \in 0..n : /\ e[i] = IF i = 0 THEN Opening(t)
                                ELSE Installment(t, i, e[i - 1], NewBefore(t, A, i))
                      /\ g[i] = IF i = 0 THEN Opening(t)
                                ELSE Installment(t, i, g[i - 1], NewBefore(t, B, i))
    BY <1>6, <1>7 DEF IsTableOf
<1> DEFINE K == {i \in 0..p : e[i] = g[i]}
<1>9. p \in 0..n
    BY DEF n
<1>10. 0 \in K
    BY <1>1, <1>8, <1>9
<1>11. ASSUME NEW i \in 0..(p - 1), i \in K
       PROVE  i + 1 \in K
  <2>1. i + 1 \in 1..p /\ i + 1 \in 0..p /\ i + 1 \in 0..n /\ i + 1 # 0 /\ (i + 1) - 1 = i
      BY <1>1, <1>9
  <2>2. e[i + 1] = Installment(t, i + 1, e[i], NewBefore(t, A, i + 1))
        /\ g[i + 1] = Installment(t, i + 1, g[i], NewBefore(t, B, i + 1))
      BY <1>8, <2>1
  <2>3. NewBefore(t, B, i + 1) = NewBefore(t, A, i + 1)
      BY <1>5, <2>1
  <2> QED
      BY <1>11, <2>1, <2>2, <2>3
<1> HIDE DEF K
<1>12. \A i \in 0..p : i \in K
  <2>1. p \in Nat
      BY <1>1, <1>9
  <2> QED
      BY <1>10, <1>11, <2>1, Induct
<1>13. \A i \in 1..p : i \in 0..p /\ i \in 1..n
    BY <1>1, <1>9
<1>14. \A i \in 1..p : e[i] = g[i]
    BY <1>12, <1>13 DEF K
<1> QED
    BY <1>6, <1>7, <1>13, <1>14 DEF A, B

(* What was paid of terms t by p payments, and it fits what was lent.       *)
PaidOf(t, moved, b, p) == PrincipalIn(LoanAmortization(t, IntoOf(moved, b)), 1..p)

LEMMA PaidStays ==
    ASSUME NEW t, Scheduled(t), NEW was, NEW now, NEW f, NEW x, OneMore(was, now, f, x), NEW b,
           NEW p \in 0..t.tenure, \A i \in 1..p : Due(t, i) <= x.date
    PROVE  PaidOf(t, now, b, p) = PaidOf(t, was, b, p)
<1> DEFINE A == LoanAmortization(t, IntoOf(was, b))
           B == LoanAmortization(t, IntoOf(now, b))
<1>1. \A i \in 1..p : B[i] = A[i]
    BY FirstRowsStay
<1> HIDE DEF A, B
<1>2. [i \in 1..p |-> A[i].principal] = [i \in 1..p |-> B[i].principal]
    BY <1>1
<1>3. PrincipalIn(A, 1..p) = PrincipalIn(B, 1..p)
    BY <1>2 DEF PrincipalIn
<1> QED
    BY <1>3 DEF A, B, PaidOf

LEMMA PaidFits ==
    ASSUME NEW t, Scheduled(t), NEW moved, moved \in AllTransfers, NEW b, NEW p \in 0..t.tenure
    PROVE  /\ PaidOf(t, moved, b, p) \in Nat
           /\ Amounts(moved, By(moved, b, "recast")) \in Nat
           /\ PaidOf(t, moved, b, p) <= t.principal + Amounts(moved, By(moved, b, "recast"))
<1> DEFINE A == IntoOf(moved, b)
           all == Amounts(moved, By(moved, b, "recast"))
           m == MovedBy(t, A, p)
           pr == t.principal
<1>1. Moving(A) /\ Amounts(A, DOMAIN A) = all
    BY IntoOfIsMoving
<1>2. all \in Nat
    BY ByFacts
<1>3. pr \in Nat
    BY TermsFields DEF Scheduled
<1> HIDE DEF all
<1>4. PaidOf(t, moved, b, p) \in Nat /\ PaidOf(t, moved, b, p) <= t.principal + MovedBy(t, A, p)
    BY <1>1, TableRepays DEF PaidOf
<1>5. m \in Nat /\ m <= all
    BY <1>1, <1>2, AddedBeforeFacts DEF MovedBy
<1> HIDE DEF m, pr
<1>6. PaidOf(t, moved, b, p) <= pr + all
  <2> DEFINE paid == PaidOf(t, moved, b, p)
  <2>1. paid \in Nat /\ paid <= pr + m
      BY <1>4 DEF m, pr
  <2> HIDE DEF paid
  <2>2. paid <= pr + all
      BY <1>2, <1>3, <1>5, <2>1
  <2> QED
      BY <2>2 DEF paid
<1> QED
    BY <1>2, <1>4, <1>6 DEF all, pr

-----------------------------------------------------------------------------
(* What a transfer in progress has read.                                    *)

Covering(debits, rows, n) ==
    LET date(t) == rows[t].row.date
        upTo(t) == {u \in debits : date(u) <= date(t)}
        covering == {date(t) : t \in {u \in debits : Cardinality(upTo(u)) >= n}}
    IN  CHOOSE d \in covering : \A e \in covering : d <= e

LEMMA StillOwes ==
    ASSUME Still, NEW a, NEW d
    PROVE  /\ Settled(a)' <=> Settled(a)
           /\ LoanAccount(a)' <=> LoanAccount(a)
           /\ Exists(a)' <=> Exists(a)
           /\ Net(a)' = Net(a)
           /\ OutstandingPrincipal(a)' = OutstandingPrincipal(a)
           /\ Payoff(a, d)' = Payoff(a, d)
<1>1. /\ schedules' = schedules /\ transfers' = transfers /\ attached' = attached
      /\ accounts' = accounts /\ txns' = txns
    BY DEF Still, ledger
<1>2. /\ Settled(a)' <=> Settled(a)
      /\ LoanAccount(a)' <=> LoanAccount(a)
      /\ Exists(a)' <=> Exists(a)
    BY <1>1 DEF Settled, LoanAccount, Exists
<1>3. Recasts(a)' = Recasts(a) /\ TakenOver(a)' = TakenOver(a)
    BY <1>1 DEF Recasts, TakenOver, Incoming
<1>4. Net(a)' = Net(a)
    BY <1>1, <1>3 DEF Net
<1>5. Debits(a)' = Debits(a)
    BY <1>1 DEF Debits
<1>6. PaidInstallments(a)' = PaidInstallments(a)
    BY <1>1, <1>5 DEF PaidInstallments
<1>7. Table(a)' = Table(a)
    BY <1>1, <1>3 DEF Table
<1>8. PrincipalPaid(a)' = PrincipalPaid(a)
    BY <1>6, <1>7 DEF PrincipalPaid
<1>9. OutstandingPrincipal(a)' = OutstandingPrincipal(a)
    BY <1>1, <1>2, <1>3, <1>8 DEF OutstandingPrincipal
<1>10. LastPaidDate(a)' = LastPaidDate(a)
  <2>1. LastPaidDate(a) = Covering(Debits(a), txns, PaidInstallments(a))
      BY DEF LastPaidDate, Covering
  <2>2. LastPaidDate(a)' = Covering(Debits(a)', txns', PaidInstallments(a)')
      BY DEF LastPaidDate, Covering
  <2> QED
      BY <1>1, <1>5, <1>6, <2>1, <2>2
<1>11. PayoffAnchor(a)' = PayoffAnchor(a)
    BY <1>1, <1>6, <1>10 DEF PayoffAnchor
<1>12. AccruedInterest(a, d)' = AccruedInterest(a, d)
    BY <1>1, <1>9, <1>11 DEF AccruedInterest
<1>13. Payoff(a, d)' = Payoff(a, d)
    BY <1>9, <1>12 DEF Payoff
<1> QED
    BY <1>2, <1>4, <1>9, <1>13

(* A transfer in progress that nothing has overtaken.                       *)
Reads(q) ==
    LET a == q.from
        x == q.made
        b == x.to
    IN  q.op = "transfer" /\ q.fresh =>
          /\ a # b /\ schedules[a] # NoTerms /\ ~Settled(a) /\ LoanAccount(b)
          /\ x.mode = "opens" <=> schedules[b] = NoTerms
          /\ x.mode = "recast" => ~Settled(b)
          /\ x.mode = "takeover" => Net(b) >= x.amount
          /\ x.amount = Payoff(a, x.date)

FreshInv == \A r \in Requests : Reads(pending[r])

LEMMA StillReads ==
    ASSUME Still, NEW CONSTANT q, Reads(q)
    PROVE  Reads(q)'
<1> DEFINE a == q.from
           b == q.made.to
           d == q.made.date
<1>1. schedules' = schedules
    BY DEF Still
<1>2. /\ Settled(a)' <=> Settled(a)
      /\ Settled(b)' <=> Settled(b)
      /\ LoanAccount(b)' <=> LoanAccount(b)
      /\ Net(b)' = Net(b)
      /\ Payoff(a, d)' = Payoff(a, d)
    BY StillOwes
<1> QED
    BY <1>1, <1>2 DEF Reads

LEMMA FreshFollows ==
    ASSUME FreshInv, Quiet, Unread \/ Still
    PROVE  FreshInv'
<1>1. SUFFICES ASSUME NEW r \in Requests
               PROVE  Reads(pending[r])'
    BY DEF FreshInv
<1>2. Follows(pending[r], pending'[r]) /\ Reads(pending[r])
    BY DEF Quiet, FreshInv
<1>3. CASE ~ (pending'[r].op = "transfer" /\ pending'[r].fresh)
    BY <1>3 DEF Reads
<1>4. CASE pending'[r].op = "transfer" /\ pending'[r].fresh
  <2>1. Still
      BY <1>4 DEF Unread
  <2>2. PICK q : q = pending'[r]
      OBVIOUS
  <2>3. Reads(q)
      BY <1>2, <1>4, <2>2 DEF Follows, Reads
  <2>4. Reads(q)'
      BY <2>1, <2>3, StillReads
  <2> QED
      BY <2>2, <2>4
<1> QED
    BY <1>3, <1>4

(* A transfer joins two accounts that exist.                                *)
LiveInv ==
    \A a \in Accounts : transfers[a] # NoTransfer => Exists(a) /\ Exists(transfers[a].to)

MoveInv == MoneyInv /\ FreshInv /\ LiveInv

LEMMA AccountsLive ==
    ASSUME LedgerTypeOK, LedgerStep
    PROVE  \A a \in Accounts : Exists(a) => Exists(a)' \/ accounts'[a].state = "deleted"
<1>1. SUFFICES ASSUME NEW c \in Accounts, Exists(c)
               PROVE  Exists(c)' \/ accounts'[c].state = "deleted"
    OBVIOUS
<1>2. accounts \in [Accounts -> Account]
    BY DEF LedgerTypeOK
<1>3. CASE UNCHANGED accounts
    BY <1>1, <1>3 DEF Exists
<1>4. ASSUME NEW a \in Accounts, CreateAccount(a)
      PROVE  Exists(c)' \/ accounts'[c].state = "deleted"
  <2>1. a # c /\ accounts'[c] = accounts[c]
      BY <1>1, <1>2, <1>4 DEF CreateAccount, Exists
  <2> QED
      BY <1>1, <2>1 DEF Exists
<1>5. ASSUME NEW p \in Patches, UpdateAccount(p)
      PROVE  Exists(c)' \/ accounts'[c].state = "deleted"
  <2>1. accounts'[c] = accounts[c] \/ accounts'[c] = Patched(accounts[c], p)
      BY <1>2, <1>5 DEF UpdateAccount
  <2>2. Patched(accounts[c], p).state \in {accounts[c].state, "open", "closed"}
    <3> DEFINE st == CASE p.closed = Keep -> accounts[c].state
                       [] p.closed = TRUE -> "closed"
                       [] OTHER -> "open"
    <3>1. Patched(accounts[c], p).state = st
        BY DEF Patched
    <3>2. st \in {accounts[c].state, "open", "closed"}
        OBVIOUS
    <3> QED
        BY <3>1, <3>2
  <2> QED
      BY <1>1, <2>1, <2>2 DEF Exists
<1>6. ASSUME NEW a \in Accounts, DeleteAccount(a)
      PROVE  Exists(c)' \/ accounts'[c].state = "deleted"
  <2>1. CASE a = c
      BY <1>2, <1>6, <2>1 DEF DeleteAccount
  <2>2. CASE a # c
      BY <1>1, <1>2, <1>6, <2>2 DEF DeleteAccount, Exists
  <2> QED
      BY <2>1, <2>2
<1>7. \/ UNCHANGED accounts
      \/ \E a \in Accounts : CreateAccount(a)
      \/ \E p \in Patches : UpdateAccount(p)
      \/ \E a \in Accounts : DeleteAccount(a)
    BY DEF LedgerStep, CreateTransaction, UpdateTransaction, BulkDeleteTransactions
<1> QED
    BY <1>3, <1>4, <1>5, <1>6, <1>7

LEMMA LiveKept ==
    ASSUME LiveInv, UNCHANGED accounts,
           \A a \in Accounts : transfers'[a] \in {transfers[a], NoTransfer}
    PROVE  LiveInv'
BY DEF LiveInv, Exists

LEMMA LiveCascade ==
    ASSUME LedgerTypeOK, LoansMade, LiveInv, LedgerStep
    PROVE  LiveInv' /\ \A a \in Accounts : UNCHANGED accounts /\ transfers[a] # NoTransfer
                                             => transfers'[a] = transfers[a]
<1> DEFINE gone == {a \in Accounts : accounts'[a].state = "deleted"}
<1>1. transfers' = [a \in Accounts |->
              IF transfers[a] = NoTransfer \/ a \in gone THEN NoTransfer
              ELSE IF transfers[a].to \in gone THEN NoTransfer ELSE transfers[a]]
    BY DEF LedgerStep, Cascade
<1>2. \A a \in Accounts : Exists(a) => Exists(a)' \/ a \in gone
    BY AccountsLive
<1>3. UNCHANGED accounts => \A a \in gone : ~ Exists(a)
    BY DEF Exists
<1> HIDE DEF gone
<1>4. ASSUME NEW a \in Accounts
      PROVE  /\ transfers[a] = NoTransfer => transfers'[a] = NoTransfer
             /\ transfers[a] # NoTransfer =>
                  /\ transfers[a].to \in Accounts /\ Exists(a) /\ Exists(transfers[a].to)
                  /\ transfers'[a] = IF a \in gone \/ transfers[a].to \in gone THEN NoTransfer
                                     ELSE transfers[a]
  <2>1. transfers[a] # NoTransfer => transfers[a] \in Transfer
      BY DEF LoansMade
  <2> QED
      BY <1>1, <2>1, TransferFields DEF LiveInv
<1>5. LiveInv'
  <2>1. ASSUME NEW a \in Accounts, transfers'[a] # NoTransfer
        PROVE  (Exists(a) /\ Exists(transfers[a].to))'
    <3>1. /\ transfers'[a] = transfers[a] /\ transfers[a].to \in Accounts
          /\ a \notin gone /\ transfers[a].to \notin gone
          /\ Exists(a) /\ Exists(transfers[a].to)
        BY <1>4, <2>1
    <3>2. PICK b : b = transfers[a].to
        OBVIOUS
    <3>3. Exists(a)' /\ Exists(b)'
        BY <1>2, <3>1, <3>2
    <3> QED
        BY <3>1, <3>2, <3>3 DEF Exists
  <2> QED
      BY <2>1 DEF LiveInv, Exists
<1> QED
    BY <1>3, <1>4, <1>5

LEMMA LiveLanding ==
    ASSUME LoansMade, LiveInv, UNCHANGED accounts, NEW q, q.op = "transfer", Carries(q), Lands(q)
    PROVE  LiveInv'
<1>1. q.made \in Transfer /\ q.from \in Accounts
    BY DEF Carries
<1>2. /\ Exists(q.from) /\ Exists(q.made.to)
      /\ \A a \in Accounts : transfers'[a] = IF a = q.from THEN q.made ELSE transfers[a]
    BY DEF Lands, LoansMade
<1> QED
    BY <1>1, <1>2 DEF LiveInv, Exists

LEMMA CheckedReads ==
    ASSUME Shape, LedgerTypeOK, LoansMade,
           NEW r \in Requests, NEW a \in Accounts, NEW b \in Accounts,
           NEW d \in TransferDates, NEW mode \in Modes, NEW o \in Openings,
           CheckTransfer(r, a, b, d, mode, o)
    PROVE  Reads(pending[r])'
<1>1. Still /\ pending'[r] =
                 [op |-> "transfer", from |-> a, opening |-> IF mode = "opens" THEN o ELSE NoTerms,
                  fresh |-> TRUE,
                  made |-> [to |-> b, amount |-> Payoff(a, d), mode |-> mode, date |-> d,
                            principal |-> OutstandingPrincipal(a)]]
    BY CheckTransferSteps
<1>2. PICK q : q = pending'[r]
    OBVIOUS
<1>3. /\ q.from = a /\ q.made.to = b /\ q.made.amount = Payoff(a, d) /\ q.made.mode = mode
      /\ q.made.date = d
    BY <1>1, <1>2
<1>4. /\ a # b /\ schedules[a] # NoTerms /\ ~Settled(a) /\ LoanAccount(b)
      /\ (mode = "opens") = (schedules[b] = NoTerms)
      /\ mode = "recast" => ~Settled(b)
      /\ mode = "takeover" => Net(b) >= Payoff(a, d)
    BY DEF CheckTransfer, HasInstallmentsAfter
<1>5. Reads(q)
    BY <1>3, <1>4 DEF Reads
<1>6. Reads(q)'
    BY <1>1, <1>5, StillReads
<1> QED
    BY <1>2, <1>6

LEMMA MoveInit == LoanInit => MoveInv
<1>1. LoanInit => MoneyInv
    BY MoneyInit
<1>2. LoanInit => FreshInv
    BY IdleFollows DEF LoanInit, FreshInv, Reads
<1>3. LoanInit => LiveInv
    BY DEF LoanInit, LiveInv
<1> QED
    BY <1>1, <1>2, <1>3 DEF MoveInv

LEMMA MoveStep ==
    ASSUME MoveInv, [LoansNext]_<<ledger, loans>>
    PROVE  MoveInv'
<1>0. /\ LedgerTypeOK /\ LoansMade /\ Shape /\ \A r \in Requests : Carries(pending[r])
      /\ FreshInv /\ LiveInv /\ MoneyInv
    BY DEF MoveInv, MoneyInv
<1>1. MoneyInv'
    BY <1>0, MoneyStep
<1>2. UNCHANGED <<transfers, ledger>> => LiveInv'
    BY <1>0 DEF LiveInv, Exists, ledger
<1>3. CASE LedgerStep
  <2>1. Cascade
      BY <1>3 DEF LedgerStep
  <2>2. Quiet /\ Unread
      BY <1>0, <2>1, CascadeIsUnread
  <2>3. LiveInv'
      BY <1>0, <1>3, LiveCascade
  <2> QED
      BY <1>0, <1>1, <2>2, <2>3, FreshFollows DEF MoveInv
<1>4. CASE LinkNext
  <2>1. Quiet /\ UNCHANGED <<transfers, ledger>> /\ (Unread \/ Still)
      BY <1>0, <1>4, LinkSteps
  <2> QED
      BY <1>0, <1>1, <1>2, <2>1, FreshFollows DEF MoveInv
<1>5. CASE TermsNext
  <2>1. Quiet /\ Unread /\ UNCHANGED <<transfers, ledger>>
      BY <1>0, <1>5, TermsSteps, TermsMake
  <2> QED
      BY <1>0, <1>1, <1>2, <2>1, FreshFollows DEF MoveInv
<1>6. ASSUME NEW a \in Accounts, DeleteLoanTransfer(a)
      PROVE  MoveInv'
  <2>1. Quiet /\ Unread /\ UNCHANGED accounts
      BY <1>0, <1>6, TermsSteps DEF ledger
  <2>2. \A b \in Accounts : transfers'[b] \in {transfers[b], NoTransfer}
      BY <1>0, <1>6 DEF DeleteLoanTransfer, LoansMade
  <2>3. LiveInv'
      BY <1>0, <2>1, <2>2, LiveKept
  <2> QED
      BY <1>0, <1>1, <2>1, <2>3, FreshFollows DEF MoveInv
<1>7. ASSUME NEW r \in Requests, CommitTransfer(r)
      PROVE  MoveInv'
  <2>1. /\ Quiet /\ pending[r].op = "transfer" /\ UNCHANGED ledger
        /\ (Lands(pending[r]) /\ Unread) \/ Still
      BY <1>0, <1>7, CommitTransferSteps
  <2>2. LiveInv'
    <3>1. UNCHANGED accounts
        BY <2>1 DEF ledger
    <3> QED
        BY <1>0, <1>2, <2>1, <3>1, LiveLanding DEF Still
  <2> QED
      BY <1>0, <1>1, <2>1, <2>2, FreshFollows DEF MoveInv
<1>8. ASSUME NEW r \in Requests, NEW a \in Accounts, NEW b \in Accounts,
             NEW d \in TransferDates, NEW mode \in Modes, NEW o \in Openings,
             CheckTransfer(r, a, b, d, mode, o)
      PROVE  MoveInv'
  <2>1. Still /\ \A p \in Requests : p # r => pending'[p] = pending[p]
      BY <1>0, <1>8, CheckTransferSteps
  <2>2. LiveInv'
      BY <1>2, <2>1 DEF Still
  <2>3. Reads(pending[r])'
      BY <1>0, <1>8, CheckedReads
  <2>4. ASSUME NEW p \in Requests
        PROVE  Reads(pending[p])'
    <3>1. PICK q : q = pending'[p]
        OBVIOUS
    <3>2. CASE p = r
        BY <2>3, <3>2
    <3>3. CASE p # r
      <4>1. Reads(q)
          BY <1>0, <2>1, <3>1, <3>3 DEF FreshInv
      <4>2. Reads(q)'
          BY <2>1, <4>1, StillReads
      <4> QED
          BY <3>1, <4>2
    <3> QED
        BY <3>2, <3>3
  <2> QED
      BY <1>1, <2>2, <2>4 DEF MoveInv, FreshInv
<1>9. CASE UNCHANGED <<ledger, loans>>
  <2>1. Quiet /\ Still
      BY <1>9, FollowsSame DEF loans, Quiet, Still
  <2>2. UNCHANGED <<transfers, ledger>>
      BY <1>9 DEF loans
  <2> QED
      BY <1>0, <1>1, <1>2, <2>1, <2>2, FreshFollows DEF MoveInv
<1>10. CASE TransferNext
    BY <1>6, <1>7, <1>8, <1>10 DEF TransferNext
<1> QED
    BY <1>3, <1>4, <1>5, <1>9, <1>10 DEF LoansNext

(* What is owed on loan b, over any terms t and transfers.                  *)
OwedOf(t, moved, b, p) ==
    t.principal + Amounts(moved, By(moved, b, "recast")) - PaidOf(t, moved, b, p)

LEMMA OwedFits ==
    ASSUME NEW t, Scheduled(t), NEW moved, moved \in AllTransfers, NEW b, NEW p \in 0..t.tenure
    PROVE  OwedOf(t, moved, b, p) \in Nat
<1> DEFINE all == Amounts(moved, By(moved, b, "recast"))
           paid == PaidOf(t, moved, b, p)
           pr == t.principal
<1>1. all \in Nat /\ paid \in Nat /\ paid <= pr + all
    BY PaidFits
<1>2. pr \in Nat
    BY TermsFields DEF Scheduled
<1> HIDE DEF all, paid, pr
<1>3. pr + all - paid \in Nat
    BY <1>1, <1>2
<1> QED
    BY <1>3 DEF OwedOf, all, paid, pr

LEMMA OneMoreIsOwed ==
    ASSUME NEW t, Scheduled(t), NEW was, NEW now, NEW f, NEW x, OneMore(was, now, f, x),
           x.mode = "recast", NEW p \in 0..t.tenure, \A i \in 1..p : Due(t, i) <= x.date
    PROVE  OwedOf(t, now, x.to, p) = OwedOf(t, was, x.to, p) + x.amount
<1> DEFINE b == x.to
           all == Amounts(was, By(was, b, "recast"))
           more == Amounts(now, By(now, b, "recast"))
           paid == PaidOf(t, was, b, p)
           pr == t.principal
           am == x.amount
<1>1. x.to = b /\ x.mode = "recast"
    OBVIOUS
<1> HIDE DEF b
<1>2. all \in Nat /\ more = all + (IF x.to = b /\ x.mode = "recast" THEN x.amount ELSE 0)
    BY AmountsOfOneMore
<1>3. PaidOf(t, now, b, p) = paid
    BY PaidStays
<1>4. paid \in Nat
    BY PaidFits DEF OneMore
<1>5. pr \in Nat /\ am \in Nat
    BY TermsFields, TransferFields DEF Scheduled, OneMore
<1>6. more = all + am
    BY <1>1, <1>2
<1> HIDE DEF all, more, paid, pr, am
<1>7. pr + more - paid = (pr + all - paid) + am
    BY <1>2, <1>4, <1>5, <1>6
<1> QED
    BY <1>1, <1>3, <1>7 DEF OwedOf, all, more, paid, pr, am

LEMMA OutstandingIs ==
    ASSUME NEW b
    PROVE  LET owed == OwedOf(schedules[b], transfers, b, PaidInstallments(b))
           IN  OutstandingPrincipal(b) = IF Settled(b) \/ owed < 0 THEN 0 ELSE owed
<1>1. PrincipalPaid(b) = PaidOf(schedules[b], transfers, b, PaidInstallments(b))
    BY ByIs DEF PrincipalPaid, PaidOf
<1> QED
    BY <1>1, ByIs DEF OutstandingPrincipal, OwedOf

LEMMA OutstandingBecomes ==
    ASSUME NEW b
    PROVE  /\ OutstandingPrincipal(b)' =
                IF Settled(b)' \/ OwedOf(schedules'[b], transfers', b, PaidInstallments(b)') < 0
                  THEN 0
                ELSE OwedOf(schedules'[b], transfers', b, PaidInstallments(b)')
           /\ Net(b)' = schedules'[b].principal - schedules'[b].fee
                        - Amounts(transfers', By(transfers', b, "takeover"))
           /\ Recasts(b)' = By(transfers', b, "recast")
<1>1. /\ Recasts(b)' = By(transfers', b, "recast")
      /\ TakenOver(b)' = By(transfers', b, "takeover")
    BY DEF Recasts, TakenOver, Incoming, By
<1>2. [s \in Recasts(b)' |-> transfers'[s]] = IntoOf(transfers', b)
    BY <1>1 DEF IntoOf
<1>3. Table(b)' = LoanAmortization(schedules'[b], IntoOf(transfers', b))
    BY <1>2 DEF Table
<1>4. PrincipalPaid(b)' = PaidOf(schedules'[b], transfers', b, PaidInstallments(b)')
    BY <1>3 DEF PrincipalPaid, PaidOf
<1> QED
    BY <1>1, <1>4 DEF OutstandingPrincipal, OwedOf, Net

LEMMA NetOfOneMore ==
    ASSUME NEW t, t \in Terms, NEW was, NEW now, NEW f, NEW x, OneMore(was, now, f, x),
           x.mode = "takeover"
    PROVE  /\ t.principal - t.fee - Amounts(was, By(was, x.to, "takeover")) \in Int
           /\ t.principal - t.fee - Amounts(now, By(now, x.to, "takeover"))
                = (t.principal - t.fee - Amounts(was, By(was, x.to, "takeover"))) - x.amount
<1> DEFINE b == x.to
           all == Amounts(was, By(was, b, "takeover"))
           more == Amounts(now, By(now, b, "takeover"))
           pr == t.principal
           fee == t.fee
           am == x.amount
<1>1. x.to = b
    OBVIOUS
<1> HIDE DEF b
<1>2. all \in Nat /\ more = all + (IF x.to = b /\ x.mode = "takeover" THEN x.amount ELSE 0)
    BY AmountsOfOneMore
<1>3. pr \in Nat /\ fee \in Nat /\ am \in Nat
    BY TermsFields, TransferFields DEF OneMore
<1>4. more = all + am
    BY <1>1, <1>2
<1> HIDE DEF all, more, pr, fee, am
<1>5. pr - fee - all \in Int /\ pr - fee - more = (pr - fee - all) - am
    BY <1>2, <1>3, <1>4
<1> QED
    BY <1>1, <1>5 DEF all, more, pr, fee, am

(* Payments and terms stay, so the same installments are paid.              *)
LEMMA SamePaid ==
    ASSUME NEW b, UNCHANGED <<attached, ledger>>, schedules'[b] = schedules[b]
    PROVE  PaidInstallments(b)' = PaidInstallments(b)
<1>1. txns' = txns /\ attached' = attached
    BY DEF ledger
<1>2. Debits(b)' = Debits(b)
    BY <1>1 DEF Debits
<1> QED
    BY <1>2 DEF PaidInstallments

(* What a transfer that lands on what it has read does.                     *)
DebtMoved(from, x) ==
    /\ x.amount = Payoff(from, x.date)
    /\ Owed'[from] = 0
    /\ x.mode = "takeover" => /\ Nets'[x.to] = Nets[x.to] - x.amount
                              /\ Nets'[x.to] >= 0
    /\ x.mode = "recast" =>
         (PaidBy(x.to, x.date) => Owed'[x.to] = Owed[x.to] + x.amount)
    /\ (x.mode = "opens" /\ ~Settled(x.to) /\ Debits(x.to) = {}) =>
         Owed'[x.to] = x.amount + Amounts(transfers, Recasts(x.to))

LEMMA LandingMoves ==
    ASSUME LedgerTypeOK, LoansMade, LoansMade', NEW CONSTANT q, q.op = "transfer", q.fresh,
           Carries(q), Reads(q), Lands(q), UNCHANGED <<attached, ledger>>
    PROVE  DebtMoved(q.from, q.made)
<1> DEFINE a == q.from
           x == q.made
           b == x.to
<1>0. /\ a \in Accounts /\ x \in Transfer /\ b \in Accounts /\ x.amount \in Nat \ {0}
      /\ x.date \in Int /\ (x.mode = "opens" => q.opening \in Openings)
    BY TransferFields DEF Carries
<1>1. /\ a # b /\ schedules[a] # NoTerms /\ ~Settled(a) /\ LoanAccount(b)
      /\ x.mode = "opens" <=> schedules[b] = NoTerms
      /\ x.mode = "recast" => ~Settled(b)
      /\ x.mode = "takeover" => Net(b) >= x.amount
      /\ x.amount = Payoff(a, x.date)
    BY DEF Reads
<1>2. /\ transfers' = [transfers EXCEPT ![a] = x]
      /\ schedules' = IF x.mode = "opens" THEN [schedules EXCEPT ![b] = OpenedTerms(q.opening, x.amount)]
                      ELSE schedules
    BY <1>1 DEF Lands
<1> HIDE DEF a, x, b
<1>3. b = x.to
    BY DEF b
<1>4. OneMore(transfers, transfers', a, x)
    BY <1>0, <1>1, <1>2 DEF OneMore, LoansMade, AllTransfers, Settled
<1>5. /\ \A c \in Accounts : c # b => schedules'[c] = schedules[c]
      /\ x.mode # "opens" => schedules'[b] = schedules[b] /\ schedules'[b] # NoTerms
      /\ x.mode = "opens" => schedules'[b] = OpenedTerms(q.opening, x.amount)
      /\ schedules'[a] # NoTerms
    BY <1>0, <1>1, <1>2 DEF LoansMade
<1>6. /\ Settled(a)' /\ (Settled(b)' <=> Settled(b))
    BY <1>0, <1>1, <1>2, TransferFields DEF Settled, LoansMade
<1>7. transfers \in AllTransfers /\ transfers' \in AllTransfers
    BY DEF LoansMade, AllTransfers
<1>8. Owed'[a] = 0
  <2>1. OutstandingPrincipal(a)' = 0
      BY <1>6, OutstandingBecomes
  <2>2. a \in HasTerms'
      BY <1>0, <1>5 DEF HasTerms
  <2>3. Owed' = [c \in HasTerms' |-> OutstandingPrincipal(c)']
      BY DEF Owed
  <2> QED
      BY <2>1, <2>2, <2>3
<1>9. ASSUME x.mode = "takeover"
      PROVE  Nets'[b] = Nets[b] - x.amount /\ Nets'[b] >= 0
  <2>1. schedules'[b] = schedules[b] /\ schedules[b] # NoTerms /\ b \in HasTerms /\ b \in HasTerms'
      BY <1>0, <1>5, <1>9 DEF HasTerms
  <2>2. schedules[b] \in Terms
      BY <1>0, <2>1 DEF LoansMade
  <2>3. Nets[b] = Net(b)
      BY <2>1 DEF Nets
  <2>4. Nets'[b] = Net(b)'
    <3>1. Nets' = [c \in HasTerms' |-> Net(c)']
        BY DEF Nets
    <3> QED
        BY <2>1, <3>1
  <2>5. Net(b) = schedules[b].principal - schedules[b].fee
                  - Amounts(transfers, By(transfers, b, "takeover"))
      BY ByIs DEF Net
  <2>6. Net(b)' = schedules[b].principal - schedules[b].fee
                   - Amounts(transfers', By(transfers', b, "takeover"))
      BY <2>1, OutstandingBecomes
  <2>7. Net(b) \in Int /\ Net(b)' = Net(b) - x.amount
      BY <1>3, <1>4, <1>9, <2>2, <2>5, <2>6, NetOfOneMore
  <2> QED
      BY <1>0, <1>1, <1>9, <2>3, <2>4, <2>7
<1>10. ASSUME x.mode = "recast", PaidBy(b, x.date)
       PROVE  Owed'[b] = Owed[b] + x.amount
  <2> DEFINE t == schedules[b]
             p == PaidInstallments(b)
  <2>1. schedules'[b] = t /\ t # NoTerms /\ b \in HasTerms /\ b \in HasTerms'
      BY <1>0, <1>5, <1>10 DEF HasTerms
  <2>2. Scheduled(t)
      BY <1>0, <2>1 DEF LoansMade, Scheduled
  <2>3. p \in 0..t.tenure
      BY <2>2, DebitsFacts DEF Scheduled
  <2>4. PaidInstallments(b)' = p
      BY <2>1, SamePaid
  <2>5. \A i \in 1..p : Due(t, i) <= x.date
      BY <1>10 DEF PaidBy
  <2>6. Owed[b] = OutstandingPrincipal(b)
      BY <2>1 DEF Owed
  <2>7. Owed'[b] = OutstandingPrincipal(b)'
    <3>1. Owed' = [c \in HasTerms' |-> OutstandingPrincipal(c)']
        BY DEF Owed
    <3> QED
        BY <2>1, <3>1
  <2> DEFINE old == OwedOf(t, transfers, b, p)
             new == OwedOf(t, transfers', b, p)
  <2>8. OutstandingPrincipal(b) = IF Settled(b) \/ old < 0 THEN 0 ELSE old
      BY OutstandingIs
  <2>9. OutstandingPrincipal(b)' = IF Settled(b)' \/ new < 0 THEN 0 ELSE new
      BY <2>1, <2>4, OutstandingBecomes
  <2> HIDE DEF t, p
  <2>10. old \in Nat /\ new \in Nat
      BY <1>7, <2>2, <2>3, OwedFits
  <2>11. new = old + x.amount
      BY <1>3, <1>4, <1>10, <2>2, <2>3, <2>5, OneMoreIsOwed
  <2> HIDE DEF old, new
  <2> QED
      BY <1>1, <1>6, <1>10, <2>6, <2>7, <2>8, <2>9, <2>10, <2>11
<1>11. ASSUME x.mode = "opens", ~Settled(b), Debits(b) = {}
       PROVE  Owed'[b] = x.amount + Amounts(transfers, Recasts(b))
  <2> DEFINE t == OpenedTerms(q.opening, x.amount)
             all == Amounts(transfers, By(transfers, b, "recast"))
  <2>1. t \in Terms /\ t.principal = x.amount /\ schedules'[b] = t
      BY <1>0, <1>5, <1>11, OpenedIsScheduled DEF OpenedTerms
  <2>2. b \in HasTerms'
      BY <1>0, <2>1, NoTermsIsFresh DEF HasTerms
  <2>3. PaidInstallments(b)' = 0
    <3>1. Debits(b)' = {}
        BY <1>11 DEF Debits, ledger
    <3>2. Cardinality(Debits(b)') = 0
        BY <3>1, FS_EmptySet
    <3>3. t.tenure \in Nat \ {0}
        BY <2>1, TermsFields
    <3> QED
        BY <2>1, <3>2, <3>3 DEF PaidInstallments
  <2>4. all \in Nat /\ Amounts(transfers', By(transfers', b, "recast")) = all
    <3>1. /\ all \in Nat
          /\ Amounts(transfers', By(transfers', b, "recast"))
               = all + (IF x.to = b /\ x.mode = "recast" THEN x.amount ELSE 0)
        BY <1>4, AmountsOfOneMore
    <3> QED
        BY <1>11, <3>1
  <2>5. PaidOf(t, transfers', b, 0) = 0
    <3> DEFINE f == [i \in 1..0 |-> LoanAmortization(t, IntoOf(transfers', b))[i].principal]
    <3>1. PaidOf(t, transfers', b, 0) = SumFunctionOnSet(f, 1..0)
        BY DEF PaidOf, PrincipalIn
    <3> HIDE DEF f
    <3>2. 1..0 = {}
        OBVIOUS
    <3> QED
        BY <3>1, <3>2, SumEmpty
  <2>6. Owed'[b] = OutstandingPrincipal(b)'
    <3>1. Owed' = [c \in HasTerms' |-> OutstandingPrincipal(c)']
        BY DEF Owed
    <3> QED
        BY <2>2, <3>1
  <2>7. OwedOf(t, transfers', b, 0) = x.amount + all
      BY <1>0, <2>1, <2>4, <2>5 DEF OwedOf
  <2>8. OutstandingPrincipal(b)' = IF Settled(b)' \/ x.amount + all < 0 THEN 0 ELSE x.amount + all
      BY <2>1, <2>3, <2>7, OutstandingBecomes
  <2>9. Recasts(b) = By(transfers, b, "recast")
      BY ByIs
  <2> HIDE DEF t, all
  <2> QED
      BY <1>0, <1>6, <1>11, <2>4, <2>6, <2>8, <2>9 DEF all
<1> QED
    BY <1>1, <1>3, <1>8, <1>9, <1>10, <1>11 DEF DebtMoved, a, x

(* Only the commit of a request ends it by moving debt.                     *)
LEMMA OnlyCommitMoves ==
    ASSUME MoneyInv, [LoansNext]_<<ledger, loans>>, NEW r \in Requests,
           pending[r].op = "transfer", pending'[r] = Idle, transfers' # transfers
    PROVE  CommitTransfer(r)
<1>0. /\ LedgerTypeOK /\ LoansMade /\ Shape
    BY DEF MoneyInv
<1>1. Stale[r] # Idle
    BY <1>0, StaleFollows, IdleFollows
<1>2. CASE LedgerStep
  <2>1. pending'[r] = Stale[r]
      BY <1>2 DEF LedgerStep, Cascade
  <2> QED
      BY <1>1, <2>1
<1>3. CASE LinkNext
    BY <1>0, <1>3, LinkSteps
<1>4. CASE TermsNext
    BY <1>0, <1>4, TermsMake
<1>5. CASE \E a \in Accounts : DeleteLoanTransfer(a)
    BY <1>1, <1>5 DEF DeleteLoanTransfer
<1>6. ASSUME NEW p \in Requests, CommitTransfer(p)
      PROVE  CommitTransfer(r)
  <2>1. p # r => pending'[r].op = pending[r].op
      BY <1>0, <1>6, CommitTransferSteps
  <2> QED
      BY <1>6, <2>1, IdleFollows
<1>7. ASSUME NEW p \in Requests, NEW a \in Accounts, NEW b \in Accounts,
             NEW d \in TransferDates, NEW mode \in Modes, NEW o \in Openings,
             CheckTransfer(p, a, b, d, mode, o)
      PROVE  FALSE
    BY <1>7 DEF CheckTransfer
<1>8. CASE UNCHANGED <<ledger, loans>>
    BY <1>8 DEF loans
<1>9. CASE TransferNext
    BY <1>5, <1>6, <1>7, <1>9 DEF TransferNext
<1> QED
    BY <1>2, <1>3, <1>4, <1>8, <1>9 DEF LoansNext

(* A transfer that lands on what it has read moves the debt, no more and no *)
(* less, whatever the loans, the terms, the payments and the other requests *)
(* are (CreateLoanTransfer): the quote is still the payoff when it lands,   *)
(* the source owes nothing, and the target owes the payoff once, over what  *)
(* it owed, or gives it up of its disbursement and has that much left.      *)
THEOREM TransfersMoveDebt == LoansSpec => TransferConserves
<1> DEFINE Kept == \A r \in Requests :
         (pending[r].op = "transfer" /\ pending'[r] = Idle /\ transfers' # transfers) =>
         (pending[r].fresh =>
            LET from == pending[r].from
                x == pending[r].made
            IN  /\ x.amount = Payoff(from, x.date)
                /\ Owed'[from] = 0
                /\ x.mode = "takeover" => /\ Nets'[x.to] = Nets[x.to] - x.amount
                                          /\ Nets'[x.to] >= 0
                /\ x.mode = "recast" =>
                     (PaidBy(x.to, x.date) => Owed'[x.to] = Owed[x.to] + x.amount)
                /\ (x.mode = "opens" /\ ~Settled(x.to) /\ Debits(x.to) = {}) =>
                     Owed'[x.to] = x.amount + Amounts(transfers, Recasts(x.to)))
<1>1. MoveInv /\ [LoansNext]_<<ledger, loans>> => MoveInv'
    BY MoveStep
<1>2. MoveInv /\ [LoansNext]_<<ledger, loans>> => [Kept]_<<ledger, loans>>
  <2>1. SUFFICES ASSUME MoveInv, [LoansNext]_<<ledger, loans>>, NEW r \in Requests,
                        pending[r].op = "transfer", pending'[r] = Idle, transfers' # transfers,
                        pending[r].fresh
                 PROVE  DebtMoved(pending[r].from, pending[r].made)
      BY DEF DebtMoved
  <2>2. /\ LedgerTypeOK /\ LoansMade /\ Shape /\ Carries(pending[r]) /\ Reads(pending[r])
        /\ MoneyInv
      BY <2>1 DEF MoveInv, MoneyInv, FreshInv
  <2>3. LoansMade'
      BY <2>1, <2>2, MoneyStep DEF MoneyInv
  <2>4. CommitTransfer(r)
      BY <2>1, <2>2, OnlyCommitMoves
  <2>5. Lands(pending[r]) /\ UNCHANGED <<attached, ledger>>
      BY <2>1, <2>2, <2>4, CommitTransferSteps DEF Still
  <2>6. PICK q : q = pending[r]
      OBVIOUS
  <2>7. DebtMoved(q.from, q.made)
      BY <2>1, <2>2, <2>3, <2>5, <2>6, LandingMoves
  <2> QED
      BY <2>6, <2>7
<1>3. LoansSpec => [][Kept]_<<ledger, loans>>
    BY <1>1, <1>2, MoveInit, PTL DEF LoansSpec
<1> QED
    BY <1>3 DEF TransferConserves

(* What deleting the transfer x of a loan gives back.                       *)
DebtReturned(x) ==
    /\ x.mode = "opens" => schedules'[x.to] = NoTerms
    /\ (x.mode = "recast" /\ x.to \in HasTerms /\ ~Settled(x.to)) =>
         (PaidBy(x.to, x.date) => Owed'[x.to] = Owed[x.to] - x.amount)
    /\ (x.mode = "takeover" /\ x.to \in HasTerms) =>
         Nets'[x.to] = Nets[x.to] + x.amount

LEMMA UndoReturns ==
    ASSUME LedgerTypeOK, LoansMade, LoansMade', NEW a \in Accounts, DeleteLoanTransfer(a),
           NEW CONSTANT x, x = transfers[a]
    PROVE  DebtReturned(x)
<1> DEFINE b == x.to
<1>0. x # NoTransfer /\ x \in Transfer
    BY DEF DeleteLoanTransfer, Settled, LoansMade
<1>1. b \in Accounts /\ x.amount \in Nat \ {0} /\ x.date \in Int
    BY <1>0, TransferFields
<1>2. /\ transfers' = [transfers EXCEPT ![a] = NoTransfer]
      /\ schedules' = Undone(a, x)
      /\ (x.mode = "opens" /\ schedules[b] # NoTerms) => MayUndo(a, x)
      /\ UNCHANGED <<attached, ledger>>
    BY DEF DeleteLoanTransfer
<1>3. OneMore(transfers', transfers, a, x)
  <2>1. transfers = [transfers' EXCEPT ![a] = x]
      BY <1>2 DEF LoansMade
  <2> QED
      BY <1>0, <1>2, <2>1 DEF OneMore, LoansMade, AllTransfers
<1>4. transfers \in AllTransfers /\ transfers' \in AllTransfers
    BY DEF LoansMade, AllTransfers
<1>5. x.mode # "opens" => schedules' = schedules
    BY <1>2 DEF Undone, MayUndo
<1>6. x.mode = "opens" => schedules'[b] = NoTerms
    BY <1>1, <1>2 DEF Undone, LoansMade
<1>7. b # a => (Settled(b)' <=> Settled(b))
    BY <1>1, <1>2 DEF Settled, LoansMade
<1>8. Settled(a)
    BY <1>0 DEF Settled
<1> HIDE DEF b
<1>9. b = x.to
    BY DEF b
<1>10. ASSUME x.mode = "recast", b \in HasTerms, ~Settled(b), PaidBy(b, x.date)
       PROVE  Owed'[b] = Owed[b] - x.amount
  <2> DEFINE t == schedules[b]
             p == PaidInstallments(b)
  <2>0. b # a /\ ~Settled(b)'
      BY <1>7, <1>8, <1>10
  <2>1. schedules'[b] = t /\ t # NoTerms /\ b \in HasTerms'
      BY <1>5, <1>10 DEF HasTerms
  <2>2. Scheduled(t)
      BY <1>1, <2>1 DEF LoansMade, Scheduled
  <2>3. p \in 0..t.tenure
      BY <2>2, DebitsFacts DEF Scheduled
  <2>4. PaidInstallments(b)' = p
      BY <1>2, <2>1, SamePaid
  <2>5. \A i \in 1..p : Due(t, i) <= x.date
      BY <1>10 DEF PaidBy
  <2>6. Owed[b] = OutstandingPrincipal(b)
      BY <1>10 DEF Owed
  <2>7. Owed'[b] = OutstandingPrincipal(b)'
    <3>1. Owed' = [c \in HasTerms' |-> OutstandingPrincipal(c)']
        BY DEF Owed
    <3> QED
        BY <2>1, <3>1
  <2> DEFINE old == OwedOf(t, transfers, b, p)
             new == OwedOf(t, transfers', b, p)
  <2>8. OutstandingPrincipal(b) = IF Settled(b) \/ old < 0 THEN 0 ELSE old
      BY OutstandingIs
  <2>9. OutstandingPrincipal(b)' = IF Settled(b)' \/ new < 0 THEN 0 ELSE new
      BY <2>1, <2>4, OutstandingBecomes
  <2> HIDE DEF t, p
  <2>10. old \in Nat /\ new \in Nat
      BY <1>4, <2>2, <2>3, OwedFits
  <2>11. old = new + x.amount
      BY <1>3, <1>9, <1>10, <2>2, <2>3, <2>5, OneMoreIsOwed
  <2> HIDE DEF old, new
  <2> QED
      BY <1>1, <1>10, <2>0, <2>6, <2>7, <2>8, <2>9, <2>10, <2>11
<1>11. ASSUME x.mode = "takeover", b \in HasTerms
       PROVE  Nets'[b] = Nets[b] + x.amount
  <2>1. schedules'[b] = schedules[b] /\ schedules[b] # NoTerms /\ b \in HasTerms'
      BY <1>5, <1>11 DEF HasTerms
  <2>2. schedules[b] \in Terms
      BY <1>1, <2>1 DEF LoansMade
  <2>3. Nets[b] = Net(b)
      BY <1>11 DEF Nets
  <2>4. Nets'[b] = Net(b)'
    <3>1. Nets' = [c \in HasTerms' |-> Net(c)']
        BY DEF Nets
    <3> QED
        BY <2>1, <3>1
  <2>5. Net(b) = schedules[b].principal - schedules[b].fee
                  - Amounts(transfers, By(transfers, b, "takeover"))
      BY ByIs DEF Net
  <2>6. Net(b)' = schedules[b].principal - schedules[b].fee
                   - Amounts(transfers', By(transfers', b, "takeover"))
      BY <2>1, OutstandingBecomes
  <2>7. Net(b)' \in Int /\ Net(b) = Net(b)' - x.amount
      BY <1>3, <1>9, <1>11, <2>2, <2>5, <2>6, NetOfOneMore
  <2> QED
      BY <1>1, <2>3, <2>4, <2>7
<1> QED
    BY <1>6, <1>9, <1>10, <1>11 DEF DebtReturned

(* Only its deletion removes a transfer while the accounts stay.            *)
LEMMA OnlyUndoRemoves ==
    ASSUME MoveInv, [LoansNext]_<<ledger, loans>>, NEW a \in Accounts,
           transfers[a] # NoTransfer, transfers'[a] = NoTransfer, accounts' = accounts
    PROVE  DeleteLoanTransfer(a)
<1>0. /\ LedgerTypeOK /\ LoansMade /\ Shape /\ LiveInv
      /\ \A r \in Requests : Carries(pending[r])
    BY DEF MoveInv, MoneyInv
<1>1. transfers' # transfers
    OBVIOUS
<1>2. CASE LedgerStep
  <2>1. transfers'[a] = transfers[a]
      BY <1>0, <1>2, LiveCascade
  <2> QED
      BY <2>1
<1>3. CASE LinkNext
    BY <1>0, <1>3, LinkSteps
<1>4. CASE TermsNext
    BY <1>0, <1>4, TermsMake
<1>5. ASSUME NEW c \in Accounts, DeleteLoanTransfer(c)
      PROVE  DeleteLoanTransfer(a)
  <2>1. c # a => transfers'[a] = transfers[a]
      BY <1>0, <1>5 DEF DeleteLoanTransfer, LoansMade
  <2> QED
      BY <1>5, <2>1
<1>6. ASSUME NEW p \in Requests, CommitTransfer(p)
      PROVE  FALSE
  <2>1. Lands(pending[p]) /\ Carries(pending[p]) /\ pending[p].op = "transfer"
      BY <1>0, <1>1, <1>6, CommitTransferSteps DEF Still
  <2>2. pending[p].made # NoTransfer
      BY <2>1, TransferFields DEF Carries
  <2>3. transfers'[a] \in {transfers[a], pending[p].made}
      BY <1>0, <2>1 DEF Lands, LoansMade
  <2> QED
      BY <2>2, <2>3
<1>7. ASSUME NEW p \in Requests, NEW c \in Accounts, NEW b \in Accounts,
             NEW d \in TransferDates, NEW mode \in Modes, NEW o \in Openings,
             CheckTransfer(p, c, b, d, mode, o)
      PROVE  FALSE
    BY <1>1, <1>7 DEF CheckTransfer
<1>8. CASE UNCHANGED <<ledger, loans>>
    BY <1>1, <1>8 DEF loans
<1>9. CASE TransferNext
    BY <1>5, <1>6, <1>7, <1>9 DEF TransferNext
<1> QED
    BY <1>2, <1>3, <1>4, <1>8, <1>9 DEF LoansNext

(* Deleting a transfer takes what it moved off the target again, with the   *)
(* schedule it opened, and nothing else removes one from accounts that stay *)
(* (DeleteLoanTransfer, the foreign keys).                                  *)
THEOREM TransfersAreGivenBack == LoansSpec => TransferReverts
<1> DEFINE Kept == \A a \in Accounts :
         (transfers[a] # NoTransfer /\ transfers'[a] = NoTransfer /\ accounts' = accounts) =>
         LET x == transfers[a]
         IN  /\ x.mode = "opens" => schedules'[x.to] = NoTerms
             /\ (x.mode = "recast" /\ x.to \in HasTerms /\ ~Settled(x.to)) =>
                  (PaidBy(x.to, x.date) => Owed'[x.to] = Owed[x.to] - x.amount)
             /\ (x.mode = "takeover" /\ x.to \in HasTerms) =>
                  Nets'[x.to] = Nets[x.to] + x.amount
<1>1. MoveInv /\ [LoansNext]_<<ledger, loans>> => MoveInv'
    BY MoveStep
<1>2. MoveInv /\ [LoansNext]_<<ledger, loans>> => [Kept]_<<ledger, loans>>
  <2>1. SUFFICES ASSUME MoveInv, [LoansNext]_<<ledger, loans>>, NEW a \in Accounts,
                        transfers[a] # NoTransfer, transfers'[a] = NoTransfer,
                        accounts' = accounts
                 PROVE  DebtReturned(transfers[a])
      BY DEF DebtReturned
  <2>2. LedgerTypeOK /\ LoansMade /\ LoansMade'
      BY <2>1, <1>1 DEF MoveInv, MoneyInv
  <2>3. DeleteLoanTransfer(a)
      BY <2>1, OnlyUndoRemoves
  <2>4. PICK x : x = transfers[a]
      OBVIOUS
  <2>5. DebtReturned(x)
      BY <2>2, <2>3, <2>4, UndoReturns
  <2> QED
      BY <2>4, <2>5
<1>3. LoansSpec => [][Kept]_<<ledger, loans>>
    BY <1>1, <1>2, MoveInit, PTL DEF LoansSpec
<1> QED
    BY <1>3 DEF TransferReverts

=============================================================================
