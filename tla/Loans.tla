-------------------------------- MODULE Loans --------------------------------
(***************************************************************************)
(* Loan accounts (backend/handlers/loan.go): the amortization schedule of  *)
(* a loan, the EMI payments attached to it, the bank credit that released  *)
(* it, and balance transfers between loans, together with the ledger whose *)
(* transactions and accounts they refer to.                                *)
(*                                                                         *)
(* Attaching payments checks first and then writes in a transaction of     *)
(* several statements, whose rows nobody else sees before it commits.      *)
(* Transferring a balance reads both loans and then writes.  Those two are *)
(* requests in progress; the other handlers are one step.                  *)
(***************************************************************************)
EXTENDS Ledger, Amortization

CONSTANTS
    TermsSent,      \* bodies of PUT /loans/:id/schedule
    Openings,       \* rate, tenure and first date sent with a transfer
    TransferDates,
    MaxMoved,       \* bound on the amount of a transfer
    NoLoan, NoTerms, NoTransfer, NoTxn

Modes == {"recast", "opens", "takeover"}

ASSUME LoansAssumption ==
    /\ IsFiniteSet(Accounts)
    /\ MaxMoved \in Nat
    /\ TermsSent \subseteq Terms
    /\ Openings \subseteq [rate : Nat, tenure : Nat \ {0}, first : Dates]
    /\ TransferDates \subseteq Dates
    /\ \A t \in TermsSent \cup Openings :
          MonthOf(t.first) >= 1 /\ MonthOf(t.first) + t.tenure <= LastMonth + 1

ASSUME NoTxnIsFresh == NoTxn \notin TxnIds
ASSUME NoTermsIsFresh == NoTerms \notin Terms

VARIABLES
    schedules,    \* per loan account, its terms
    transfers,    \* per source loan, the transfer that settled it
    attached,     \* per transaction, the loan it is an EMI payment of
    released,     \* per loan, the credit that released it
    pending       \* per slot, the request in progress

loans == <<schedules, transfers, attached, released, pending>>

Transfer == [to : Accounts, amount : Nat \ {0}, principal : Nat, date : TransferDates,
             mode : Modes]

ASSUME NoTransferIsFresh == NoTransfer \notin Transfer

\* fresh is history: nothing was written since the request read the loans.
LoanRequest ==
    {Idle}
    \cup [op : {"attach"}, inserted : BOOLEAN, ids : SUBSET TxnIds, loan : Accounts]
    \cup [op : {"transfer"}, from : Accounts, made : Transfer, opening : Openings \cup {NoTerms},
          fresh : BOOLEAN]

LoansTypeOK ==
    /\ LedgerTypeOK
    /\ schedules \in [Accounts -> Terms \cup {NoTerms}]
    /\ transfers \in [Accounts -> Transfer \cup {NoTransfer}]
    /\ attached \in [TxnIds -> Accounts \cup {NoLoan}]
    /\ released \in [Accounts -> TxnIds \cup {NoTxn}]
    /\ pending \in [Requests -> LoanRequest]
    /\ \A t \in TxnIds \ DOMAIN txns :
          attached[t] = NoLoan /\ \A a \in Accounts : released[a] # t

-----------------------------------------------------------------------------
(* loadLoanScheduleDetail: what a loan's terms, transfers and payments      *)
(* amount to.                                                               *)

Incoming(a) == {s \in Accounts : transfers[s] # NoTransfer /\ transfers[s].to = a}

Settled(a) == transfers[a] # NoTransfer

\* Mutant of Recasts: the amount a transfer opened the loan with counts too.
RecastsOrOpens(a) == {s \in Incoming(a) : transfers[s].mode # "takeover"}

Recasts(a) == {s \in Incoming(a) : transfers[s].mode = "recast"}

TakenOver(a) == {s \in Incoming(a) : transfers[s].mode = "takeover"}

Net(a) == schedules[a].principal - schedules[a].fee
          - Amounts(transfers, TakenOver(a))

Table(a) == LoanAmortization(schedules[a], [s \in Recasts(a) |-> transfers[s]])

\* Every debit attached to the loan pays the next installment.
Debits(a) == {t \in DOMAIN txns : attached[t] = a /\ txns[t].row.type = "debit"}

PaidInstallments(a) ==
    IF Cardinality(Debits(a)) < schedules[a].tenure THEN Cardinality(Debits(a))
    ELSE schedules[a].tenure

PrincipalIn(f, S) == SumFunctionOnSet([i \in S |-> f[i].principal], S)

PrincipalPaid(a) == PrincipalIn(Table(a), 1 .. PaidInstallments(a))

OutstandingPrincipal(a) ==
    LET owed == schedules[a].principal + Amounts(transfers, Recasts(a)) - PrincipalPaid(a)
    IN  IF Settled(a) \/ owed < 0 THEN 0 ELSE owed

Unpaid(a) == (PaidInstallments(a) + 1) .. schedules[a].tenure

HasInstallmentsAfter(a, date) ==
    ~Settled(a) /\ \E i \in Unpaid(a) : Table(a)[i].due > date

\* The date of the payment that covered the last paid installment.
LastPaidDate(a) ==
    LET date(t) == txns[t].row.date
        upTo(t) == {u \in Debits(a) : date(u) <= date(t)}
        covering == {date(t) : t \in {u \in Debits(a) : Cardinality(upTo(u)) >= PaidInstallments(a)}}
    IN  CHOOSE d \in covering : \A e \in covering : d <= e

PayoffAnchor(a) ==
    LET t == schedules[a]
    IN  IF PaidInstallments(a) > 0 THEN LastPaidDate(a)
        ELSE IF t.disbursed # NoDate THEN t.disbursed
        ELSE AddMonths(t.first, -1)

AccruedInterest(a, date) ==
    IF PayoffAnchor(a) >= date THEN 0
    ELSE BrokenPeriodInterest(OutstandingPrincipal(a), schedules[a].rate, date - PayoffAnchor(a))

Payoff(a, date) == OutstandingPrincipal(a) + AccruedInterest(a, date)

-----------------------------------------------------------------------------
(* Schedules. *)

\* loanAccountGuard
LoanAccount(a) == Exists(a) /\ accounts[a].kind = "loan"

\* What requests in progress have read is out of date.
Stale == [r \in Requests |->
            IF pending[r].op = "transfer" THEN [pending[r] EXCEPT !.fresh = FALSE] ELSE pending[r]]

UpsertLoanSchedule(a, t) ==
    /\ LoanAccount(a)
    /\ t.disbursed # NoDate => t.disbursed < t.first
    /\ schedules' = [schedules EXCEPT ![a] = t]
    /\ pending' = Stale
    /\ UNCHANGED <<transfers, attached, released, ledger>>

DeleteLoanSchedule(a) ==
    /\ LoanAccount(a)
    /\ schedules' = [schedules EXCEPT ![a] = NoTerms]
    /\ pending' = Stale
    /\ UNCHANGED <<transfers, attached, released, ledger>>

-----------------------------------------------------------------------------
(* EMI payments and the disbursement credit. *)

\* Transactions that may be linked: none of a loan account.
Linkable(ids) == ids \subseteq DOMAIN txns
                 /\ \A t \in ids : accounts[txns[t].acct].kind # "loan"

Done(r) == [Stale EXCEPT ![r] = Idle]

Detach(ids) ==
    /\ ids # {} /\ Linkable(ids)
    /\ attached' = [t \in TxnIds |-> IF t \in ids THEN NoLoan ELSE attached[t]]
    /\ pending' = Stale
    /\ UNCHANGED <<schedules, transfers, released, ledger>>

CheckAttach(r, ids, a) ==
    /\ pending[r] = Idle
    /\ ids # {} /\ Linkable(ids)
    /\ LoanAccount(a)
    /\ \A t \in ids : attached[t] = NoLoan
    /\ pending' = [pending EXCEPT ![r] =
          [op |-> "attach", inserted |-> FALSE, ids |-> ids, loan |-> a]]
    /\ UNCHANGED <<schedules, transfers, attached, released, ledger>>

\* Transactions whose attachment is inserted and not yet committed.
InFlight == UNION {pending[r].ids : r \in {q \in Requests :
                pending[q].op = "attach" /\ pending[q].inserted}}

\* Mutant of MayBePayment: the INSERT does not look at the disbursements.
MayBeAny(ids) == TRUE

MayBePayment(ids) == \A t \in ids, a \in Accounts : released[a] # t

\* The INSERT waits for one of the same transaction, is refused by the unique
\* index, by a deleted row, or by a disbursement credit; its rows hold off
\* the deletion of what they refer to.
InsertAttachments(r) ==
    LET q == pending[r]
    IN  /\ q.op = "attach" /\ ~q.inserted
        /\ q.ids \cap InFlight = {}
        /\ pending' =
             IF /\ q.ids # {} /\ Exists(q.loan)
                /\ \A t \in q.ids : attached[t] = NoLoan
                /\ MayBePayment(q.ids)
               THEN [pending EXCEPT ![r].inserted = TRUE]
               ELSE [pending EXCEPT ![r] = Idle]
        /\ UNCHANGED <<schedules, transfers, attached, released, ledger>>

CommitAttachments(r) ==
    LET q == pending[r]
    IN  /\ q.op = "attach" /\ q.inserted
        /\ attached' = [t \in TxnIds |-> IF t \in q.ids THEN q.loan ELSE attached[t]]
        /\ pending' = Done(r)
        /\ UNCHANGED <<schedules, transfers, released, ledger>>

\* Mutant of MayRelease: the INSERT does not look at the attachments.
MayReleaseAny(t) == TRUE

MayRelease(t) == attached[t] = NoLoan

\* The INSERT sees committed attachments only.
LinkLoanDisbursement(a, t) ==
    /\ LoanAccount(a) /\ schedules[a] # NoTerms
    /\ Linkable({t}) /\ txns[t].row.type = "credit"
    /\ \A b \in Accounts \ {a} : released[b] # t
    /\ MayRelease(t)
    /\ released' = [released EXCEPT ![a] = t]
    /\ UNCHANGED <<schedules, transfers, attached, pending, ledger>>

UnlinkLoanDisbursement(a) ==
    /\ LoanAccount(a)
    /\ released' = [released EXCEPT ![a] = NoTxn]
    /\ UNCHANGED <<schedules, transfers, attached, pending, ledger>>

-----------------------------------------------------------------------------
(* Balance transfers. *)

CheckTransfer(r, a, b, date, mode, o) ==
    /\ pending[r] = Idle
    /\ a # b
    /\ LoanAccount(a) /\ schedules[a] # NoTerms /\ ~Settled(a)
    /\ LoanAccount(b) /\ accounts[b].state = "open"
    /\ (mode = "opens") = (schedules[b] = NoTerms)
    /\ Payoff(a, date) \in 1 .. MaxMoved
    /\ mode = "recast" => HasInstallmentsAfter(b, date)
    /\ mode = "takeover" => Net(b) >= Payoff(a, date)
    /\ pending' = [pending EXCEPT ![r] =
          [op |-> "transfer", from |-> a, opening |-> IF mode = "opens" THEN o ELSE NoTerms,
           fresh |-> TRUE,
           made |-> [to |-> b, amount |-> Payoff(a, date), mode |-> mode, date |-> date,
                     principal |-> OutstandingPrincipal(a)]]]
    /\ UNCHANGED <<schedules, transfers, attached, released, ledger>>

OpenedTerms(o, amount) ==
    [principal |-> amount, fee |-> 0, rate |-> o.rate, tenure |-> o.tenure,
     first |-> o.first, disbursed |-> NoDate]

\* Refused when the source has a transfer by now, when either account is gone,
\* and when the target to open has terms by now.
CommitTransfer(r) ==
    LET q == pending[r]
        x == q.made
    IN  /\ q.op = "transfer"
        /\ IF /\ ~Settled(q.from)
              /\ Exists(q.from) /\ Exists(x.to)
              /\ (x.mode = "opens" /\ LoanAccount(x.to)) => schedules[x.to] = NoTerms
             THEN /\ transfers' = [transfers EXCEPT ![q.from] = x]
                  /\ schedules' = IF x.mode = "opens" /\ LoanAccount(x.to)
                                    THEN [schedules EXCEPT ![x.to] = OpenedTerms(q.opening, x.amount)]
                                    ELSE schedules
                  /\ pending' = Done(r)
             ELSE pending' = [pending EXCEPT ![r] = Idle] /\ UNCHANGED <<schedules, transfers>>
        /\ UNCHANGED <<attached, released, ledger>>

\* The schedule is the transfer's to remove while it still has its amount and
\* no other transfer landed on it.
MayUndo(s, x) ==
    /\ x.mode = "opens"
    /\ schedules[x.to] # NoTerms /\ schedules[x.to].principal = x.amount
    /\ Incoming(x.to) = {s}

\* Mutant of Undone: only the row goes.
KeepOpened(s, x) == schedules

Undone(s, x) == IF MayUndo(s, x) THEN [schedules EXCEPT ![x.to] = NoTerms] ELSE schedules

\* Refused when the transfer opened a schedule that is no longer its own.
DeleteLoanTransfer(a) ==
    LET x == transfers[a]
    IN  /\ Settled(a)
        /\ (x.mode = "opens" /\ schedules[x.to] # NoTerms) => MayUndo(a, x)
        /\ transfers' = [transfers EXCEPT ![a] = NoTransfer]
        /\ schedules' = Undone(a, x)
        /\ pending' = Stale
        /\ UNCHANGED <<attached, released, ledger>>

-----------------------------------------------------------------------------
(* The ledger's own requests, and what the foreign keys take along.         *)

\* Mutant of KeepsAttachment: deleting the transaction leaves the link.
OnlyLoanMatters(t, gone) == attached[t] \notin gone

KeepsAttachment(t, gone) == t \in DOMAIN txns' /\ attached[t] \notin gone

\* An id is not given twice: a request that names a deleted transaction names
\* none from then on.
Cascade ==
    LET gone == {a \in Accounts : accounts'[a].state = "deleted"}
    IN  /\ schedules' = [a \in Accounts |-> IF a \in gone THEN NoTerms ELSE schedules[a]]
        /\ transfers' = [a \in Accounts |->
              IF transfers[a] = NoTransfer \/ a \in gone THEN NoTransfer
              ELSE IF transfers[a].to \in gone THEN NoTransfer ELSE transfers[a]]
        /\ attached' = [t \in TxnIds |-> IF KeepsAttachment(t, gone) THEN attached[t] ELSE NoLoan]
        /\ released' = [a \in Accounts |->
              IF released[a] \in DOMAIN txns' /\ a \notin gone THEN released[a] ELSE NoTxn]
        /\ pending' = [r \in Requests |->
              IF pending[r].op = "attach" /\ ~(pending[r].ids \subseteq DOMAIN txns')
                THEN [pending[r] EXCEPT !.ids = {}] ELSE Stale[r]]

InUse == {pending[r].loan : r \in {q \in Requests :
             pending[q].op = "attach" /\ pending[q].inserted}}

\* Billing cycles mean nothing to a loan: none is named here.  Deleting another
\* account does to loans what deleting its transactions does.
LedgerStep ==
    /\ \/ \E a \in Accounts, r \in Rows : CreateTransaction(a, r, NoCycle)
       \/ \E t \in DOMAIN txns, a \in Accounts \cup {Keep}, r \in Rows \cup {Keep} :
             UpdateTransaction(t, a, r, Keep)
       \/ \E ids \in SUBSET DOMAIN txns : BulkDeleteTransactions(ids)
       \/ \E a \in Accounts : CreateAccount(a)
       \/ \E p \in Patches : UpdateAccount(p)
       \/ \E a \in {b \in Accounts : accounts[b].kind = "loan"} : DeleteAccount(a)
    /\ InFlight \subseteq DOMAIN txns'
    /\ \A a \in InUse : accounts'[a].state # "deleted"
    /\ Cascade

LoanInit ==
    /\ Init
    /\ schedules = [a \in Accounts |-> NoTerms]
    /\ transfers = [a \in Accounts |-> NoTransfer]
    /\ attached = [t \in TxnIds |-> NoLoan]
    /\ released = [a \in Accounts |-> NoTxn]
    /\ pending = [r \in Requests |-> Idle]

LinkNext ==
    \/ \E ids \in SUBSET DOMAIN txns : Detach(ids)
    \/ \E r \in Requests, a \in Accounts :
          \/ \E ids \in SUBSET DOMAIN txns : CheckAttach(r, ids, a)
          \/ InsertAttachments(r)
          \/ CommitAttachments(r)
    \/ \E a \in Accounts :
          \/ \E t \in DOMAIN txns : LinkLoanDisbursement(a, t)
          \/ UnlinkLoanDisbursement(a)

TermsNext ==
    \E a \in Accounts :
        \/ \E t \in TermsSent : UpsertLoanSchedule(a, t)
        \/ DeleteLoanSchedule(a)

TransferNext ==
    \/ \E r \in Requests :
          \/ \E a, b \in Accounts, d \in TransferDates, mode \in Modes, o \in Openings :
                CheckTransfer(r, a, b, d, mode, o)
          \/ CommitTransfer(r)
    \/ \E a \in Accounts : DeleteLoanTransfer(a)

LoansNext == LedgerStep \/ LinkNext \/ TermsNext \/ TransferNext

LoansSpec == LoanInit /\ [][LoansNext]_<<ledger, loans>>

-----------------------------------------------------------------------------
(* Properties. *)

Repays(t) == attached[t] # NoLoan \/ t \in InFlight
Releases(t) == \E a \in Accounts : released[a] = t

\* A transaction is an EMI payment of a loan or the credit that released one,
\* not both: money that arrived would count as repaid.  It comes to be both in
\* one way only, when the INSERT of LinkLoanDisbursement runs while the one of
\* BulkLinkLoan has not committed and is not seen: never by an attachment that
\* comes second, by one that has committed, or by what is deleted between.
OneRole ==
    [][\A t \in TxnIds :
         ~(Repays(t) /\ Releases(t)) /\ (Repays(t) /\ Releases(t))' =>
            t \in InFlight /\ ~Releases(t)]_<<ledger, loans>>

\* The table and the figures beside it agree: the table repays the loan to the
\* last unit without a negative installment, whatever was rounded, recast or
\* paid, and what its unpaid installments repay is the outstanding principal.
OwedIsOutstanding ==
    \A a \in Accounts : LoanAccount(a) /\ schedules[a] # NoTerms =>
        LET table == Table(a)
            n == schedules[a].tenure
        IN  /\ table[n].balance = 0
            /\ \A i \in 1 .. n : table[i].principal >= 0 /\ table[i].interest >= 0
            /\ (~Settled(a) /\ \A s \in Recasts(a) : transfers[s].date < Due(schedules[a], n))
                 => PrincipalIn(table, Unpaid(a)) = OutstandingPrincipal(a)

\* No installment due after the date is paid: a recast leaves what was paid.
PaidBy(a, date) ==
    \A i \in 1 .. PaidInstallments(a) : Due(schedules[a], i) <= date

HasTerms == {a \in Accounts : schedules[a] # NoTerms}
Owed == [a \in HasTerms |-> OutstandingPrincipal(a)]
Nets == [a \in HasTerms |-> Net(a)]
LoanTables == [a \in HasTerms |-> Table(a)]

\* A transfer that lands on what it has read moves the debt, no more and no
\* less: the source owes nothing, and the payoff is owed by the target or out
\* of its disbursement, counted once.  A loan that a transfer opens anew also
\* owes what was moved into it before its former schedule was deleted.
TransferConserves ==
    [][\A r \in Requests :
         (pending[r].op = "transfer" /\ pending'[r] = Idle /\ transfers' # transfers) =>
         (pending[r].fresh =>
            LET from == pending[r].from
                x == pending[r].made
            IN  /\ x.amount = Payoff(from, x.date)
                /\ Owed'[from] = 0
                /\ x.mode = "takeover" => /\ Nets'[x.to] = Nets[x.to] - x.amount
                                          /\ Nets'[x.to] >= 0
                /\ x.mode = "recast" =>
                     (PaidBy(x.to, x.date) => Owed'[x.to] = Owed[x.to] + x.amount)
                /\ (x.mode = "opens" /\ ~Settled(x.to) /\ Debits(x.to) = {}) =>
                     Owed'[x.to] = x.amount + Amounts(transfers, Recasts(x.to)))]_<<ledger, loans>>

\* Deleting a transfer takes the moved debt off the target again, and with it
\* a schedule the transfer opened.
TransferReverts ==
    [][\A a \in Accounts :
         (transfers[a] # NoTransfer /\ transfers'[a] = NoTransfer /\ accounts' = accounts) =>
         LET x == transfers[a]
         IN  /\ x.mode = "opens" => schedules'[x.to] = NoTerms
             /\ (x.mode = "recast" /\ x.to \in HasTerms /\ ~Settled(x.to)) =>
                  (PaidBy(x.to, x.date) => Owed'[x.to] = Owed[x.to] - x.amount)
             /\ (x.mode = "takeover" /\ x.to \in HasTerms) =>
                  Nets'[x.to] = Nets[x.to] + x.amount]_<<ledger, loans>>
=============================================================================
