------------------------------- MODULE Ledger -------------------------------
(***************************************************************************)
(* One user's accounts, transactions and billing cycles, as the handlers   *)
(* of transaction.go, transaction_bulk.go, transaction_import.go,          *)
(* billing_cycle.go and account.go (backend/handlers) write them.          *)
(*                                                                         *)
(* A handler whose reads and writes share one transaction, or one          *)
(* statement, is one step.  Two handlers read outside the transaction they *)
(* write in: GetBillingCycles (and buildAccountSummaryRows like it) takes  *)
(* the billing day first, and ImportTransactions checks the account first  *)
(* and then takes a lock on it.  Those are requests in progress, in slow;  *)
(* any other request may commit between their steps.                       *)
(***************************************************************************)
EXTENDS Calendar, Sequences, FiniteSets

CONSTANTS
    Accounts,     \* ids of accounts
    TxnIds,       \* ids of transactions, a set of integers
    Rows,         \* what a transaction says
    Days,         \* billing days an account may have
    MaxCycles,    \* maxBillingCycleMonths
    FirstDay, FirstKind,  \* billing day and type each account is created with
    Opened,       \* the accounts that exist at the start
    Patches,      \* bodies of PUT /accounts/:id
    Imports,      \* bodies of POST /transactions/import
    Requests,     \* slots for requests in progress
    Together,     \* <<op, account, op, account>> that may be in progress together
    FirstToday, LastToday,
    NoDay, NoCycle, Keep

Kinds == {"bank", "loan"}
Types == {"debit", "credit"}

ASSUME RowsAssumption == Rows \subseteq [date : Dates, type : Types, amount : Nat \ {0}]
ASSUME DaysAssumption == Days \subseteq Nat \ {0}
\* The calendar reaches two months back from the first date in use, and one
\* month on from today.
ASSUME TodayAssumption ==
    /\ FirstToday \in Nat /\ LastToday \in Nat /\ FirstToday <= LastToday
    /\ LastMonth >= 3 /\ Start[2] <= FirstToday /\ LastToday < Start[LastMonth]
    /\ \A r \in Rows : Start[2] <= r.date
ASSUME FirstAssumption ==
    /\ FirstDay \in [Accounts -> Days \cup {NoDay}]
    /\ FirstKind \in [Accounts -> Kinds]
    /\ Opened \subseteq Accounts
ASSUME PatchesAssumption ==
    Patches \subseteq [acct : Accounts, day : Days \cup {NoDay, Keep}, closed : BOOLEAN \cup {Keep},
                       kind : Kinds \cup {Keep}]
\* named: the body names one of the account's cycles.
ASSUME ImportsAssumption ==
    Imports \subseteq [op : {"skip", "keep"}, acct : Accounts, batch : Seq(Rows),
                      named : BOOLEAN]
ASSUME LimitAssumption ==
    MaxCycles \in Nat \ {0} /\ TxnIds \subseteq Int /\ IsFiniteSet(TxnIds)
ASSUME NoValueAssumption ==
    /\ NoDay \notin Days /\ Keep \notin Days \cup {NoDay} \cup Accounts
    /\ Keep \notin BOOLEAN /\ Keep \notin Kinds

VARIABLES
    accounts,     \* per id: state, billing day, type of account
    txns,         \* the transactions that exist, by id
    cycles,       \* rows of billing_cycles
    today,        \* the date the server reads from its clock
    slow          \* per slot, the request in progress

ledger == <<accounts, txns, cycles, today, slow>>

Cycle == [acct : Accounts, start : Dates, end : Dates]

ASSUME NoCycleAssumption == NoCycle \notin Cycle

Account == [state : {"new", "open", "closed", "deleted"},
            day : Days \cup {NoDay}, kind : Kinds]

\* chosen and imported are history: the cycle was named by the user; the row
\* is as an import that skips duplicates wrote it.
Txn == [acct : Accounts, row : Rows, cycle : Cycle \cup {NoCycle},
        detached : BOOLEAN, chosen : BOOLEAN, imported : BOOLEAN]

Idle == [op |-> "none"]

Request ==
    {Idle}
    \cup [op : {"read"}, acct : Accounts, day : Days]
    \cup [op : {"skip", "keep"}, locked : BOOLEAN,
          acct : Accounts, day : Days \cup {NoDay}, batch : {i.batch : i \in Imports},
          cycle : Cycle \cup {NoCycle}, known : SUBSET Rows]

LedgerTypeOK ==
    /\ accounts \in [Accounts -> Account]
    /\ DOMAIN txns \subseteq TxnIds
    /\ \A t \in DOMAIN txns : txns[t] \in Txn
    /\ cycles \subseteq Cycle
    /\ today \in FirstToday .. LastToday
    /\ slow \in [Requests -> Request]

-----------------------------------------------------------------------------
(* ensureBillingCycles, on the state s of the tables it writes. *)

Exists(a) == accounts[a].state \in {"open", "closed"}
CyclesOf(cs, a) == {c \in cs : c.acct = a}
TxnsOf(ts, a) == {t \in DOMAIN ts : ts[t].acct = a}
Within(d, c) == c.start <= d /\ d <= c.end

Misaligned(cs, a, b) ==
    \E c \in CyclesOf(cs, a) : c.end # BillingDate(MonthOf(c.end), b)

\* What regeneration leaves when the cycles in gone are to go.
LetGo(s, gone) ==
    [txns |-> [t \in DOMAIN s.txns |->
                 IF s.txns[t].cycle \in gone
                   THEN [s.txns[t] EXCEPT !.cycle = NoCycle, !.detached = FALSE,
                                          !.chosen = FALSE]
                   ELSE s.txns[t]],
     cycles |-> s.cycles \ gone]

\* Mutant of DropMisaligned: only the cycles that end on another day go.
DropThoseMisaligned(s, a, b) ==
    LetGo(s, {c \in CyclesOf(s.cycles, a) : c.end # BillingDate(MonthOf(c.end), b)})

\* A changed billing day drops every cycle of the account, after letting go of
\* the transactions attached to them.
DropMisaligned(s, a, b) ==
    IF Misaligned(s.cycles, a, b) THEN LetGo(s, CyclesOf(s.cycles, a)) ELSE s

\* From the month before the earliest transaction to the month whose cycle
\* contains today, and no more than MaxCycles of them, the newest.
WantedMonths(ts, a, b) ==
    LET dates == {ts[t].row.date : t \in TxnsOf(ts, a)}
        earliest == IF dates = {} THEN today
                    ELSE CHOOSE d \in dates : \A e \in dates : d <= e
        first == MonthOf(earliest) - 1
        last == IF today > BillingDate(MonthOf(today), b)
                  THEN MonthOf(today) + 1 ELSE MonthOf(today)
    IN  {m \in first .. last : m > last - MaxCycles}

Missing(s, a, b) ==
    LET mine == CyclesOf(s.cycles, a)
        covered == {MonthOf(c.end) : c \in mine}
        made == {[acct |-> a, start |-> CycleStart(m, b), end |-> CycleEnd(m, b)] :
                   m \in WantedMonths(s.txns, a, b) \ covered}
    IN  {c \in made : \A d \in mine : d.start # c.start}

\* Mutant of TakesDefault: the detach flag is not asked.
AnyWithout(x, a) == x.acct = a /\ x.cycle = NoCycle

TakesDefault(x, a) == x.acct = a /\ x.cycle = NoCycle /\ ~x.detached

\* Every transaction without a cycle gets the one its date falls in, unless
\* the user detached it.
Backfill(s, a) ==
    LET mine == CyclesOf(s.cycles, a)
        fits(x) == {c \in mine : Within(x.row.date, c)}
    IN  [s EXCEPT !.txns =
           [t \in DOMAIN s.txns |->
              LET x == s.txns[t]
              IN  IF TakesDefault(x, a) /\ fits(x) # {}
                    THEN [x EXCEPT !.cycle = CHOOSE c \in fits(x) : TRUE]
                    ELSE x]]

Ensure(s, a, b) ==
    LET kept == DropMisaligned(s, a, b)
    IN  Backfill([kept EXCEPT !.cycles = @ \cup Missing(kept, a, b)], a)

Tables == [txns |-> txns, cycles |-> cycles]
Write(s) == txns' = s.txns /\ cycles' = s.cycles
-----------------------------------------------------------------------------
(* Writing transactions. *)

Drop(ts, gone) == [t \in DOMAIN ts \ gone |-> ts[t]]

\* Transactions on a closed account do not change.
Mutable(t) == t \in DOMAIN txns /\ accounts[txns[t].acct].state # "closed"

\* A new id: the least that no row has.
NextId(ts) == CHOOSE i \in TxnIds \ DOMAIN ts : \A j \in TxnIds \ DOMAIN ts : i <= j

Insert(ts, x) == [t \in DOMAIN ts \cup {NextId(ts)} |-> IF t \in DOMAIN ts THEN ts[t] ELSE x]

NewTxn(a, r) == [acct |-> a, row |-> r, cycle |-> NoCycle, detached |-> FALSE,
                 chosen |-> FALSE, imported |-> FALSE]

Assign(x, c) == [x EXCEPT !.cycle = c, !.detached = FALSE, !.chosen = TRUE]

TakesTxns(a) == accounts[a].state = "open" /\ accounts[a].kind # "loan"

\* A named cycle is written after ensureBillingCycles has run: when that
\* dropped the cycle, the foreign key refuses the write and all of the
\* request is rolled back.
CreateTransaction(a, r, c) ==
    LET b == accounts[a].day
        t == NextId(txns)
        s == [Tables EXCEPT !.txns = Insert(txns, NewTxn(a, r))]
        e == Ensure(s, a, b)
    IN  /\ TakesTxns(a)
        /\ DOMAIN txns # TxnIds
        /\ c \in CyclesOf(cycles, a) \cup {NoCycle}
        /\ IF b = NoDay THEN Write(s)
           ELSE IF c = NoCycle THEN Write(e)
           ELSE /\ ~Misaligned(cycles, a, b)
                /\ Write([e EXCEPT !.txns[t] = Assign(@, c)])
        /\ UNCHANGED <<accounts, today, slow>>

\* Mutant of Moves: another date keeps the cycle.
MovesAccount(x, a, r) == a # Keep

\* The body carries an account or a date, both in the case of the stored row
\* sent again.
Moves(x, a, r) == a # Keep \/ (r # Keep /\ (r.date # x.row.date \/ r = x.row))

\* A patch names an account, a row and a cycle, or keeps them.
UpdateTransaction(t, a, r, c) ==
    LET x == txns[t]
        acct == IF a = Keep THEN x.acct ELSE a
        moved == [x EXCEPT !.acct = acct, !.row = IF r = Keep THEN @ ELSE r,
                           !.imported = FALSE]
        y == IF c = NoCycle
               THEN [moved EXCEPT !.cycle = NoCycle, !.detached = TRUE, !.chosen = FALSE]
             ELSE IF c # Keep THEN Assign(moved, c)
             ELSE IF Moves(x, a, r)
               THEN [moved EXCEPT !.cycle = NoCycle, !.detached = FALSE, !.chosen = FALSE]
             ELSE moved
    IN  /\ Mutable(t)
        /\ a # Keep => TakesTxns(a)
        /\ c \in CyclesOf(cycles, acct) \cup {Keep, NoCycle}
        /\ txns' = [txns EXCEPT ![t] = y]
        /\ UNCHANGED <<accounts, cycles, today, slow>>

\* Rows of another account, or of a closed one, are skipped.
BulkUpdateBillingCycle(ids, c) ==
    /\ c \in cycles
    /\ txns' = [t \in DOMAIN txns |->
                  IF t \in ids /\ Mutable(t) /\ txns[t].acct = c.acct
                    THEN Assign(txns[t], c) ELSE txns[t]]
    /\ UNCHANGED <<accounts, cycles, today, slow>>

\* DeleteTransaction is the case of one id.
BulkDeleteTransactions(ids) ==
    /\ txns' = Drop(txns, {t \in ids : Mutable(t)})
    /\ UNCHANGED <<accounts, cycles, today, slow>>

-----------------------------------------------------------------------------
(* Accounts. *)

CreateAccount(a) ==
    /\ accounts[a].state = "new"
    /\ accounts' = [accounts EXCEPT ![a].state = "open"]
    /\ UNCHANGED <<txns, cycles, today, slow>>

\* The billing day, the closed flag and the type change when the body carries
\* them.
Patched(old, p) ==
    [state |-> CASE p.closed = Keep -> old.state
                 [] p.closed = TRUE -> "closed"
                 [] OTHER -> "open",
     day |-> IF p.day = Keep THEN old.day ELSE p.day,
     kind |-> IF p.kind = Keep THEN old.kind ELSE p.kind]

UpdateAccount(p) ==
    /\ Exists(p.acct)
    /\ accounts' = [accounts EXCEPT ![p.acct] = Patched(@, p)]
    /\ UNCHANGED <<txns, cycles, today, slow>>

DeleteAccount(a) ==
    /\ Exists(a)
    /\ accounts' = [accounts EXCEPT ![a] = [@ EXCEPT !.state = "deleted"]]
    /\ txns' = Drop(txns, TxnsOf(txns, a))
    /\ cycles' = cycles \ CyclesOf(cycles, a)
    /\ UNCHANGED <<today, slow>>
-----------------------------------------------------------------------------
(* GetBillingCycles, and the lists that show its totals. *)

Starts(r, op, a) ==
    /\ slow[r] = Idle
    /\ \A q \in Requests :
          slow[q] # Idle => <<slow[q].op, slow[q].acct, op, a>> \in Together

Finish(r) == slow' = [slow EXCEPT ![r] = Idle]

ReadBillingDay(r, a) ==
    /\ Starts(r, "read", a)
    /\ Exists(a) /\ accounts[a].day # NoDay
    /\ slow' = [slow EXCEPT ![r] = [op |-> "read", acct |-> a, day |-> accounts[a].day]]
    /\ UNCHANGED <<accounts, txns, cycles, today>>

\* The cycles of an account that is gone by now are refused by the foreign key.
EnsureCycles(r) ==
    /\ slow[r].op = "read"
    /\ IF Exists(slow[r].acct) THEN Write(Ensure(Tables, slow[r].acct, slow[r].day))
       ELSE UNCHANGED <<txns, cycles>>
    /\ Finish(r)
    /\ UNCHANGED <<accounts, today>>

-----------------------------------------------------------------------------
(* ImportTransactions. *)

CheckImport(r, i, c) ==
    LET a == i.acct
    IN  /\ Starts(r, i.op, a)
        /\ TakesTxns(a)
        /\ IF i.named THEN c \in CyclesOf(cycles, a) ELSE c = NoCycle
        /\ slow' = [slow EXCEPT ![r] =
              [op |-> i.op, locked |-> FALSE, acct |-> a, day |-> accounts[a].day,
               batch |-> i.batch, cycle |-> c, known |-> {}]]
        /\ UNCHANGED <<accounts, txns, cycles, today>>

\* Mutant of LockFree: no advisory lock.
NoLock(a) == TRUE

\* Imports that skip duplicates hold the account's advisory lock from before
\* they load its rows until they commit.
LockFree(a) ==
    \A q \in Requests :
        ~(slow[q].op = "skip" /\ slow[q].acct = a /\ slow[q].locked)

\* Only the rows of the account on a date of the batch are loaded.
Fingerprints(a, batch) ==
    {txns[t].row : t \in {u \in TxnsOf(txns, a) :
                            \E i \in DOMAIN batch : batch[i].date = txns[u].row.date}}

LockAndLoad(r) ==
    /\ slow[r].op = "skip" /\ ~slow[r].locked
    /\ LockFree(slow[r].acct)
    /\ slow' = [slow EXCEPT ![r].locked = TRUE,
                            ![r].known = Fingerprints(slow[r].acct, slow[r].batch)]
    /\ UNCHANGED <<accounts, txns, cycles, today>>

\* The first of every distinct row that is not already known.
Dedupe(batch, known) ==
    LET fresh == {i \in DOMAIN batch :
                    /\ batch[i] \notin known
                    /\ \A j \in 1 .. (i - 1) : batch[j] # batch[i]}
        kept[k \in 0 .. Len(batch)] ==
            IF k = 0 THEN << >>
            ELSE IF k \in fresh THEN Append(kept[k - 1], batch[k])
            ELSE kept[k - 1]
    IN  kept[Len(batch)]

InsertAll(ts, a, rows, skip) ==
    LET f[k \in 0 .. Len(rows)] ==
            IF k = 0 THEN ts
            ELSE Insert(f[k - 1], [NewTxn(a, rows[k]) EXCEPT !.imported = skip])
    IN  f[Len(rows)]

\* The chosen cycle is assigned first, if it still exists; rows that
\* ensureBillingCycles lets go of again get the cycle of their date.
Imported(q, rows) ==
    LET all == InsertAll(txns, q.acct, rows, q.op = "skip")
        attached == [t \in DOMAIN all |->
                       IF t \notin DOMAIN txns /\ q.cycle \in CyclesOf(cycles, q.acct)
                         THEN Assign(all[t], q.cycle) ELSE all[t]]
    IN  IF q.day = NoDay THEN [Tables EXCEPT !.txns = all]
        ELSE Ensure([Tables EXCEPT !.txns = attached], q.acct, q.day)

\* With every row skipped nothing is committed, and the answer says so.  The
\* account is not read again: it may be closed by now.  One that is gone or has
\* become a loan is refused by the foreign key and by a trigger.
CommitImport(r) ==
    LET q == slow[r]
        rows == IF q.op = "skip" THEN Dedupe(q.batch, q.known) ELSE q.batch
    IN  /\ q.op \in {"skip", "keep"}
        /\ q.op = "skip" => q.locked
        /\ Cardinality(DOMAIN txns) + Len(rows) <= Cardinality(TxnIds)
        /\ IF Exists(q.acct) /\ accounts[q.acct].kind # "loan" /\ rows # << >>
             THEN Write(Imported(q, rows))
           ELSE UNCHANGED <<txns, cycles>>
        /\ Finish(r)
        /\ UNCHANGED <<accounts, today>>

-----------------------------------------------------------------------------
Tick ==
    /\ today < LastToday
    /\ today' = today + 1
    /\ UNCHANGED <<accounts, txns, cycles, slow>>

Init ==
    /\ accounts = [a \in Accounts |->
          [state |-> IF a \in Opened THEN "open" ELSE "new",
           day |-> FirstDay[a], kind |-> FirstKind[a]]]
    /\ txns = << >>
    /\ cycles = {}
    /\ today = FirstToday
    /\ slow = [r \in Requests |-> Idle]

TxnNext ==
    \/ \E a \in Accounts, r \in Rows : \E c \in CyclesOf(cycles, a) \cup {NoCycle} :
          CreateTransaction(a, r, c)
    \/ \E t \in DOMAIN txns, a \in Accounts \cup {Keep}, r \in Rows \cup {Keep} :
          \E c \in cycles \cup {Keep, NoCycle} : UpdateTransaction(t, a, r, c)
    \/ \E ids \in SUBSET DOMAIN txns : \E c \in cycles : BulkUpdateBillingCycle(ids, c)
    \/ \E ids \in SUBSET DOMAIN txns : BulkDeleteTransactions(ids)

AccountNext ==
    \/ \E a \in Accounts : CreateAccount(a)
    \/ \E p \in Patches : UpdateAccount(p)
    \/ \E a \in Accounts : DeleteAccount(a)

RequestNext ==
    \E r \in Requests :
        \/ \E a \in Accounts : ReadBillingDay(r, a)
        \/ EnsureCycles(r)
        \/ \E i \in Imports : \E c \in CyclesOf(cycles, i.acct) \cup {NoCycle} :
              CheckImport(r, i, c)
        \/ LockAndLoad(r)
        \/ CommitImport(r)

LedgerNext == TxnNext \/ AccountNext \/ RequestNext \/ Tick

LedgerSpec == Init /\ [][LedgerNext]_ledger

-----------------------------------------------------------------------------
(* Properties. *)

\* No two months in a row are too short for a billing day: of two in a row in
\* the calendar, one has 31 days.
LongMonths ==
    \A m \in 0 .. (LastMonth - 1) :
        \/ \A b \in Days : Start[m] + b - 1 <= MonthEnd(m)
        \/ \A b \in Days : Start[m + 1] + b - 1 <= MonthEnd(m + 1)

\* An account that has rows has one dated no later than this month.
NoneAhead ==
    \A a \in Accounts : TxnsOf(txns, a) # {} =>
        \E t \in TxnsOf(txns, a) : MonthOf(txns[t].row.date) <= MonthOf(today)

CyclesApart(a) ==
    \A c, d \in CyclesOf(cycles, a) : c # d => c.end < d.start \/ d.end < c.start

\* The cycles of an account never share a day, however often its billing day
\* changed and wherever a read that had the old day in hand ran late: a
\* transaction has one cycle to fall in.
CyclesDisjoint == \A a \in Accounts : CyclesApart(a)

\* A transaction is in the cycle its date falls in, of its own account, unless
\* the user named another: no move of its date or account, and no regenerated
\* cycle, leaves a stale assignment behind for listBillingCycles to total.
DefaultIsByDate ==
    \A t \in DOMAIN txns :
        LET x == txns[t]
        IN  x.cycle # NoCycle =>
              /\ x.cycle \in CyclesOf(cycles, x.acct)
              /\ x.chosen \/ Within(x.row.date, x.cycle)

\* As long as the cycles of its account stay, only a user who names a cycle
\* attaches a transaction that was detached by hand: neither the back-fill of a
\* read, nor that of a write of another row, nor an import does.  (What becomes
\* of it when a changed billing day drops them, the comments do not agree on.)
DetachedStays ==
    [][\A t \in DOMAIN txns \cap DOMAIN txns' :
         (/\ txns[t].detached /\ txns'[t].cycle # NoCycle
          /\ CyclesOf(cycles, txns[t].acct) \subseteq cycles')
           => txns'[t].chosen]_ledger

\* Two imports that skip duplicates never write the same row twice, however
\* they interleave: the row an import adds is in none that an earlier one
\* wrote and nobody edited since.
SkipImportsOnce ==
    [][\A t \in DOMAIN txns' \ DOMAIN txns : \A u \in DOMAIN txns' \ {t} :
         txns'[t].imported /\ txns'[u].imported /\ txns'[t].acct = txns'[u].acct
           => txns'[t].row # txns'[u].row]_ledger
=============================================================================
