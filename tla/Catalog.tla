------------------------------ MODULE Catalog ------------------------------
(***************************************************************************)
(* What describes the rows of a ledger: their category, payee and tags,    *)
(* the links between them, and the rules that categorize them              *)
(* (backend/handlers/link.go, rule.go, category.go, payee.go, tag.go and   *)
(* the bulk edits of transaction_bulk.go).  The account, amount, type and  *)
(* date of a row are given: Ledger models how they change.                 *)
(*                                                                         *)
(* Every handler is one transaction or one statement, hence one step,      *)
(* except ApplyRules: it loads the rules, and applies them in a            *)
(* transaction begun later.                                                *)
(***************************************************************************)
EXTENDS Integers, FiniteSets, SequencesExt

CONSTANTS
    Accounts, TxnIds,
    Fact,           \* what each row would say: account, type, amount, day, text
    Texts, Tags,
    Categories, Payees,
    RuleIds,        \* integers: ties of priority are broken by id
    RulesSent,      \* bodies of POST and PUT /rules
    Batches,        \* bodies of POST /links/bulk
    LinkTypes,
    FirstRows, FirstCategories, FirstPayees, FirstRules,
    MaxRequests,    \* bound on the writes of a behaviour
    None,           \* NULL
    NoRules

Names == {"Transfer", "other"}
Types == {"debit", "credit"}

Rule == [texts : SUBSET Texts, category : Categories, payee : Payees \cup {None},
         account : Accounts \cup {None}, filterCategory : Categories \cup {None},
         filterPayee : Payees \cup {None}, minAmount : Nat \cup {None},
         maxAmount : Nat \cup {None}, type : Types \cup {None},
         dateFrom : Nat \cup {None}, dateTo : Nat \cup {None},
         linked : BOOLEAN \cup {None}, tags : SUBSET Tags, priority : Nat]

Link == {l \in [type : LinkTypes, from : TxnIds, to : TxnIds] : l.from # l.to}

ASSUME CatalogAssumption ==
    /\ Fact \in [TxnIds -> [account : Accounts, type : Types, amount : Nat \ {0},
                            day : Nat, text : Texts]]
    /\ RuleIds \subseteq Nat /\ MaxRequests \in Nat
    /\ RulesSent \subseteq Rule
    /\ \A b \in Batches : b \in Seq(Link)
    /\ None \notin Categories \cup Payees \cup Accounts
    /\ NoRules \notin Seq(Rule)

\* The ledger a behaviour starts from refers to what exists.
ASSUME FirstAssumption ==
    /\ DOMAIN FirstCategories \subseteq Categories
    /\ FirstCategories \in [DOMAIN FirstCategories -> Names]
    /\ DOMAIN FirstPayees \subseteq Payees
    /\ FirstPayees \in [DOMAIN FirstPayees -> Accounts \cup {None}]
    /\ \A p, q \in DOMAIN FirstPayees :
          FirstPayees[p] = FirstPayees[q] /\ FirstPayees[p] # None => p = q
    /\ DOMAIN FirstRows \subseteq TxnIds
    /\ FirstRows \in [DOMAIN FirstRows -> [category : DOMAIN FirstCategories \cup {None},
                                          payee : DOMAIN FirstPayees \cup {None},
                                          tags : SUBSET Tags]]
    /\ DOMAIN FirstRules \subseteq RuleIds /\ IsFiniteSet(DOMAIN FirstRules)
    /\ FirstRules \in [DOMAIN FirstRules -> Rule]
    /\ \A i \in DOMAIN FirstRules :
          /\ FirstRules[i].category \in DOMAIN FirstCategories
          /\ {FirstRules[i].payee, FirstRules[i].filterPayee} \subseteq DOMAIN FirstPayees \cup {None}
          /\ FirstRules[i].filterCategory \in DOMAIN FirstCategories \cup {None}

VARIABLES
    accounts,     \* per account: open, closed or gone
    rows,         \* per row that exists, its category, payee and tags
    links,
    categories,   \* per category that exists, its name
    payees,       \* per payee that exists, the account it stands for
    rules,        \* per rule that exists, its body
    loaded,       \* the rules an apply in progress has read
    requests      \* writes so far

catalog == <<accounts, rows, links, categories, payees, rules, loaded, requests>>

Described == [category : DOMAIN categories \cup {None}, payee : DOMAIN payees \cup {None},
              tags : SUBSET Tags]

\* Everything refers to what exists.
CatalogTypeOK ==
    /\ accounts \in [Accounts -> {"open", "closed", "gone"}]
    /\ DOMAIN rows \subseteq TxnIds /\ rows \in [DOMAIN rows -> Described]
    /\ \A t \in DOMAIN rows : accounts[Fact[t].account] # "gone"
    /\ links \subseteq Link /\ \A l \in links : {l.from, l.to} \subseteq DOMAIN rows
    /\ DOMAIN categories \subseteq Categories /\ categories \in [DOMAIN categories -> Names]
    /\ DOMAIN payees \subseteq Payees
    /\ payees \in [DOMAIN payees -> {a \in Accounts : accounts[a] # "gone"} \cup {None}]
    /\ \A p, q \in DOMAIN payees : payees[p] = payees[q] /\ payees[p] # None => p = q
    /\ DOMAIN rules \subseteq RuleIds /\ rules \in [DOMAIN rules -> Rule]
    /\ \A r \in Range(rules) :
          /\ r.category \in DOMAIN categories
          /\ {r.payee, r.filterPayee} \subseteq DOMAIN payees \cup {None}
          /\ r.filterCategory \in DOMAIN categories \cup {None}
          /\ r.account # None => accounts[r.account] # "gone"
    /\ loaded = NoRules \/ loaded \in Seq(Rule)
    /\ requests \in 0 .. MaxRequests

-----------------------------------------------------------------------------
(* Rules.                                                                   *)

\* Descending priority, ties by id.
RulesBefore(i) ==
    {j \in DOMAIN rules : \/ rules[j].priority > rules[i].priority
                          \/ rules[j].priority = rules[i].priority /\ j < i}

SortedRules ==
    [k \in 1 .. Cardinality(DOMAIN rules) |->
        rules[CHOOSE i \in DOMAIN rules : Cardinality(RulesBefore(i)) = k - 1]]

Ends(l) == {l.from, l.to}

LinkedIn(ls, t) == \E l \in ls : t \in Ends(l)

Context(t, category, payee, linked) ==
    Fact[t] @@ [category |-> category, payee |-> payee, linked |-> linked]

\* A condition that is NULL constrains nothing.
Allows(wanted, got) == wanted = None \/ wanted = got

RuleMatches(r, c) ==
    /\ c.text \in r.texts
    /\ Allows(r.account, c.account) /\ Allows(r.type, c.type) /\ Allows(r.linked, c.linked)
    /\ Allows(r.filterCategory, c.category) /\ Allows(r.filterPayee, c.payee)
    /\ r.minAmount # None => c.amount >= r.minAmount
    /\ r.maxAmount # None => c.amount <= r.maxAmount
    /\ r.dateFrom # None => c.day >= r.dateFrom
    /\ r.dateTo # None => c.day <= r.dateTo

\* The place of the first rule that matches, 0 if none does.
AutoCategorize(rs, c) == SelectInSeq(rs, LAMBDA r : RuleMatches(r, c))

Open(t) == accounts[Fact[t].account] = "open"

Current(t) == Context(t, rows[t].category, rows[t].payee, LinkedIn(links, t))

\* Mutant of Fills: the guard on the category is dropped.
FillsAny(rs, r, t) ==
    Open(t) /\ RuleMatches(r, Context(t, rs[t].category, rs[t].payee, LinkedIn(links, t)))

\* The rows one rule's UPDATE touches when the rows are rs.
Fills(rs, r, t) ==
    /\ rs[t].category = None /\ Open(t)
    /\ RuleMatches(r, Context(t, rs[t].category, rs[t].payee, LinkedIn(links, t)))

\* One UPDATE per rule; one that names what is gone fails the whole apply.
ApplyRule(s, r) ==
    LET hit == {t \in DOMAIN s.rows : Fills(s.rows, r, t)}
        gone == r.category \notin DOMAIN categories
                \/ (r.payee # None /\ r.payee \notin DOMAIN payees)
    IN  [ok |-> s.ok /\ ~(gone /\ hit # {}),
         rows |-> [t \in DOMAIN s.rows |->
                     IF t \notin hit THEN s.rows[t]
                     ELSE [category |-> r.category,
                           payee |-> IF r.payee = None THEN s.rows[t].payee ELSE r.payee,
                           tags |-> s.rows[t].tags \cup r.tags]]]

\* The apply after its first k rules.
AppliedTo[k \in 0 .. Len(loaded)] ==
    IF k = 0 THEN [ok |-> TRUE, rows |-> rows]
             ELSE ApplyRule(AppliedTo[k - 1], loaded[k])

Applied == AppliedTo[Len(loaded)]

-----------------------------------------------------------------------------
(* Links.                                                                   *)

\* The category literally named Transfer; LIMIT 1 takes any when there are two.
TransferCategories ==
    LET named == {c \in DOMAIN categories : categories[c] = "Transfer"}
    IN  IF named = {} THEN {None} ELSE named

PayeeOf(a) ==
    IF \E p \in DOMAIN payees : payees[p] = a THEN CHOOSE p \in DOMAIN payees : payees[p] = a
    ELSE None

\* Each side of a transfer takes the payee of the other side's account.
AsTransfer(rs, l, c) ==
    [t \in DOMAIN rs |->
        IF t = l.from THEN [rs[t] EXCEPT !.category = c, !.payee = PayeeOf(Fact[l.to].account)]
        ELSE IF t = l.to
             THEN [rs[t] EXCEPT !.category = c, !.payee = PayeeOf(Fact[l.from].account)]
             ELSE rs[t]]

\* An entry of a batch after those before it; a duplicate is skipped.
LinkedOnce(s, l, c) ==
    IF l \in s.links THEN s
    ELSE [links |-> s.links \cup {l},
          rows |-> IF l.type = "transfer" THEN AsTransfer(s.rows, l, c) ELSE s.rows]

LinkedAll(batch, c) ==
    LET after[k \in 0 .. Len(batch)] ==
            IF k = 0 THEN [links |-> links, rows |-> rows]
                     ELSE LinkedOnce(after[k - 1], batch[k], c)
    IN  after[Len(batch)]

\* Mutant of Undone: a link of any type takes the description with it.
UndoneByAny(gone) ==
    {t \in DOMAIN rows : (\E l \in gone : t \in Ends(l)) /\ ~LinkedIn(links \ gone, t)}

\* The rows whose category and payee go with the transfers among the links
\* deleted: those no other link, of any type, still names.
Undone(gone) ==
    {t \in DOMAIN rows : /\ \E l \in gone : l.type = "transfer" /\ t \in Ends(l)
                         /\ ~LinkedIn(links \ gone, t)}

Undescribed(S) ==
    [t \in DOMAIN rows |->
        IF t \in S THEN [rows[t] EXCEPT !.category = None, !.payee = None] ELSE rows[t]]

-----------------------------------------------------------------------------
(* The handlers.                                                            *)

\* A table with one more row.
Adding(table, id, row) ==
    [i \in DOMAIN table \cup {id} |-> IF i = id THEN row ELSE table[i]]

Request == requests < MaxRequests /\ requests' = requests + 1

Links(batch) ==
    /\ Request
    /\ \A l \in Range(batch) : Ends(l) \subseteq DOMAIN rows
    /\ \E c \in TransferCategories :
          LET s == LinkedAll(batch, c) IN links' = s.links /\ rows' = s.rows
    /\ UNCHANGED <<accounts, categories, payees, rules, loaded>>

\* A link that exists already is refused.
CreateLink(l) == l \notin links /\ Links(<<l>>)

\* Duplicates are skipped, and one bad entry refuses the batch.
BulkCreateLinks(batch) == Links(batch)

Unlink(gone) ==
    /\ Request
    /\ links' = links \ gone
    /\ rows' = Undescribed(Undone(gone))
    /\ UNCHANGED <<accounts, categories, payees, rules, loaded>>

DeleteLink(l) == l \in links /\ Unlink({l})

BulkDeleteLinks(gone) == gone # {} /\ gone \subseteq links /\ Unlink(gone)

\* POST /transactions: the first rule that matches fills in what was not sent.
CreateTransaction(t, category, payee) ==
    LET rs == SortedRules
        k == IF category # None THEN 0
             ELSE AutoCategorize(rs, Context(t, None, payee, FALSE))
    IN  /\ Request
        /\ t \notin DOMAIN rows /\ Open(t)
        /\ category \in DOMAIN categories \cup {None} /\ payee \in DOMAIN payees \cup {None}
        /\ rows' = Adding(rows, t,
              [category |-> IF k = 0 THEN category ELSE rs[k].category,
               payee |-> IF k = 0 \/ payee # None THEN payee ELSE rs[k].payee,
               tags |-> IF k = 0 THEN {} ELSE rs[k].tags])
        /\ UNCHANGED <<accounts, links, categories, payees, rules, loaded>>

\* What is edited of the rows named; those of closed accounts are skipped.
Edited(S, edit(_)) ==
    /\ Request
    /\ rows' = [t \in DOMAIN rows |-> IF t \in S /\ Open(t) THEN edit(rows[t]) ELSE rows[t]]
    /\ UNCHANGED <<accounts, links, categories, payees, rules, loaded>>

BulkCategorize(S, c) ==
    /\ c \in DOMAIN categories \cup {None}
    /\ Edited(S, LAMBDA r : [r EXCEPT !.category = c])

BulkUpdatePayee(S, p) ==
    p \in DOMAIN payees /\ Edited(S, LAMBDA r : [r EXCEPT !.payee = p])

\* Additions come before removals.
BulkUpdateTags(S, add, remove) ==
    /\ add \cup remove # {}
    /\ Edited(S, LAMBDA r : [r EXCEPT !.tags = (@ \cup add) \ remove])

\* PUT /transactions/:id: a field that was not sent stays as it is.
UpdateTransaction(t, c, p) ==
    /\ t \in DOMAIN rows /\ Open(t)
    /\ c \in DOMAIN categories \cup {None} /\ p \in DOMAIN payees \cup {None}
    /\ rows[t].category = c \/ rows[t].payee = p
    /\ Edited({t}, LAMBDA r : [r EXCEPT !.category = c, !.payee = p])

RenamedTag(from, to, r) ==
    IF from \in r.tags THEN [r EXCEPT !.tags = (@ \ {from}) \cup {to}] ELSE r

RenameTag(from, to) ==
    from # to /\ Edited(DOMAIN rows, LAMBDA r : RenamedTag(from, to, r))

\* Links go with either of their rows.
Without(gone) ==
    /\ rows' = [t \in DOMAIN rows \ gone |-> rows[t]]
    /\ links' = {l \in links : Ends(l) \cap gone = {}}

DeleteTransaction(t) ==
    /\ Request
    /\ t \in DOMAIN rows /\ Open(t)
    /\ Without({t})
    /\ UNCHANGED <<accounts, categories, payees, rules, loaded>>

\* The closed flag of PUT /accounts/:id.
UpdateAccount(a, closed) ==
    /\ Request
    /\ accounts[a] # "gone"
    /\ accounts' = [accounts EXCEPT ![a] = IF closed THEN "closed" ELSE "open"]
    /\ UNCHANGED <<rows, links, categories, payees, rules, loaded>>

\* What rules and rows keep of the payees and accounts that go: nothing.
Forgotten(gonePayees, goneAccounts) ==
    /\ payees' = [p \in DOMAIN payees \ gonePayees |->
                    IF payees[p] \in goneAccounts THEN None ELSE payees[p]]
    /\ LET kept(p) == IF p \in gonePayees THEN None ELSE p
       IN  /\ rules' = [i \in DOMAIN rules |->
                          [rules[i] EXCEPT !.payee = kept(@), !.filterPayee = kept(@),
                                           !.account = IF @ \in goneAccounts THEN None ELSE @]]
           /\ rows' = [t \in {u \in DOMAIN rows : Fact[u].account \notin goneAccounts} |->
                         [rows[t] EXCEPT !.payee = kept(@)]]

\* An account goes with its rows, their links and the payee it stood for.
DeleteAccount(a) ==
    /\ Request
    /\ accounts[a] # "gone"
    /\ accounts' = [accounts EXCEPT ![a] = "gone"]
    /\ Forgotten({p \in DOMAIN payees : payees[p] = a}, {a})
    /\ links' = {l \in links : \A t \in Ends(l) : Fact[t].account # a}
    /\ UNCHANGED <<categories, loaded>>

\* One payee per account.
MayStandFor(p, a) ==
    a # None => accounts[a] # "gone" /\ \A q \in DOMAIN payees \ {p} : payees[q] # a

CreatePayee(p, a) ==
    /\ Request
    /\ p \notin DOMAIN payees /\ MayStandFor(p, a)
    /\ payees' = Adding(payees, p, a)
    /\ UNCHANGED <<accounts, rows, links, categories, rules, loaded>>

UpdatePayee(p, a) ==
    /\ Request
    /\ p \in DOMAIN payees /\ MayStandFor(p, a)
    /\ payees' = [payees EXCEPT ![p] = a]
    /\ UNCHANGED <<accounts, rows, links, categories, rules, loaded>>

DeletePayee(p) ==
    /\ Request
    /\ p \in DOMAIN payees
    /\ Forgotten({p}, {})
    /\ UNCHANGED <<accounts, links, categories, loaded>>

CreateCategory(c, name) ==
    /\ Request
    /\ c \notin DOMAIN categories
    /\ categories' = Adding(categories, c, name)
    /\ UNCHANGED <<accounts, rows, links, payees, rules, loaded>>

UpdateCategory(c, name) ==
    /\ Request
    /\ c \in DOMAIN categories
    /\ categories' = [categories EXCEPT ![c] = name]
    /\ UNCHANGED <<accounts, rows, links, payees, rules, loaded>>

\* The rows lose it, the rules that set it go, and a condition on it is lifted.
DeleteCategory(c) ==
    /\ Request
    /\ c \in DOMAIN categories
    /\ categories' = [d \in DOMAIN categories \ {c} |-> categories[d]]
    /\ LET kept(d) == IF d = c THEN None ELSE d
       IN  /\ rows' = [t \in DOMAIN rows |-> [rows[t] EXCEPT !.category = kept(@)]]
           /\ rules' = [i \in {j \in DOMAIN rules : rules[j].category # c} |->
                          [rules[i] EXCEPT !.filterCategory = kept(@)]]
    /\ UNCHANGED <<accounts, links, payees, loaded>>

\* Mutant of MayRefer: only the category is checked.
CategoryExists(r) == r.category \in DOMAIN categories

\* The references of a rule are checked by the statement that writes it.
MayRefer(r) ==
    /\ r.category \in DOMAIN categories
    /\ {r.payee, r.filterPayee} \subseteq DOMAIN payees \cup {None}
    /\ r.filterCategory \in DOMAIN categories \cup {None}
    /\ r.account # None => accounts[r.account] # "gone"

CreateRule(i, r) ==
    /\ Request
    /\ i \notin DOMAIN rules /\ MayRefer(r)
    /\ rules' = Adding(rules, i, r)
    /\ UNCHANGED <<accounts, rows, links, categories, payees, loaded>>

UpdateRule(i, r) ==
    /\ Request
    /\ i \in DOMAIN rules /\ MayRefer(r)
    /\ rules' = [rules EXCEPT ![i] = r]
    /\ UNCHANGED <<accounts, rows, links, categories, payees, loaded>>

DeleteRule(i) ==
    /\ Request
    /\ i \in DOMAIN rules
    /\ rules' = [j \in DOMAIN rules \ {i} |-> rules[j]]
    /\ UNCHANGED <<accounts, rows, links, categories, payees, loaded>>

\* POST /rules/apply reads the rules before it begins its transaction.
LoadRules ==
    /\ Request
    /\ loaded = NoRules
    /\ loaded' = SortedRules
    /\ UNCHANGED <<accounts, rows, links, categories, payees, rules>>

\* A failure rolls the whole apply back.
ApplyRules ==
    /\ loaded # NoRules
    /\ loaded' = NoRules
    /\ rows' = IF Applied.ok THEN Applied.rows ELSE rows
    /\ UNCHANGED <<accounts, links, categories, payees, rules, requests>>

CatalogInit ==
    /\ accounts = [a \in Accounts |-> "open"]
    /\ rows = FirstRows /\ links = {}
    /\ categories = FirstCategories /\ payees = FirstPayees /\ rules = FirstRules
    /\ loaded = NoRules /\ requests = 0

LinkRequests ==
    \/ \E l \in Link : CreateLink(l) \/ DeleteLink(l)
    \/ \E b \in Batches : BulkCreateLinks(b)
    \/ \E gone \in SUBSET links : BulkDeleteLinks(gone)

RowRequests ==
    \/ \E t \in TxnIds, c \in Categories \cup {None}, p \in Payees \cup {None} :
          CreateTransaction(t, c, p) \/ UpdateTransaction(t, c, p)
    \/ \E S \in SUBSET DOMAIN rows :
          \/ \E c \in Categories \cup {None} : BulkCategorize(S, c)
          \/ \E p \in Payees : BulkUpdatePayee(S, p)
          \/ \E add, remove \in SUBSET Tags : BulkUpdateTags(S, add, remove)
    \/ \E from, to \in Tags : RenameTag(from, to)
    \/ \E t \in TxnIds : DeleteTransaction(t)

VocabularyRequests ==
    \/ \E a \in Accounts : DeleteAccount(a) \/ \E closed \in BOOLEAN : UpdateAccount(a, closed)
    \/ \E p \in Payees : \/ DeletePayee(p)
                         \/ \E a \in Accounts \cup {None} : CreatePayee(p, a) \/ UpdatePayee(p, a)
    \/ \E c \in Categories : \/ DeleteCategory(c)
                             \/ \E n \in Names : CreateCategory(c, n) \/ UpdateCategory(c, n)

RuleRequests ==
    \/ \E i \in RuleIds : \/ DeleteRule(i)
                          \/ \E r \in RulesSent : CreateRule(i, r) \/ UpdateRule(i, r)
    \/ LoadRules \/ ApplyRules

CatalogNext == LinkRequests \/ RowRequests \/ VocabularyRequests \/ RuleRequests

CatalogSpec == CatalogInit /\ [][CatalogNext]_catalog

-----------------------------------------------------------------------------
(* Properties.                                                              *)

\* An apply gives every uncategorized row of an open account what the first
\* rule that matches it sets, the category it would have been created with,
\* and leaves the others alone (ApplyRules; autoCategorize).
FirstRuleWins ==
    [][loaded # NoRules /\ loaded' = NoRules /\ rows' # rows =>
         \A t \in DOMAIN rows :
            LET k == AutoCategorize(loaded, Current(t))
            IN  rows'[t] = IF rows[t].category # None \/ ~Open(t) \/ k = 0 THEN rows[t]
                           ELSE [category |-> loaded[k].category,
                                 payee |-> IF loaded[k].payee = None THEN rows[t].payee
                                           ELSE loaded[k].payee,
                                 tags |-> rows[t].tags \cup loaded[k].tags]]_catalog

\* What a step that nobody asked to edit rows may do to a row: a transfer link
\* was made on it, its last link went and was a transfer, or what it referred
\* to was deleted.
Linking(t) == \E l \in links' \ links : l.type = "transfer" /\ t \in Ends(l)

Unlinking(t) ==
    /\ \E l \in links \ links' : l.type = "transfer" /\ t \in Ends(l)
    /\ ~LinkedIn(links', t)
    /\ rows'[t].category = None /\ rows'[t].payee = None

Losing(t) ==
    /\ rows'[t].tags = rows[t].tags
    /\ rows'[t].category # rows[t].category =>
          rows[t].category \notin DOMAIN categories' /\ rows'[t].category = None
    /\ rows'[t].payee # rows[t].payee =>
          rows[t].payee \notin DOMAIN payees' /\ rows'[t].payee = None

\* Outside the edits of open rows, which may set anything and touch nothing
\* else, a description changes for one of these causes only: a link made or
\* undone, what it refers to being deleted, or rules that find the row without a
\* category.  So the rows of a closed account change only by links and deletions,
\* and rules never write over a category (link.go:403-407; ApplyRules; the
\* closed-account guards of the bulk edits).
EditsHaveCause ==
    [][\A t \in DOMAIN rows \cap DOMAIN rows' :
         rows'[t] # rows[t] =>
            \/ Linking(t) \/ Unlinking(t) \/ Losing(t)
            \/ Open(t) /\ rows[t].category = None /\ loaded # NoRules /\ loaded' = NoRules
            \/ Open(t) /\ UNCHANGED <<accounts, links, categories, payees, rules, loaded>>]_catalog
=============================================================================
