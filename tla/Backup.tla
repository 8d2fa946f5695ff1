------------------------------- MODULE Backup -------------------------------
(* Backup and restore of one user's whole ledger (backend/handlers/        *)
(* backup.go).  The export reads one table per query, outside any          *)
(* transaction, while other requests write; the restore is one             *)
(* transaction that gives every row a new id and rewrites its references.  *)
(* A row is its table, its name and what it refers to; amounts, dates and  *)
(* texts travel unread.                                                    *)
EXTENDS Integers, FiniteSets, SequencesExt

CONSTANTS
    Global,        \* the groups and categories an administrator owns
    First,         \* the ledger that is exported
    Doomed,        \* the rows other requests may delete
    Drafts,        \* the rows other requests may write: <<id, row>>
    Bundles,       \* bundles from elsewhere: older versions, edited by hand
    Homes,         \* the ledgers restored into, before the restore
    Unsupported,   \* accounts of a type the restoring instance lacks
    Malformed,     \* rows with an amount, date or keyword nobody accepts
    Imports,       \* restores requested
    MaxWrites,     \* bound on the writes beside an export
    None           \* NULL

\* The tables and what their rows refer to, parents before children.
References ==
    [settings          |-> <<>>,
     accounts          |-> <<>>,
     groups            |-> <<>>,
     categories        |-> [group |-> "groups"],
     payees            |-> [account |-> "accounts"],
     cycles            |-> [account |-> "accounts"],
     transactions      |-> [account |-> "accounts", category |-> "categories",
                            payee |-> "payees", cycle |-> "cycles"],
     links             |-> [from |-> "transactions", to |-> "transactions"],
     loanAttachments   |-> [loan |-> "accounts", transaction |-> "transactions"],
     loanSchedules     |-> [loan |-> "accounts"],
     loanTransfers     |-> [from |-> "accounts", to |-> "accounts"],
     loanDisbursements |-> [loan |-> "accounts", transaction |-> "transactions"],
     series            |-> [category |-> "categories", payee |-> "payees"],
     terms             |-> [series |-> "series", account |-> "accounts"],
     seriesAttachments |-> [series |-> "series", transaction |-> "transactions"],
     rules             |-> [category |-> "categories", payee |-> "payees",
                            account |-> "accounts", filterCategory |-> "categories",
                            filterPayee |-> "payees"]]

Optional ==
    [payees |-> {"account"}, transactions |-> {"category", "payee", "cycle"},
     series |-> {"category", "payee"},
     rules |-> {"payee", "account", "filterCategory", "filterPayee"}]

Needed(r) ==
    DOMAIN r.refs \ (IF r.table \in DOMAIN Optional THEN Optional[r.table] ELSE {})

\* The order of the restore's stages, and of the export's queries but that the
\* global categories have a query of their own.
Stages == <<"settings", "accounts", "groups", "categories", "payees", "cycles",
            "transactions", "links", "loanAttachments", "loanSchedules",
            "loanTransfers", "loanDisbursements", "series", "terms",
            "seriesAttachments", "rules">>
Queries == InsertAt(Stages, 5, "globalCategories")

Of(l, table) == {x \in DOMAIN l : l[x].table = table}

\* What f says, and g where f says nothing.
Over(f, g) == [x \in DOMAIN f \cup DOMAIN g |-> IF x \in DOMAIN f THEN f[x] ELSE g[x]]

Named(l, table, name) == {x \in Of(l, table) : l[x].name = name}

\* What the constraints of the schema say of a ledger, and what the handlers
\* keep: one default account.
Sound(l) ==
    /\ \A x \in DOMAIN l : \A f \in DOMAIN l[x].refs :
          LET y == l[x].refs[f]
          IN  \/ y = None /\ f \notin Needed(l[x])
              \/ y \in DOMAIN l /\ l[y].table = References[l[x].table][f]
    /\ \A t \in Of(l, "transactions") :
          l[t].refs.cycle # None => l[l[t].refs.cycle].refs.account = l[t].refs.account
    /\ \A p, q \in Of(l, "payees") : l[p].name = l[q].name => p = q
    /\ \A a, b \in Of(l, "accounts") : l[a].default /\ l[b].default => a = b

\* The rows a run may meet, with their ids, and those ids.
RowsOf(l) == {<<x, l[x]>> : x \in DOMAIN l}
Written == Drafts \cup UNION {RowsOf(l) : l \in {First} \cup Bundles \cup Homes}
Ids == {p[1] : p \in Written}

\* Every table has ids of its own: an id is of one table wherever it stands, and
\* what a column holds is an id of the table it refers to, or of no row at all.
Fits(x, r) ==
    /\ r = [table |-> r.table, name |-> r.name, default |-> r.default, refs |-> r.refs]
    /\ r.table \in DOMAIN References /\ r.default \in BOOLEAN
    /\ DOMAIN r.refs = DOMAIN References[r.table]
    /\ x \in Global => r.table \in {"groups", "categories"}
    /\ \A p \in Written :
          /\ p[1] = x => p[2].table = r.table
          /\ \A f \in DOMAIN r.refs : p[1] = r.refs[f] => p[2].table = References[r.table][f]

ASSUME BackupAssumption ==
    /\ Sound(First) /\ \A h \in Homes : Sound(h) /\ Of(h, "accounts") = {}
    /\ \A p \in Written : Fits(p[1], p[2])
    /\ {None, "account", "Imported"} \cap Ids = {}     \* ids given later, and none
    /\ 0 \notin Imports /\ MaxWrites \in Nat

VARIABLES
    source,      \* the ledger being exported
    asked,       \* the queries the export has made
    bundle,      \* what they returned
    touched,     \* the rows others wrote meanwhile
    writes,      \* how often
    target,      \* the ledger restored into; its ids are <<restore, id>>
    restores,    \* per request, its phase and its bundle
    placed       \* where the rows of the bundle restored last went

backup == <<source, asked, bundle, touched, writes, target, restores, placed>>

-----------------------------------------------------------------------------
(* The export, and the writes beside it.                                    *)

NotBegun == [phase |-> "none", bundle |-> <<>>]

Uses(l, x, table, field) == \E y \in Of(l, table) : l[y].refs[field] = x

\* Mutant of Referenced: a rule's condition is not a reference.
ReferencedBySet(l, x) ==
    Uses(l, x, "transactions", "category") \/ Uses(l, x, "rules", "category")
    \/ Uses(l, x, "series", "category")

\* The global categories that travel with the ledger.
Referenced(l, x) ==
    \/ Uses(l, x, "transactions", "category") \/ Uses(l, x, "series", "category")
    \/ Uses(l, x, "rules", "category") \/ Uses(l, x, "rules", "filterCategory")

Rows(query) ==
    IF query = "globalCategories"
    THEN {x \in Of(source, "categories") \cap Global : Referenced(source, x)}
    ELSE Of(source, query) \ Global

\* Export and restore touch different ledgers, hence one is over before the
\* other begins.
NoRestore == \A i \in Imports : restores[i] = NotBegun

Export ==
    /\ asked < Len(Queries) /\ NoRestore
    /\ asked' = asked + 1
    /\ bundle' = Over(bundle, [x \in Rows(Queries[asked + 1]) |-> source[x]])
    /\ UNCHANGED <<source, touched, writes, target, restores, placed>>

\* The rows that go with those in S: what needs them, table after table.
Cascade(l, S) ==
    LET step(gone, table) ==
            gone \cup {x \in Of(l, table) : \E f \in Needed(l[x]) : l[x].refs[f] \in gone}
    IN  FoldLeft(step, S, Stages)

\* An account takes its payee and the series that have no range elsewhere.
With(x) ==
    {x} \cup {p \in Of(source, "payees") : source[p].refs.account = x}
        \cup {s \in Of(source, "series") :
                 LET terms == {t \in Of(source, "terms") : source[t].refs.series = s}
                 IN  terms # {} /\ \A t \in terms : source[t].refs.account = x}

Beside == asked < Len(Queries) /\ NoRestore /\ writes < MaxWrites /\ writes' = writes + 1

Becomes(l) ==
    /\ source' = l
    /\ touched' = touched \cup {x \in DOMAIN source \cup DOMAIN l :
                                  x \notin DOMAIN source \cap DOMAIN l \/ source[x] # l[x]}
    /\ UNCHANGED <<asked, bundle, target, restores, placed>>

Delete(x) ==
    /\ Beside
    /\ x \in DOMAIN source \ Global
    /\ source[x].table # "settings"
    /\ ~Uses(source, x, "categories", "group")
    /\ LET gone == Cascade(source, With(x))
           cleared(r) == [r EXCEPT !.refs = [f \in DOMAIN @ |->
                                               IF @[f] \in gone THEN None ELSE @[f]]]
       IN  Becomes([y \in DOMAIN source \ gone |-> cleared(source[y])])

Write(x, r) ==
    /\ Beside
    /\ LET l == Over([y \in {x} |-> r], source) IN l # source /\ Sound(l) /\ Becomes(l)

-----------------------------------------------------------------------------
(* The restore.                                                             *)

\* Mutant of LockFree: the user's row is not locked.
NoLock == TRUE

LockFree == \A j \in Imports : restores[j].phase # "locked"

HasAccounts == Of(target, "accounts") # {}

\* The user's row is locked, then the accounts are counted.
BeginRestore(i, b) ==
    /\ restores[i] = NotBegun /\ LockFree
    /\ restores' = [restores EXCEPT ![i] =
                      IF HasAccounts THEN [phase |-> "refused", bundle |-> <<>>]
                      ELSE [phase |-> "locked", bundle |-> b]]
    /\ UNCHANGED <<source, asked, bundle, touched, writes, target, placed>>

\* The row of another request refers to the user's, and waits for the lock.
CreateAccount ==
    /\ LockFree
    /\ asked \in {0, Len(Queries)} /\ ~HasAccounts
    /\ target' = Over(target, [y \in {<<0, "account">>} |->
                    [table |-> "accounts", name |-> "account", default |-> FALSE, refs |-> <<>>]])
    /\ UNCHANGED <<source, asked, bundle, touched, writes, restores, placed>>

\* Of the payees of a bundle that share a name, one linked to an account stays.
Survivor(b, name) ==
    LET same == Named(b, "payees", name)
        linked == {p \in same : b[p].refs.account # None}
    IN  CHOOSE p \in IF linked = {} THEN same ELSE linked : TRUE

\* The others go in its place, but for a second one that is linked: its name
\* takes its id.
Folded(b, p) == b[p].refs.account = None /\ p # Survivor(b, b[p].name)

PayeeName(b, p) == IF p = Survivor(b, b[p].name) THEN b[p].name ELSE p

Fallback(i) ==
    LET imported == Named(target, "groups", "Imported") \ {<<0, g>> : g \in Global}
    IN  IF imported = {} THEN <<i, "Imported">> ELSE CHOOSE g \in imported : TRUE

\* The group of a category: its own one, one the instance has, or "Imported".
GroupFor(m, i, g) ==
    IF g \in DOMAIN m THEN m[g]
    ELSE IF <<0, g>> \in Of(target, "groups") THEN <<0, g>> ELSE Fallback(i)

\* The categories of the target that are x already: of an administrator's one,
\* those no user owns, and not the copies that a restore made for a user.
Same(m, i, b, x) ==
    {c \in Named(target, "categories", b[x].name) :
        /\ target[c].refs.group = GroupFor(m, i, b[x].refs.group)
        /\ (c \in {<<0, g>> : g \in Global}) = (x \in Global)}

\* Where a row of the bundle goes, given where those before it went.
PlaceFor(m, i, b, x) ==
    CASE b[x].table = "settings" -> <<0, x>>
      [] b[x].table = "groups" ->
            LET known == Named(target, "groups", b[x].name) \ {<<0, g>> : g \in Global}
            IN  IF known = {} THEN <<i, x>> ELSE CHOOSE g \in known : TRUE
      [] b[x].table = "categories" ->
            LET known == Same(m, i, b, x) IN IF known = {} THEN <<i, x>> ELSE CHOOSE c \in known : TRUE
      [] b[x].table = "payees" /\ Folded(b, x) -> <<i, Survivor(b, b[x].name)>>
      [] OTHER -> <<i, x>>

\* A row goes in if everything it needs has; a category always finds a group.
Placeable(m, r) == r.table = "categories" \/ \A f \in Needed(r) : r.refs[f] \in DOMAIN m

Stage(m, i, b, table) ==
    Over(m, [x \in {y \in Of(b, table) : Placeable(m, b[y])} |-> PlaceFor(m, i, b, x)])

Places(i, b) ==
    LET after[k \in 0 .. Len(Stages)] ==
            IF k = 0 THEN <<>> ELSE Stage(after[k - 1], i, b, Stages[k])
    IN  after[Len(Stages)]

\* Mutant of OwnCycle: any cycle of the bundle will do.
AnyCycle(b, r) == r.refs.cycle \in DOMAIN b

\* A cycle of another account is not a row's cycle.
OwnCycle(b, r) == r.refs.cycle \in DOMAIN b /\ b[r.refs.cycle].refs.account = r.refs.account

Mapped(m, i, b, r, f) ==
    IF f = "group" THEN GroupFor(m, i, r.refs.group)
    ELSE IF r.refs[f] \in DOMAIN m /\ (f = "cycle" => OwnCycle(b, r)) THEN m[r.refs[f]]
    ELSE None

Image(m, i, b, x) ==
    [table |-> b[x].table,
     name |-> IF b[x].table = "payees" THEN PayeeName(b, x) ELSE b[x].name,
     default |-> /\ b[x].default
                 /\ x = CHOOSE a \in Of(b, "accounts") : b[a].default,
     refs |-> [f \in DOMAIN b[x].refs |-> Mapped(m, i, b, b[x], f)]]

\* The rows a restore inserts; the settings are overwritten.
Inserted(m, i, b) ==
    LET new == {x \in DOMAIN m : m[x] \in {<<i, x>>, <<0, x>>} /\
                                 (m[x] \notin DOMAIN target \/ b[x].table = "settings")}
        rows == [y \in {m[x] : x \in new} |-> Image(m, i, b, y[2])]
        used == {rows[y].refs.group : y \in Of(rows, "categories")}
    IN  IF <<i, "Imported">> \in used
        THEN Over(rows, [y \in {<<i, "Imported">>} |->
                    [table |-> "groups", name |-> "Imported", default |-> FALSE, refs |-> <<>>]])
        ELSE rows

\* What refuses the whole bundle: an account type this instance lacks, a value
\* nobody accepts, or a second payee of a name.
Refused(m, i, b) ==
    \/ Of(b, "accounts") \cap Unsupported # {}
    \/ DOMAIN m \cap Malformed # {}
    \/ LET new == Inserted(m, i, b)
       IN  \E p \in Of(new, "payees") :
              Named(target, "payees", new[p].name) \cup Named(new, "payees", new[p].name) # {p}

Restore(i) ==
    LET b == restores[i].bundle
        m == Places(i, b)
    IN  /\ restores[i].phase = "locked"
        /\ IF Refused(m, i, b)
           THEN /\ restores' = [restores EXCEPT ![i].phase = "refused"]
                /\ UNCHANGED <<target, placed>>
           ELSE /\ restores' = [restores EXCEPT ![i].phase = "done"]
                /\ target' = Over(Inserted(m, i, b), target)
                /\ placed' = m
        /\ UNCHANGED <<source, asked, bundle, touched, writes>>

BackupInit ==
    /\ source = First /\ asked = 0 /\ bundle = <<>> /\ touched = {} /\ writes = 0
    /\ \E h \in Homes : target = [y \in {<<0, x>> : x \in DOMAIN h} |->
                           [h[y[2]] EXCEPT !.refs = [f \in DOMAIN @ |->
                                IF @[f] = None THEN None ELSE <<0, @[f]>>]]]
    /\ restores = [i \in Imports |-> NotBegun] /\ placed = <<>>

BackupNext ==
    \/ Export
    \/ \E x \in Doomed : Delete(x)
    \/ \E d \in Drafts : Write(d[1], d[2])
    \/ CreateAccount
    \/ \E i \in Imports : \/ Restore(i)
                          \/ asked = 0 /\ \E b \in Bundles : BeginRestore(i, b)
                          \/ asked = Len(Queries) /\ BeginRestore(i, bundle)

BackupSpec == BackupInit /\ [][BackupNext]_backup

-----------------------------------------------------------------------------
(* Properties.                                                              *)

\* Whatever was written while the bundle was read, and whatever an older or an
\* edited bundle refers to, a restored ledger breaks no reference, pairs no row
\* with another account's cycle, and has one default account and one payee of a
\* name (restoreUserBackup's order of stages and its skips).
RestoredIsSound == Sound(target)

\* Two restores at once, or a restore beside a new account, never mix: the rows
\* of a bundle arrive in a ledger without accounts (backup.go:512-533).
RestoresAlone ==
    [][\A i \in Imports :
         restores[i].phase # "done" /\ restores'[i].phase = "done" => ~HasAccounts]_backup

\* The rows nobody wrote during the export, with all they need.
Stood(S, table) ==
    S \cup {x \in Of(source, table) \ touched : \A f \in Needed(source[x]) : source[x].refs[f] \in S}

Steady ==
    LET among[k \in 0 .. Len(Stages)] == IF k = 0 THEN {} ELSE Stood(among[k - 1], Stages[k])
    IN  among[Len(Stages)]

\* A row that stood untouched through the export is restored, and refers to what
\* it referred to wherever that stood too, torn though the rest of the bundle
\* may be (buildUserBackup; "faithful copy including the relationships").
SteadyIsKept ==
    \A i \in Imports :
       restores[i].phase = "done" /\ asked = Len(Queries) /\ restores[i].bundle = bundle =>
          \A x \in Steady \ Global :
             /\ x \in DOMAIN placed
             /\ \A f \in DOMAIN source[x].refs :
                   LET y == source[x].refs[f]
                   IN  y \in Steady /\ f # "group" =>
                          y \in DOMAIN placed /\ target[placed[x]].refs[f] = placed[y]
=============================================================================
