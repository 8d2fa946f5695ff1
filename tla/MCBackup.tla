------------------------------ MODULE MCBackup ------------------------------
(* Backup on a ledger with a row or two in each table, restored into the      *)
(* ledger of a new user, and into one whose accounts were deleted.            *)
EXTENDS Backup

CONSTANTS i1, i2

Alike == Permutations(Imports)

Is(table, name, refs) == [table |-> table, name |-> name, default |-> FALSE, refs |-> refs]
Txn(a, c, p, k) ==
    Is("transactions", "", [account |-> a, category |-> c, payee |-> p, cycle |-> k])
RuleOn(c, p, a, fc, fp) ==
    Is("rules", "", [category |-> c, payee |-> p, account |-> a, filterCategory |-> fc,
                     filterPayee |-> fp])
Standing(a) == [Is("accounts", "", <<>>) EXCEPT !.default = a]

Instance ==
    "base" :> Is("groups", "base", <<>>) @@ "salary" :> Is("categories", "salary", [group |-> "base"])

MCFirst == Instance
    @@ "prefs" :> Is("settings", "theirs", <<>>)
    @@ "bank" :> Standing(TRUE) @@ "loan" :> Standing(FALSE)
    @@ "home" :> Is("groups", "home", <<>>)
    @@ "food" :> Is("categories", "food", [group |-> "home"])
    @@ "shop" :> Is("payees", "shop", [account |-> None])
    @@ "owner" :> Is("payees", "loan", [account |-> "loan"])
    @@ "may" :> Is("cycles", "", [account |-> "bank"])
    @@ "t1" :> Txn("bank", "food", "shop", "may") @@ "t2" :> Txn("loan", None, "owner", None)
    @@ "l1" :> Is("links", "", [from |-> "t1", to |-> "t2"])
    @@ "emi" :> Is("loanAttachments", "", [loan |-> "loan", transaction |-> "t1"])
    @@ "sched" :> Is("loanSchedules", "", [loan |-> "loan"])
    @@ "moved" :> Is("loanTransfers", "", [from |-> "loan", to |-> "bank"])
    @@ "paid" :> Is("loanDisbursements", "", [loan |-> "loan", transaction |-> "t2"])
    @@ "rent" :> Is("series", "", [category |-> "food", payee |-> None])
    @@ "now" :> Is("terms", "", [series |-> "rent", account |-> "bank"])
    @@ "hit" :> Is("seriesAttachments", "", [series |-> "rent", transaction |-> "t1"])
    @@ "rule" :> RuleOn("food", None, "bank", "salary", "shop")

MCDrafts == {<<"june", Is("cycles", "", [account |-> "loan"])>>,
             <<"t1", Txn("loan", "salary", None, "june")>>,
             <<"garden", Is("categories", "garden", [group |-> "home"])>>,
             <<"t2", Txn("bank", "garden", "shop", "may")>>}

\* Two payees of a name, two defaults, a cycle of another account, and
\* references to what is not there.
Older ==
    "prefs" :> Is("settings", "old", <<>>)
    @@ "x" :> Standing(TRUE) @@ "y" :> Standing(TRUE)
    @@ "lost" :> Is("categories", "lost", [group |-> "nowhere"])
    @@ "p1" :> Is("payees", "shop", [account |-> None]) @@ "p2" :> Is("payees", "shop", [account |-> "x"])
    @@ "p3" :> Is("payees", "shop", [account |-> "y"])
    @@ "k" :> Is("cycles", "", [account |-> "y"]) @@ "k2" :> Is("cycles", "", [account |-> "z"])
    @@ "u" :> Txn("x", "lost", "p1", "k") @@ "v" :> Txn("z", None, None, None)
    @@ "l" :> Is("links", "", [from |-> "u", to |-> "v"])
    @@ "r" :> RuleOn("nothing", None, None, None, None)
    @@ "r2" :> RuleOn("lost", "p1", "z", "nothing", "p3")
MCBundles == {Older, "w" :> Standing(FALSE), "a" :> Standing(FALSE) @@ "bad" :> Txn("a", None, None, None)}

Fresh == "prefs" :> Is("settings", "mine", <<>>)
MCHomes == {Instance @@ Fresh,
            Instance @@ Fresh @@ "g" :> Is("groups", "home", <<>>)
                @@ "c" :> Is("categories", "food", [group |-> "g"])
                @@ "i" :> Is("groups", "Imported", <<>>),
            Fresh @@ "p" :> Is("payees", "shop", [account |-> None])}
=============================================================================
