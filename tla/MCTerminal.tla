----------------------------- MODULE MCTerminal -----------------------------
(* Terminal, on each screen beside the ledger list, and longer on some alone. *)
EXTENDS Terminal

Tour(first, others, k, f) ==
    [first |-> first, screens |-> {first} \cup others, keys |-> k, faults |-> f]

\* Beside the ledger; with more keys where there are panes or batches; and
\* with stale tokens and failures.
Paired == {Tour(s, {"transactions"}, 3, 0) : s \in Screens}
Alone == {Tour(s, {}, 4, 0) : s \in {"links", "import"}}
Troubled == {Tour("accounts", {"transactions"}, 1, 3), Tour("payees", {}, 1, 3),
             Tour("settings", {"transactions"}, 1, 2), Tour("payees", {}, 2, 1),
             Tour("import", {}, 2, 1)}
MCTours == Paired \cup Alone \cup Troubled
=============================================================================
