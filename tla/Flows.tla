-------------------------------- MODULE Flows --------------------------------
(***************************************************************************)
(* The account-to-account part of the money-flow graph                     *)
(* (backend/handlers/money_flow.go: analyzeAccountFlows): what flowed      *)
(* between each pair of accounts is netted against its reverse, and what   *)
(* still closes a loop is left out, each loop reported with what it cost.  *)
(*                                                                         *)
(* An amount holds one number per currency, 0 where it holds none.  Nodes  *)
(* are numbers in the order of the account ids.                            *)
(***************************************************************************)
EXTENDS Integers, FiniteSets, SequencesExt

CONSTANTS Nodes, Currencies     \* sets of numbers

Amount == [Currencies -> Nat]

Nothing == [k \in Currencies |-> 0]

Plus(x, y) == [k \in Currencies |-> x[k] + y[k]]

Minus(x, y) == [k \in Currencies |-> x[k] - y[k]]

Larger(x, y) == [k \in Currencies |-> IF x[k] > y[k] THEN x[k] ELSE y[k]]

\* What the amounts f come to over S.
Total(f, S) == FoldSet(LAMBDA s, t : Plus(f[s], t), Nothing, S)

Pairs == {<<n, m>> : n, m \in Nodes} \ {<<n, n>> : n \in Nodes}

Opposite(p) == <<p[2], p[1]>>

\* netFlowAmounts: a currency cancels only against itself.
Netted(gross, p) ==
    [k \in Currencies |->
        IF gross[p][k] > gross[Opposite(p)][k] THEN gross[p][k] - gross[Opposite(p)][k] ELSE 0]

Flowing(gross) == {p \in Pairs : gross[p] # Nothing}

Surviving(gross) == {p \in Pairs : Netted(gross, p) # Nothing}

\* A loop's legs, from each of its nodes to the next and back to the first.
Legs(nodes) ==
    {<<nodes[i], nodes[i + 1]>> : i \in 1 .. Len(nodes) - 1} \cup {<<nodes[Len(nodes)], nodes[1]>>}

\* Mutant of Index: the loop begins after the node that closes it.
IndexAfter(s, v) == (CHOOSE i \in DOMAIN s : s[i] = v) + 1

Index(s, v) == CHOOSE i \in DOMAIN s : s[i] = v

Reciprocal(gross) ==
    {p \in Flowing(gross) : p[1] < p[2] /\ Opposite(p) \in Flowing(gross)}

(* The depth-first walk, one pass of the code's loops at a time: the stack  *)
(* is that of the calls, left the edges their loops have still to take.     *)

NewWalk(edges) == [mark |-> [n \in Nodes |-> "new"], stack |-> <<>>, left |-> edges,
                   dropped |-> {}, loops |-> <<>>]

Enter(w, n) == [w EXCEPT !.mark[n] = "stacked", !.stack = Append(@, n)]

Leave(w) == [w EXCEPT !.mark[Last(w.stack)] = "done", !.stack = Front(@)]

\* An edge to a node on the stack is dropped, and the stack from that node on
\* is the loop it closes.
Take(w, p) ==
    LET taken == [w EXCEPT !.left = @ \ {p}]
    IN  CASE w.mark[p[2]] = "new" -> Enter(taken, p[2])
          [] w.mark[p[2]] = "done" -> taken
          [] w.mark[p[2]] = "stacked" ->
               [taken EXCEPT !.dropped = @ \cup {p},
                             !.loops = Append(@, SubSeq(w.stack, Index(w.stack, p[2]), Len(w.stack)))]

Roots(w) == {n \in Nodes : w.mark[n] = "new" /\ \E p \in w.left : p[1] = n}

Onward(w) == {n \in Nodes : <<Last(w.stack), n>> \in w.left}

Go(w) ==
    IF w.stack = <<>>
      THEN IF Roots(w) = {} THEN w ELSE Enter(w, Min(Roots(w)))
      ELSE IF Onward(w) = {} THEN Leave(w) ELSE Take(w, <<Last(w.stack), Min(Onward(w))>>)

\* A node is entered and left once, and an edge taken once.
Passes == 2 * Cardinality(Nodes) + Cardinality(Pairs)

Walk(gross) ==
    LET walk[n \in 0 .. Passes] == IF n = 0 THEN NewWalk(Surviving(gross)) ELSE Go(walk[n - 1])
    IN  walk[Passes]

\* What the graph draws of each pair.
Drawn(gross) ==
    LET dropped == Walk(gross).dropped
    IN  [p \in Pairs |-> IF p \in dropped THEN Nothing ELSE Netted(gross, p)]

\* The loops reported, one per set of nodes, pairs that flow both ways first.
Cycles(gross) ==
    LET all == SetToSeq(Reciprocal(gross)) \o Walk(gross).loops
    IN  {all[i] : i \in {j \in DOMAIN all : \A h \in 1 .. j - 1 : Range(all[h]) # Range(all[j])}}

\* What a leg reports as left out of the graph.
Discarded(gross, leg) == Minus(gross[leg], Drawn(gross)[leg])
=============================================================================
