---------------------------- MODULE SessionStore ----------------------------
(* What the two tables of backend/handlers/session.go and auth.go promise, *)
(* each operation in one step: a session has one owner for good and one    *)
(* line of refresh tokens, of which at most the last can be spent.         *)
(* Statements, row locks, cookies and faults are Sessions' business.       *)
EXTENDS FiniteSets

CONSTANTS Families, Tokens, Users, None

VARIABLES
    owner,      \* the user of each session, None before it is opened
    over,       \* the sessions that have been revoked
    family,     \* the session each token was issued for
    heir,       \* the token that took a spent token's place
    live        \* the one token of each session that can be spent

store == <<owner, over, family, heir, live>>

Init ==
    /\ owner = [f \in Families |-> None]
    /\ over = {}
    /\ family = [t \in Tokens |-> None]
    /\ heir = [t \in Tokens |-> None]
    /\ live = [f \in Families |-> None]

Open(f, u) ==
    /\ owner[f] = None
    /\ owner' = [owner EXCEPT ![f] = u]
    /\ UNCHANGED <<over, family, heir, live>>

(* The first token of a session.  No other is ever issued from nothing.    *)
Issue(f, t) ==
    /\ owner[f] # None
    /\ family[t] = None
    /\ \A s \in Tokens : family[s] # f
    /\ family' = [family EXCEPT ![t] = f]
    /\ live' = [live EXCEPT ![f] = t]
    /\ UNCHANGED <<owner, over, heir>>

(* Spending the live token makes its heir the live one, in one step.       *)
Rotate(f, n) ==
    /\ live[f] # None
    /\ family[n] = None
    /\ family' = [family EXCEPT ![n] = f]
    /\ heir' = [heir EXCEPT ![live[f]] = n]
    /\ live' = [live EXCEPT ![f] = n]
    /\ UNCHANGED <<owner, over>>

(* The line ends: nothing of the session can be spent again.               *)
Kill(f) ==
    /\ live[f] # None
    /\ live' = [live EXCEPT ![f] = None]
    /\ UNCHANGED <<owner, over, family, heir>>

(* Sessions of one user are revoked together, and stay revoked.  The line  *)
(* of a revoked session is killed by a step of its own, before or after.   *)
End(fs) ==
    /\ \E u \in Users : \A f \in fs : owner[f] = u
    /\ over' = over \cup fs
    /\ UNCHANGED <<owner, family, heir, live>>

Next ==
    \/ \E f \in Families, u \in Users : Open(f, u)
    \/ \E f \in Families, t \in Tokens : Issue(f, t) \/ Rotate(f, t)
    \/ \E f \in Families : Kill(f)
    \/ \E fs \in SUBSET Families : End(fs)

Spec == Init /\ [][Next]_store
=============================================================================
