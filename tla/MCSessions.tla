----------------------------- MODULE MCSessions -----------------------------
(* Instances of Sessions for TLC.                                          *)
EXTENDS Sessions, TLC

CONSTANTS d1, d2, d3, alice, bob, r1

OneDevice  == {d1}
OnlyAlice  == d1 :> alice
OneUser    == {alice}

ThreeDevices == {d1, d2, d3}
TwoUsers     == {alice, bob}
TwoAndOne    == d1 :> alice @@ d2 :> alice @@ d3 :> bob

AllOps   == Ops \ {"none"}
Rotation == {"login", "refresh", "logout"}
Faulty   == Rotation \cup {"revokeAll"}

Interchangeable ==
    Permutations(Families) \cup Permutations(Tokens) \cup Permutations(Requests)

(* Every request is answered, whatever the tabs race: rotateRefreshToken and *)
(* the revocations wait for row locks, and each wait ends.  The requests are *)
(* interchangeable, so one of them stands for all.                           *)
RequestsFinish == Finishes(r1)
=============================================================================
