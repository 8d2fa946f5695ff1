------------------------------ MODULE MCOutbox ------------------------------
(* Instances of Outbox for TLC.                                            *)
EXTENDS Outbox, TLC

AllKinds  == {"create", "edit", "bulk"}
Interchangeable == Permutations(Keys) \cup Permutations(Rows) \cup Permutations(Tabs)
=============================================================================
