---------------------------- MODULE MCOutboxSync ----------------------------
(* Instances of OutboxSync for TLC.                                        *)
EXTENDS OutboxSync, TLC

AllKinds  == {"create", "edit", "bulk"}
=============================================================================
