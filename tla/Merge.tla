-------------------------------- MODULE Merge --------------------------------
(***************************************************************************)
(* The three-way merge of an offline edit (frontend/src/api/merge.ts), as  *)
(* operators over patches.  A patch gives every field of a row a value; a  *)
(* field the patch does not carry is Absent (JavaScript's undefined), and  *)
(* a field the user cleared is Cleared (null).  Rows read from the server  *)
(* go through `project` of frontend/src/api/projections.ts, which leaves a *)
(* null column off: no row read from the server holds Cleared.  Only the   *)
(* user's side does.                                                       *)
(*                                                                         *)
(* The engine compares values and does nothing else with them, so values   *)
(* are opaque here; collections, which it compares as sets, are values.    *)
(***************************************************************************)

CONSTANTS
    Fields,     \* the mergeable fields of a row
    Values,     \* what a field can hold
    Absent,     \* the patch does not carry the field
    Cleared     \* the user emptied the field

ASSUME DistinctMarks == Absent # Cleared /\ {Absent, Cleared} \cap Values = {}

RowValues   == Values \cup {Absent}              \* of a row of the server
PatchValues == Values \cup {Absent, Cleared}     \* of the user's side

Row   == [Fields -> RowValues]
Patch == [Fields -> PatchValues]

NoPatch == [f \in Fields |-> Absent]

Carried(patch) == {f \in Fields : patch[f] # Absent}

Project(v) == IF v = Cleared THEN Absent ELSE v

(* The fields of `mine` worth sending: changed against the base, and not   *)
(* the clearing of a field that held nothing.                              *)
DiffAgainstBase(base, mine) ==
    [f \in Fields |->
        IF mine[f] = base[f] \/ (mine[f] = Cleared /\ base[f] = Absent)
        THEN Absent ELSE mine[f]]

(* Whose value a field ends with: the four rules of mergeFields, in order. *)
UserChanged(b, m) == m # Absent /\ m # b

MineWins(b, m, t) ==                    \* what if the last writer won
    IF ~UserChanged(b, m) THEN "theirs" ELSE "mine"

Verdict(b, m, t) ==
    IF ~UserChanged(b, m) THEN "theirs"
    ELSE IF t = b         THEN "mine"
    ELSE IF m = t         THEN "agree"
                          ELSE "conflict"

Conflicts(base, mine, theirs) ==
    {f \in Fields : Verdict(base[f], mine[f], theirs[f]) = "conflict"}

(* The patch mergeFields answers, which carries no conflicting field.      *)
Merged(base, mine, theirs) ==
    [f \in Fields |->
        LET verdict == Verdict(base[f], mine[f], theirs[f])
        IN  IF verdict = "mine" THEN mine[f]
            ELSE IF verdict = "conflict" THEN Absent ELSE theirs[f]]

(* A row after a PATCH: the fields the body names, and no other.           *)
Overlay(row, patch) ==
    [f \in Fields |-> IF patch[f] = Absent THEN row[f] ELSE Project(patch[f])]
=============================================================================
