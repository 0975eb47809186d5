--------------------------- MODULE MCRegistration ---------------------------
(* A small instance of Registration for TLC, in one of three settings, as  *)
(* no property is about everything at once: who edits (no divisions, no    *)
(* import), who plays (no staff, no import, no new names) and who is       *)
(* imported (no staff, no divisions).                                      *)
EXTENDS Registration, TLC

CONSTANTS x, y, d1, d2

VARIABLE setting

\* Ann is typed in two ways.
Lower(name) == IF name = "ANN" THEN "ann" ELSE name

\* Lists with a name typed twice, and one more name.
Pasted == {<<"ann", "ANN">>, <<"bob", "ann">>}

\* The accounts are called as players may be.
Name(a) == IF a = x THEN "ann" ELSE "bob"

NoDivisions == entrants' = <<>> /\ ("division" \in DOMAIN job' => job'.division = None)
NoImport == preview' = NoPreview
OneAccount == job'.step = "player" => job'.owner = x
NoStaff == \A i \in DOMAIN participants' : "staff" \notin participants'[i].roles
NoRenaming == \A p \in DOMAIN players : players'[p] = players[p]

Held ==
    \/ setting = "editors" /\ NoDivisions /\ NoImport /\ NoRenaming
    \/ setting = "divisions" /\ OneAccount /\ NoStaff /\ NoImport /\ NoRenaming
    \/ setting = "imports" /\ OneAccount /\ NoStaff /\ NoDivisions

MCInit ==
    /\ Init /\ setting \in {"editors", "divisions", "imports"}
    /\ setting = "editors" \/ playerOf[y] = NoAccount
MCNext == Next /\ Held /\ UNCHANGED setting
MCSpec == MCInit /\ [][MCNext]_<<vars, setting>>

Alike == Permutations({d1, d2})
=============================================================================
