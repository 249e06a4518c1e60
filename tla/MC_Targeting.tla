---------------------------- MODULE MC_Targeting ----------------------------
(***************************************************************************)
(* Instances of Targeting (and of Inventory within it).                    *)
(***************************************************************************)
EXTENDS Targeting, TLC

Home == "home"

Key(plmn, eci) == [plmn |-> plmn, eci |-> eci]
Row(ok, key, active, zones) == [ok |-> ok, key |-> key, active |-> active, zones |-> zones]

\* The operator may write a type in lower case.
CanonicalTags == [t \in {"SAME", "same"} |-> "SAME"]

\* Two faultless files that disagree about the cells, and one with a cell twice.
MCFiles == {
    <<Row(TRUE, Key(Home, 1), TRUE, {"zone"}), Row(TRUE, Key(Home, 2), TRUE, {})>>,
    <<Row(TRUE, Key(Home, 2), TRUE, {"zone"})>>,
    <<Row(TRUE, Key(Home, 1), TRUE, {}), Row(TRUE, Key(Home, 1), TRUE, {"zone"})>>}

MCTagFiles == {<<[key |-> Key(Home, 1), tag |-> "same"], [key |-> Key(Home, 2), tag |-> "SAME"]>>}

\* A polygon and a geocode; a geocode beside a tracking area.
MCRequests == {
    [cells |-> {}, tais |-> FALSE, shapes |-> <<"zone">>, codes |-> <<"same">>],
    [cells |-> {}, tais |-> TRUE, shapes |-> <<>>, codes |-> <<"SAME">>]}

\* Entered by hand: the first cell, inactive, and the second.
MCForms == {Row(TRUE, Key(Home, 1), FALSE, {"zone"}), Row(TRUE, Key(Home, 2), TRUE, {"zone"})}

Symmetric == Permutations(Handlers)
=============================================================================
