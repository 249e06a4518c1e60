--------------------------- MODULE MC_CbsSerial ---------------------------
(***************************************************************************)
(* An instance of CbsSerial: two alerts a and c; b, an update of a, which  *)
(* may not be classified, or an update that references nothing and so has  *)
(* an allocation of its own, whose second info block does not encode.      *)
(* Three allocation keys compete for the two codes of a scope.             *)
(***************************************************************************)
EXTENDS CbsSerial

CONSTANTS a, b, c, m

MCIds == {a, b, c}

Good == [mid |-> m, encodable |-> TRUE]
TooLong == [mid |-> m, encodable |-> FALSE]
Unclassified == [mid |-> None, encodable |-> TRUE]

Cap(id, msgType, refs, infos) ==
    [id |-> id, msgType |-> msgType, refs |-> refs, infos |-> infos]

MCAlerts == {
    Cap(a, "Alert", <<>>, <<Good>>),
    Cap(b, "Update", <<a>>, <<Good>>),
    Cap(b, "Update", <<>>, <<Good, TooLong>>),
    Cap(b, "Update", <<a>>, <<Unclassified>>),
    Cap(c, "Alert", <<>>, <<Good>>)}
=============================================================================
