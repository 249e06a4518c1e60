------------------------ MODULE MC_AlertLifecycle ------------------------
(***************************************************************************)
(* Instances of AlertLifecycle: an alert x, an update y of x and a cancel  *)
(* z of both; the same with an alert written with a UTC offset.            *)
(***************************************************************************)
EXTENDS AlertLifecycle

CONSTANTS x, y, z

MCIds == {x, y, z}

Cap(id, sent, msgType, refs, expires, offset) ==
    [id |-> id, sent |-> sent, msgType |-> msgType, refs |-> refs,
     expires |-> expires, offset |-> offset]

\* One message per identifier.
ChainAlerts == {
    Cap(x, 1, "Alert", {}, 1, 0),
    Cap(y, 1, "Update", {x}, 2, 0),
    Cap(z, 1, "Cancel", {x, y}, None, 0)}

\* Written an hour behind UTC.
OffsetAlerts == ChainAlerts \cup {Cap(x, 1, "Alert", {}, 2, -1)}
=============================================================================
