---------------------------- MODULE MC_Delivery ----------------------------
(***************************************************************************)
(* Instances of Delivery with two peers: an alert x, an update y of x; an  *)
(* alert w of its own, broadcast PLMN-wide; a cancel z of y and w, and a   *)
(* cancel v of x and w.  In RetargetedAlerts the areas of x and y resolve  *)
(* now to one target and now to another: those of x to no cell, so that it *)
(* is broadcast PLMN-wide, those of y to another cell.                     *)
(***************************************************************************)
EXTENDS Delivery

CONSTANTS c, d, v, w, x, y, z

Cap(id, msgType, refs, targets) ==
    [id |-> id, msgType |-> msgType, refs |-> refs, targets |-> targets]

Target(scope, area) == [scope |-> scope, area |-> area]

PlmnWide == Target("plmn", {c, d})

UpdatedIds == {w, x, y, z}
UpdatedAlerts == {
    Cap(w, "Alert", <<>>, {PlmnWide}),
    Cap(x, "Alert", <<>>, {Target("cell", {c})}),
    Cap(y, "Update", <<x>>, {Target("cell", {c})}),
    Cap(z, "Cancel", <<y, w>>, {})}

RetargetedAlerts == {
    Cap(w, "Alert", <<>>, {PlmnWide}),
    Cap(x, "Alert", <<>>, {Target("cell", {c}), PlmnWide}),
    Cap(y, "Update", <<x>>, {Target("cell", {c}), Target("cell", {d})}),
    Cap(z, "Cancel", <<y, w>>, {})}

\* Areas resolve differently, or eNBs restart: both together have too many states.
RetargetedOrRestarted ==
    restarts = 0 \/ tried[x] \cup tried[y] \subseteq {Target("cell", {c})}

CancelledIds == {v, w, x}
CancelledAlerts == {
    Cap(w, "Alert", <<>>, {PlmnWide}),
    Cap(x, "Alert", <<>>, {Target("cell", {c})}),
    Cap(v, "Cancel", <<x, w>>, {})}
=============================================================================
