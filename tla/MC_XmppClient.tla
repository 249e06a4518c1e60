--------------------------- MODULE MC_XmppClient ---------------------------
(***************************************************************************)
(* An instance of XmppClient: an alert, a Cancel without an info block and *)
(* an Update that lacks the one it needs.                                  *)
(***************************************************************************)
EXTENDS XmppClient

Cap(id, msgType, infos) ==
    [id |-> id, header |-> TRUE, sentParses |-> TRUE, msgType |-> msgType, infos |-> infos]

MCAlerts == {Cap(1, "Alert", <<"time">>), Cap(2, "Cancel", <<>>), Cap(3, "Update", <<>>)}
=============================================================================
