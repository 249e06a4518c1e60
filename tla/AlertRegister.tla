--------------------------- MODULE AlertRegister ---------------------------
(***************************************************************************)
(* What service and store promise together: one register of alerts that    *)
(* outlives the process, changed in one step by every message accepted and *)
(* by every expiry.  AlertLifecycle implements it with two copies, the     *)
(* table and the index, that it writes one after the other.                *)
(***************************************************************************)
EXTENDS Integers

CONSTANTS Ids, Alerts, None

VARIABLES
    view,   \* what the operator sees
    clock

Record(a, state) == [cap |-> a, state |-> state]

\* The register before anything happened: at most one leftover, expired.
RegisterInit ==
    /\ clock \in Nat
    /\ \/ view = [x \in Ids |-> None]
       \/ \E a \in Alerts :
            /\ a.expires # None /\ a.expires <= clock
            /\ view = [x \in Ids |-> IF x = a.id THEN Record(a, "expired") ELSE None]

\* A message that is not there yet gets its record, and the active ones among
\* its references are marked, all at once.
Accept(a) ==
    /\ view[a.id] = None \/ view[a.id].cap # a
    /\ view' = [x \in Ids |->
                 CASE x = a.id -> Record(a, IF a.msgType = "Cancel" THEN "cancelled" ELSE "active")
                   [] x # a.id /\ x \in a.refs /\ view[x] # None /\ view[x].state = "active" ->
                        Record(view[x].cap, IF a.msgType = "Cancel" THEN "cancelled" ELSE "superseded")
                   [] OTHER -> view[x]]
    /\ UNCHANGED clock

\* Alerts past their expiry go; what was superseded or cancelled stays.
Remove(S) ==
    /\ \A x \in S : /\ view[x] # None
                    /\ view[x].state \in {"active", "expired"}
                    /\ view[x].cap.expires # None
                    /\ view[x].cap.expires <= clock
    /\ view' = [x \in Ids |-> IF x \in S THEN None ELSE view[x]]
    /\ UNCHANGED clock

TimePasses == clock' = clock + 1 /\ UNCHANGED view

RegisterNext ==
    \/ \E a \in Alerts : Accept(a)
    \/ \E S \in SUBSET Ids : Remove(S)
    \/ TimePasses

RegisterSpec == RegisterInit /\ [][RegisterNext]_<<view, clock>>

=============================================================================
