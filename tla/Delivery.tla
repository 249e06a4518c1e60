------------------------------ MODULE Delivery ------------------------------
(***************************************************************************)
(* Delivery to several MMEs: delivery.Publisher.Publish, which sends every *)
(* message of a plan to every peer in configured order and gives up at the *)
(* first failure; service.Ingest, which makes the alert active only after  *)
(* that; and handleRestart, which runs beside them, on its own goroutine   *)
(* and from its own reading of the database, when an eNB has restarted.    *)
(*                                                                         *)
(* sendAndAwait is one step here (MmeAssociation has its details): the     *)
(* request is carried out or not and the caller learns of success or       *)
(* failure, a failure saying nothing about which.  Serial allocation is    *)
(* CbsSerial's with one message per alert, so that the allocation key is   *)
(* an alert and a scope.  Every attempt resolves the alert's areas anew:   *)
(* what they come to is a choice.  What MMEs and eNBs do is external.      *)
(***************************************************************************)
EXTENDS Integers, Sequences

CONSTANTS
    Ids,          \* CAP identifiers
    Cells,        \* the cells of every peer
    Alerts,       \* the CAP messages the CBE may deliver, again and again; one per identifier
    NumPeers,     \* configured MME peers
    MaxNumber,    \* bound on the update number, below the 4-bit wrap-around
    MaxRestarts,  \* bound on eNB restarts
    None

Peers == 1..NumPeers

Scopes == {"plmn", "tracking_area", "cell"}

\* What areas resolve to: a scope, and the cells the message is then meant for.
Targets == {t \in [scope : Scopes, area : SUBSET Cells] : t.scope = "plmn" => t.area = Cells}

\* targets: what the areas may resolve to, with what inventory and tags hold at
\* the time.
CapMessages == [id : Ids, msgType : {"Alert", "Update", "Cancel"}, refs : Seq(Ids),
                targets : SUBSET Targets]

\* A message code is known by the key of its allocation.
Codes == [root : Ids, scope : Scopes]

\* A CBS message: code and number stand for its identifier and serial number,
\* of for its text.
Messages == [of : Ids, code : Codes, number : 0..MaxNumber, area : SUBSET Cells]

\* What one cell broadcasts of it.
Broadcasts == [of : Ids, code : Codes, number : 0..MaxNumber, cell : Cells]

ASSUME ConstantsAssumption ==
    /\ Alerts \subseteq CapMessages
    /\ \A a, b \in Alerts : a.id = b.id => a = b
    /\ NumPeers \in Nat \ {0} /\ MaxNumber \in Nat /\ MaxRestarts \in Nat
    /\ None \notin Messages /\ None \notin Nat /\ None \notin Ids

VARIABLES
    state,     \* table alerts: the state of a row, "none" without one
    number,    \* table cbs_allocations: the update number of a code, None without a row
    plans,     \* table cbs_plans
    publish,   \* the Ingest call in progress: its alert and the next send, or None
    handler,   \* per peer, the handleRestart call in progress, or None
    air,       \* per peer, what its cells broadcast
    restarts,  \* eNB restarts so far
    tried      \* history: the targets an alert's plans have had

vars == <<state, number, plans, publish, handler, air, restarts, tried>>

Init ==
    /\ state = [x \in Ids |-> "none"]
    /\ number = [k \in Codes |-> None]
    /\ plans = [x \in Ids |-> None]
    /\ publish = None
    /\ handler = [p \in Peers |-> None]
    /\ air = [p \in Peers |-> {}]
    /\ restarts = 0
    /\ tried = [x \in Ids |-> {}]

-----------------------------------------------------------------------------
(* What an MME does with a request: external *)

Broadcast(m, c) == [of |-> m.of, code |-> m.code, number |-> m.number, cell |-> c]

\* m is about the message code and the cell of broadcast b.
Covers(m, b) == m # None /\ b.code = m.code /\ b.cell \in m.area

\* A Stop for m ends broadcast b: it names exactly its serial number.
Stops(m, b) == Covers(m, b) /\ b.number = m.number

\* A Write-Replace replaces, in its cells, the broadcast with the same code.
OnWrite(m, S) == {b \in S : ~Covers(m, b)} \cup {Broadcast(m, c) : c \in m.area}

OnStop(m, S) == {b \in S : ~Stops(m, b)}

-----------------------------------------------------------------------------
(* Publish *)

IsUpdate(a) == a.msgType = "Update" /\ a.refs # <<>>

\* The alert in the allocation key of a message.
Root(a) == IF IsUpdate(a) THEN a.refs[1] ELSE a.id

\* The allocation key of an attempt whose areas resolve to target t.
Key(a, t) == [root |-> Root(a), scope |-> t.scope]

\* The update number AllocateCBSSerial gives out: every call of an update that
\* finds a row counts, the retry of a refused one too.
NumberAfter(a, t) ==
    IF number[Key(a, t)] = None THEN 0
    ELSE IF IsUpdate(a) THEN number[Key(a, t)] + 1 ELSE number[Key(a, t)]

\* Faulty variant: the allocation key lacks the alert.
PreparedWithoutKey(a, t) ==
    [of |-> a.id, code |-> [root |-> CHOOSE x \in Ids : TRUE, scope |-> t.scope],
     number |-> NumberAfter(a, t), area |-> t.area]

Prepared(a, t) ==
    [of |-> a.id, code |-> Key(a, t), number |-> NumberAfter(a, t), area |-> t.area]

\* Faulty variant: only the first reference of a Cancel is stopped.
FirstPlanToSend(a) ==
    IF a.msgType = "Cancel" THEN SubSeq(a.refs, 1, 1) ELSE <<a.id>>

\* The plans Publish sends, in order: its own, or for a Cancel those of its
\* references.
PlansToSend(a) == IF a.msgType = "Cancel" THEN a.refs ELSE <<a.id>>

Current == plans[PlansToSend(publish.alert)[publish.plan]]

Carry(p) ==
    air' = [air EXCEPT ![p] = IF publish.alert.msgType = "Cancel"
                              THEN OnStop(Current, @) ELSE OnWrite(Current, @)]

Sending == publish # None /\ publish.plan <= Len(PlansToSend(publish.alert))

\* Faulty variant: the plan of the alert an update replaces is dropped at once.
PublishBeginReplaces(a) ==
    /\ publish = None
    /\ state[a.id] = "none"
    /\ IF a.msgType = "Cancel"
       THEN UNCHANGED <<number, plans, tried>>
       ELSE \E t \in a.targets :
            /\ NumberAfter(a, t) <= MaxNumber
            /\ number' = [number EXCEPT ![Key(a, t)] = NumberAfter(a, t)]
            /\ plans' = [plans EXCEPT ![Root(a)] = None, ![a.id] = Prepared(a, t)]
            /\ tried' = [tried EXCEPT ![a.id] = @ \cup {t}]
    /\ publish' = [alert |-> a, plan |-> 1, peer |-> 1]
    /\ UNCHANGED <<state, handler, air, restarts>>

\* Ingest lets the message pass and, unless it is a Cancel, Prepare resolves its
\* areas and stores its plan, in the place of an earlier attempt's.
PublishBegin(a) ==
    /\ publish = None
    /\ state[a.id] = "none"
    /\ IF a.msgType = "Cancel"
       THEN UNCHANGED <<number, plans, tried>>
       ELSE \E t \in a.targets :
            /\ NumberAfter(a, t) <= MaxNumber
            /\ number' = [number EXCEPT ![Key(a, t)] = NumberAfter(a, t)]
            /\ plans' = [plans EXCEPT ![a.id] = Prepared(a, t)]
            /\ tried' = [tried EXCEPT ![a.id] = @ \cup {t}]
    /\ publish' = [alert |-> a, plan |-> 1, peer |-> 1]
    /\ UNCHANGED <<state, handler, air, restarts>>

\* send is told of success and goes on to the next peer, or to the next plan.
SendAccepted ==
    /\ Sending /\ Current # None
    /\ Carry(publish.peer)
    /\ publish' = IF publish.peer < NumPeers
                  THEN [publish EXCEPT !.peer = @ + 1]
                  ELSE [publish EXCEPT !.plan = @ + 1, !.peer = 1]
    /\ UNCHANGED <<state, number, plans, handler, restarts, tried>>

\* Faulty variant: an error is logged and the next peer tried.
SendFailsOn ==
    /\ Sending /\ Current # None
    /\ publish' = IF publish.peer < NumPeers
                  THEN [publish EXCEPT !.peer = @ + 1]
                  ELSE [publish EXCEPT !.plan = @ + 1, !.peer = 1]
    /\ Carry(publish.peer) \/ UNCHANGED air
    /\ UNCHANGED <<state, number, plans, handler, restarts, tried>>

\* send fails: not connected, rejected, timed out or lost, with or without the
\* MME having carried it out.  Publish returns the error and Ingest ends; so
\* it does when a reference of a Cancel has no plan.
SendFails ==
    /\ Sending
    /\ publish' = None
    /\ UNCHANGED air \/ (Current # None /\ Carry(publish.peer))
    /\ UNCHANGED <<state, number, plans, handler, restarts, tried>>

ReferenceState(a) == IF a.msgType = "Cancel" THEN "cancelled" ELSE "superseded"

\* Faulty variant: the message type is stored.
OwnStateByType(a) == IF a.msgType = "Cancel" THEN "Cancel" ELSE "active"

OwnState(a) == IF a.msgType = "Cancel" THEN "cancelled" ELSE "active"

\* Store.Upsert: the row of the alert, then the active ones among its references.
Upsert(a) ==
    LET own == [state EXCEPT ![a.id] = OwnState(a)]
    IN  [x \in Ids |-> IF own[x] = "active" /\ \E i \in 1..Len(a.refs) : a.refs[i] = x
                       THEN ReferenceState(a) ELSE own[x]]

\* Everything was sent: the alert becomes durable state.
PublishEnd ==
    /\ publish # None /\ ~Sending
    /\ state' = Upsert(publish.alert)
    /\ publish' = None
    /\ UNCHANGED <<number, plans, handler, air, restarts, tried>>

-----------------------------------------------------------------------------
(* eNB restarts *)

\* An eNB of peer p restarts and loses its broadcasts; the MME indicates it
\* and readLoop starts handleRestart.  External but for the last part.  (One
\* eNB per peer, and one handler at a time.)
EnbRestarts(p) ==
    /\ restarts < MaxRestarts /\ handler[p] = None
    /\ restarts' = restarts + 1
    /\ air' = [air EXCEPT ![p] = {}]
    /\ handler' = [handler EXCEPT ![p] = [phase |-> "load", todo |-> {}, msg |-> None]]
    /\ UNCHANGED <<state, number, plans, publish, tried>>

\* LoadAlerts: the rows that are active now.
LoadAlerts(p) ==
    /\ handler[p] # None /\ handler[p].phase = "load"
    /\ handler' = [handler EXCEPT ![p] =
         [phase |-> "loop", todo |-> {x \in Ids : state[x] = "active"}, msg |-> None]]
    /\ UNCHANGED <<state, number, plans, publish, air, restarts, tried>>

\* The next of them: its plan is read, and narrowed to the restarted cells.  A
\* PLMN-wide message is passed over.  (Any order; the code has that of receipt.)
NextRecord(p, x) ==
    /\ handler[p] # None /\ handler[p].phase = "loop"
    /\ x \in handler[p].todo /\ handler[p].msg = None
    /\ handler' = [handler EXCEPT ![p] =
         [phase |-> "loop", todo |-> @.todo \ {x},
          msg |-> IF plans[x] = None \/ plans[x].code.scope = "plmn" THEN None ELSE plans[x]]]
    /\ UNCHANGED <<state, number, plans, publish, air, restarts, tried>>

\* Its re-broadcast is carried out or not; an error is logged and the loop goes on.
Rebroadcast(p) ==
    /\ handler[p] # None /\ handler[p].msg # None
    /\ air' = [air EXCEPT ![p] = OnWrite(handler[p].msg, @)] \/ UNCHANGED air
    /\ handler' = [handler EXCEPT ![p].msg = None]
    /\ UNCHANGED <<state, number, plans, publish, restarts, tried>>

HandlerEnds(p) ==
    /\ handler[p] # None /\ handler[p].phase = "loop"
    /\ handler[p].todo = {} /\ handler[p].msg = None
    /\ handler' = [handler EXCEPT ![p] = None]
    /\ UNCHANGED <<state, number, plans, publish, air, restarts, tried>>

-----------------------------------------------------------------------------

\* Store.Expire removes an active row.  The plan stays; nothing is sent.
Expire(x) ==
    /\ state[x] = "active"
    /\ state' = [state EXCEPT ![x] = "none"]
    /\ UNCHANGED <<number, plans, publish, handler, air, restarts, tried>>

\* The process dies and is restarted on its database.
Crash ==
    /\ publish # None \/ \E p \in Peers : handler[p] # None
    /\ publish' = None
    /\ handler' = [p \in Peers |-> None]
    /\ UNCHANGED <<state, number, plans, air, restarts, tried>>

Next ==
    \/ \E a \in Alerts : PublishBegin(a)
    \/ SendAccepted \/ SendFails \/ PublishEnd
    \/ \E p \in Peers : \/ EnbRestarts(p) \/ LoadAlerts(p)
                        \/ Rebroadcast(p) \/ HandlerEnds(p)
                        \/ \E x \in Ids : NextRecord(p, x)
    \/ \E x \in Ids : Expire(x)
    \/ Crash

Spec == Init /\ [][Next]_vars

-----------------------------------------------------------------------------
(* Properties *)

\* Tables, calls and broadcasts are well formed.
TypeOK ==
    /\ state \in [Ids -> {"none", "active", "superseded", "cancelled"}]
    /\ number \in [Codes -> 0..MaxNumber \cup {None}]
    /\ plans \in [Ids -> Messages \cup {None}]
    /\ publish \in [alert : Alerts, plan : Nat, peer : Peers] \cup {None}
    /\ handler \in [Peers -> [phase : {"load", "loop"}, todo : SUBSET Ids,
                              msg : Messages \cup {None}] \cup {None}]
    /\ air \in [Peers -> SUBSET Broadcasts]
    /\ restarts \in 0..MaxRestarts
    /\ tried \in [Ids -> SUBSET Targets]

\* Peer p broadcasts message m wherever it is meant.
Carries(p, m) == \A c \in m.area : Broadcast(m, c) \in air[p]

\* The step makes no alert active that some MME does not carry.
ActivatedOnceCarried ==
    \A x \in Ids :
        restarts = 0 /\ state[x] # "active" /\ state'[x] = "active"
        => \A p \in Peers : Carries(p, plans[x])

\* "An alert that cannot be prepared for safe CBS delivery must not become
\* active state": when an alert becomes active every MME carries it in all its
\* cells, whatever failed, was retried or crashed before.  (As long as no eNB
\* restarts: one that does before the alert is active is not sent it again.)
ActivatedEverywhere == [][ActivatedOnceCarried]_vars

\* A Cancel that was accepted took its references off the air at every peer,
\* and no retry, update or late message brings them back.
CancelledIsOff ==
    \A x \in Ids, p \in Peers :
        state[x] = "cancelled" => \A b \in air[p] : b.of # x

\* Two attempts at x resolved its areas to different targets.
Retargeted(x) == \E t, u \in tried[x] : t # u

\* What is on the air outside the scope or the cells of its alert's stored plan:
\* left by an earlier attempt, whose target was another one.
LeftByOtherTarget(b) == Retargeted(b.of) /\ ~Covers(plans[b.of], b)

\* As long as no eNB restarts, a cancelled alert is off the air at every peer but
\* for what an attempt at it with another target left there: all that its last
\* plan covers is gone, whatever was refused, retried or crashed before.
CancelledStaysOff ==
    restarts = 0 =>
        \A p \in Peers : \A b \in air[p] :
            state[b.of] = "cancelled" => LeftByOtherTarget(b)

References(a) == {a.refs[i] : i \in 1..Len(a.refs)}

\* The message codes that a delivery may replace or stop.
CodesOf(a) ==
    IF a.msgType = "Cancel" THEN {plans[y].code : y \in {r \in References(a) : plans[r] # None}}
    ELSE {k \in Codes : k.root = Root(a)}

\* The step takes the broadcast of an active alert off the air only in the
\* course of its own chain.
LostToOwnChain ==
    \A x \in Ids, p \in Peers :
        state[x] = "active" /\ Carries(p, plans[x]) /\ ~Carries(p, plans[x])'
        => \/ restarts' # restarts
           \/ handler[p] # None /\ handler[p].msg # None /\ handler[p].msg.code = plans[x].code
           \/ publish # None /\ plans[x].code \in CodesOf(publish.alert)

\* An active alert loses its broadcast at a peer only while a CAP message of
\* its own chain (one that replaces its message code, or cancels an alert that
\* has it) is being delivered, or, late, sent again after a restart, or because
\* an eNB of the peer restarted: never to an unrelated alert, a crash or an
\* expiry.  (That chain is wide: the Cancel of an update that was refused stops
\* the alert it was to update, if that was delivered after it.)
ActiveKeepsBroadcast == [][LostToOwnChain]_vars

\* Whatever is on the air, some stored plan has its serial number and its cell,
\* so that a Cancel can stop it: the plan is durable before delivery and,
\* whenever no delivery is going on, true of what was delivered.
Stoppable ==
    publish = None => \A p \in Peers : \A b \in air[p] : \E x \in Ids : Stops(plans[x], b)

\* The same for what belongs to an alert that was accepted, now or before it
\* was replaced, as long as no eNB restarts, and for a message code that was
\* never renumbered, restarts or not, but for what an attempt with another
\* target left: no retry, crash or expiry takes the serial number of such a
\* broadcast from the stored plans.
AcceptedIsStoppable ==
    publish = None => \A p \in Peers : \A b \in air[p] :
        \/ restarts = 0 /\ state[b.of] \in {"active", "superseded", "cancelled"}
        \/ number[b.code] = 0
        => LeftByOtherTarget(b) \/ \E x \in Ids : Stops(plans[x], b)

=============================================================================
