--------------------------- MODULE Delivery_proof ---------------------------
(***************************************************************************)
(* Proofs about Delivery, for any alerts that have one message per         *)
(* identifier, any number of peers and any bounds.                         *)
(***************************************************************************)
EXTENDS Delivery, TLAPS

-----------------------------------------------------------------------------
(* The inductive invariant *)

\* The target m was prepared for.
TargetOf(m) == [scope |-> m.code.scope, area |-> m.area]

\* m was prepared for a CAP message that is no Cancel, under its allocation key,
\* with a number that was given out and for a target it was tried with; a plan
\* of the same alert is stored.
Genuine(m) ==
    /\ \E a \in Alerts : a.id = m.of /\ a.msgType # "Cancel" /\ m.code.root = Root(a)
    /\ number[m.code] # None /\ m.number <= number[m.code]
    /\ plans[m.of] # None /\ TargetOf(m) \in tried[m.of]

\* Plans, broadcasts and what handleRestart is about to send are genuine.
PlansInv == \A x \in Ids : plans[x] # None => plans[x].of = x /\ Genuine(plans[x])
GenuineAir(b) == \E m \in Messages : Genuine(m) /\ b.cell \in m.area /\ b = Broadcast(m, b.cell)
AirInv == \A p \in Peers : \A b \in air[p] : GenuineAir(b)
HandlerInv == \A p \in Peers : handler[p] # None /\ handler[p].msg # None => Genuine(handler[p].msg)

\* Handlers come with restarts.
QuietInv == restarts = 0 => \A p \in Peers : handler[p] = None

PlanCount(a) == Len(PlansToSend(a))

\* What Ingest found of its alert stays so during the call.
PublishInv ==
    publish # None =>
        /\ state[publish.alert.id] = "none"
        /\ publish.plan \in 1..(PlanCount(publish.alert) + 1)
        /\ publish.alert.msgType # "Cancel" => plans[publish.alert.id] # None

\* The call has sent its k-th plan to peer p.
Reached(k, p) == k < publish.plan \/ (k = publish.plan /\ p < publish.peer)

\* Peer p carries m, and nothing else with its message code in its cells.
CarriesOnly(p, m) ==
    Carries(p, m) /\ \A b \in air[p] : Covers(m, b) => b = Broadcast(m, b.cell)

\* The peers reached carry the plan in place of what had its message code.
WriteInv ==
    restarts = 0 /\ publish # None /\ publish.alert.msgType # "Cancel" =>
        \A p \in Peers : Reached(1, p) => CarriesOnly(p, plans[publish.alert.id])

\* b is nothing of alert x that its plan covers.
OffPlan(x, b) == b.of = x => ~Covers(plans[x], b)

\* The peers reached have nothing of an active reference on the air that its
\* plan covers.
StopInv ==
    restarts = 0 /\ publish # None /\ publish.alert.msgType = "Cancel" =>
        \A p \in Peers, k \in 1..Len(publish.alert.refs) :
            Reached(k, p) /\ state[publish.alert.refs[k]] = "active"
            => \A b \in air[p] : OffPlan(publish.alert.refs[k], b)

\* What the plan of an accepted alert covers of it has the plan's number.
TrueInv ==
    restarts = 0 =>
        \A p \in Peers : \A b \in air[p] :
            state[b.of] \in {"active", "superseded"} /\ Covers(plans[b.of], b)
            => b.number = plans[b.of].number

\* Nothing of a cancelled alert is on the air that its plan covers.
OffInv ==
    restarts = 0 =>
        \A p \in Peers : \A b \in air[p] : state[b.of] = "cancelled" => OffPlan(b.of, b)

IInv ==
    /\ TypeOK /\ PlansInv /\ AirInv /\ HandlerInv /\ QuietInv /\ PublishInv
    /\ WriteInv /\ StopInv /\ TrueInv /\ OffInv

-----------------------------------------------------------------------------
(* What the constants are *)

\* The parts of a CAP message.
LEMMA AlertTypes ==
    ASSUME NEW a \in Alerts
    PROVE  /\ a.id \in Ids /\ a.refs \in Seq(Ids) /\ a.targets \subseteq Targets
           /\ a.msgType \in {"Alert", "Update", "Cancel"}
           /\ Root(a) \in Ids
  <1>1. a \in CapMessages
    BY ConstantsAssumption
  <1>2. a.id \in Ids /\ a.refs \in Seq(Ids) /\ a.targets \subseteq Targets
        /\ a.msgType \in {"Alert", "Update", "Cancel"}
    BY <1>1 DEF CapMessages
  <1>3. a.refs # <<>> => a.refs[1] \in Ids
    BY <1>2
  <1>4. QED
    BY <1>2, <1>3 DEF Root, IsUpdate

\* A Cancel sends the plans of its references, any other message its own.
LEMMA PlansSent ==
    ASSUME NEW a \in Alerts
    PROVE  /\ PlanCount(a) \in Nat
           /\ a.msgType = "Cancel" => PlanCount(a) = Len(a.refs)
                                    /\ \A k \in 1..PlanCount(a) : PlansToSend(a)[k] = a.refs[k]
                                                                /\ a.refs[k] \in Ids
           /\ a.msgType # "Cancel" => PlanCount(a) = 1 /\ PlansToSend(a)[1] = a.id
  <1>1. a.refs \in Seq(Ids)
    BY AlertTypes
  <1>2. CASE a.msgType = "Cancel"
    BY <1>1, <1>2 DEF PlanCount, PlansToSend
  <1>3. CASE a.msgType # "Cancel"
    BY <1>3 DEF PlanCount, PlansToSend
  <1>4. QED
    BY <1>2, <1>3

\* The parts of a message.
LEMMA MessageTypes ==
    ASSUME NEW m \in Messages
    PROVE  /\ m.of \in Ids /\ m.code \in Codes /\ m.number \in Nat /\ m.area \subseteq Cells
           /\ m # None
  BY ConstantsAssumption DEF Messages

\* The parts of what a cell broadcasts.
LEMMA BroadcastTypes ==
    ASSUME NEW b \in Broadcasts
    PROVE  b.of \in Ids /\ b.code \in Codes /\ b.number \in Nat /\ b.cell \in Cells
  BY ConstantsAssumption DEF Broadcasts

\* What is broadcast of a message has its parts.
LEMMA BroadcastParts ==
    ASSUME NEW m, NEW e
    PROVE  /\ Broadcast(m, e).of = m.of /\ Broadcast(m, e).code = m.code
           /\ Broadcast(m, e).number = m.number /\ Broadcast(m, e).cell = e
  BY DEF Broadcast

\* The call in progress.
LEMMA PublishTypes ==
    ASSUME TypeOK, publish # None
    PROVE  publish.alert \in Alerts /\ publish.plan \in Nat /\ publish.peer \in Peers
  BY DEF TypeOK

\* The plan that is being sent.
LEMMA SendFacts ==
    ASSUME TypeOK, PublishInv, Sending
    PROVE  /\ publish # None /\ publish.alert \in Alerts /\ publish.peer \in Peers
           /\ publish.plan \in 1..PlanCount(publish.alert) /\ PlanCount(publish.alert) \in Nat
           /\ publish.alert.msgType # "Cancel" =>
                 publish.plan = 1 /\ Current = plans[publish.alert.id] /\ publish.alert.id \in Ids
           /\ publish.alert.msgType = "Cancel" =>
                 /\ publish.plan \in 1..Len(publish.alert.refs)
                 /\ Current = plans[publish.alert.refs[publish.plan]]
                 /\ publish.alert.refs[publish.plan] \in Ids
           /\ Current \in Messages \cup {None}
  <1>1. publish # None /\ publish.plan <= PlanCount(publish.alert)
    BY DEF Sending, PlanCount
  <1>2. publish.alert \in Alerts /\ publish.peer \in Peers
    BY <1>1, PublishTypes
  <1>3. /\ PlanCount(publish.alert) \in Nat
        /\ publish.alert.msgType = "Cancel" =>
              /\ PlanCount(publish.alert) = Len(publish.alert.refs)
              /\ \A k \in 1..PlanCount(publish.alert) :
                    PlansToSend(publish.alert)[k] = publish.alert.refs[k] /\ publish.alert.refs[k] \in Ids
        /\ publish.alert.msgType # "Cancel" =>
              PlanCount(publish.alert) = 1 /\ PlansToSend(publish.alert)[1] = publish.alert.id
        /\ publish.alert.id \in Ids
    BY <1>2, PlansSent, AlertTypes
  <1>4. publish.plan \in 1..PlanCount(publish.alert)
    BY <1>1, <1>3 DEF PublishInv
  <1>5. CASE publish.alert.msgType = "Cancel"
    <2>1. Current = plans[publish.alert.refs[publish.plan]] /\ publish.alert.refs[publish.plan] \in Ids
      BY <1>3, <1>4, <1>5 DEF Current
    <2>2. Current \in Messages \cup {None}
      BY <2>1 DEF TypeOK
    <2>3. publish.plan \in 1..Len(publish.alert.refs)
      BY <1>3, <1>4, <1>5
    <2>4. QED
      BY <1>1, <1>2, <1>3, <1>4, <1>5, <2>1, <2>2, <2>3
  <1>6. CASE publish.alert.msgType # "Cancel"
    <2>1. publish.plan = 1
      BY <1>3, <1>4, <1>6
    <2>2. Current = plans[publish.alert.id]
      BY <1>3, <1>6, <2>1 DEF Current
    <2>3. Current \in Messages \cup {None}
      BY <1>3, <2>2 DEF TypeOK
    <2>4. QED
      BY <1>1, <1>2, <1>3, <1>4, <1>6, <2>1, <2>2, <2>3
  <1>7. QED
    BY <1>5, <1>6

-----------------------------------------------------------------------------
(* The steps *)

\* Before anything was delivered.
LEMMA InitFits == Init => IInv
  <1> SUFFICES ASSUME Init PROVE IInv
    OBVIOUS
  <1>1. TypeOK
    BY ConstantsAssumption DEF Init, TypeOK
  <1>2. PlansInv /\ AirInv /\ HandlerInv /\ QuietInv
    BY DEF Init, PlansInv, AirInv, HandlerInv, QuietInv
  <1>3. PublishInv /\ WriteInv /\ StopInv /\ TrueInv /\ OffInv
    BY DEF Init, PublishInv, WriteInv, StopInv, TrueInv, OffInv
  <1>4. QED
    BY <1>1, <1>2, <1>3 DEF IInv

\* Once an eNB has restarted, what is said of the time before is void.
LEMMA AfterRestart ==
    ASSUME restarts' # 0
    PROVE  QuietInv' /\ WriteInv' /\ StopInv' /\ TrueInv' /\ OffInv'
  BY DEF QuietInv, WriteInv, StopInv, TrueInv, OffInv

\* Genuine speaks of tables only.
LEMMA GenuineKept ==
    ASSUME NEW m, Genuine(m), UNCHANGED <<number, plans, tried>>
    PROVE  Genuine(m)'
  BY DEF Genuine

\* The same of what is on the air.
LEMMA AirKept ==
    ASSUME NEW b, GenuineAir(b), UNCHANGED <<number, plans, tried>>
    PROVE  GenuineAir(b)'
  <1>1. \A m \in Messages : Genuine(m) => Genuine(m)'
    BY GenuineKept
  <1>2. QED
    BY <1>1 DEF GenuineAir

\* A step of a handler that sends nothing.
LEMMA HandlerStep ==
    ASSUME IInv, restarts # 0, UNCHANGED <<state, number, plans, publish, air, restarts, tried>>,
           NEW p \in Peers, NEW rec, handler' = [handler EXCEPT ![p] = rec],
           rec \in [phase : {"load", "loop"}, todo : SUBSET Ids, msg : Messages \cup {None}] \cup {None},
           rec # None /\ rec.msg # None => Genuine(rec.msg)
    PROVE  IInv'
  <1>1. TypeOK'
    BY DEF IInv, TypeOK
  <1>2. PlansInv' /\ AirInv'
    BY AirKept DEF IInv, PlansInv, AirInv, Genuine
  <1>3. HandlerInv'
    <2>1. \A q \in Peers : handler'[q] = IF q = p THEN rec ELSE handler[q]
      BY DEF IInv, TypeOK
    <2>2. QED
      BY <2>1, GenuineKept DEF IInv, HandlerInv
  <1>4. PublishInv'
    BY DEF IInv, PublishInv
  <1>5. QED
    BY <1>1, <1>2, <1>3, <1>4, AfterRestart DEF IInv

\* handleRestart reads the alerts, takes up the next one, and ends.
LEMMA HandlerKeeps ==
    ASSUME IInv, NEW p \in Peers, LoadAlerts(p) \/ HandlerEnds(p) \/ \E x \in Ids : NextRecord(p, x)
    PROVE  IInv'
  <1>1. handler[p] # None
    BY DEF LoadAlerts, HandlerEnds, NextRecord
  <1>2. restarts # 0
    BY <1>1 DEF IInv, QuietInv
  <1>3. handler[p] \in [phase : {"load", "loop"}, todo : SUBSET Ids, msg : Messages \cup {None}]
    BY <1>1 DEF IInv, TypeOK
  <1>4. CASE LoadAlerts(p)
    <2> DEFINE rec == [phase |-> "loop", todo |-> {x \in Ids : state[x] = "active"}, msg |-> None]
    <2>1. rec \in [phase : {"load", "loop"}, todo : SUBSET Ids, msg : Messages \cup {None}] /\ rec.msg = None
      OBVIOUS
    <2>2. handler' = [handler EXCEPT ![p] = rec]
          /\ UNCHANGED <<state, number, plans, publish, air, restarts, tried>>
      BY <1>4 DEF LoadAlerts
    <2> HIDE DEF rec
    <2>3. QED
      BY <1>2, <2>1, <2>2, HandlerStep
  <1>5. CASE HandlerEnds(p)
    <2>1. handler' = [handler EXCEPT ![p] = None]
          /\ UNCHANGED <<state, number, plans, publish, air, restarts, tried>>
      BY <1>5 DEF HandlerEnds
    <2>2. QED
      BY <1>2, <2>1, HandlerStep
  <1>6. ASSUME NEW x \in Ids, NextRecord(p, x)
        PROVE  IInv'
    <2> DEFINE msg == IF plans[x] = None \/ plans[x].code.scope = "plmn" THEN None ELSE plans[x]
               rec == [phase |-> "loop", todo |-> handler[p].todo \ {x}, msg |-> msg]
    <2>1. msg \in Messages \cup {None} /\ (msg # None => Genuine(msg))
      BY DEF IInv, TypeOK, PlansInv
    <2>2. handler' = [handler EXCEPT ![p] = rec]
          /\ UNCHANGED <<state, number, plans, publish, air, restarts, tried>>
      BY <1>6 DEF NextRecord, IInv, TypeOK
    <2> HIDE DEF msg
    <2>3. rec \in [phase : {"load", "loop"}, todo : SUBSET Ids, msg : Messages \cup {None}] /\ rec.msg = msg
      BY <1>3, <2>1
    <2> HIDE DEF rec
    <2>4. QED
      BY <1>2, <2>1, <2>2, <2>3, HandlerStep
  <1>7. QED
    BY <1>4, <1>5, <1>6

\* What OnWrite and OnStop leave on the air.
LEMMA AirAfter ==
    ASSUME NEW m \in Messages, NEW S \in SUBSET Broadcasts
    PROVE  /\ OnWrite(m, S) \in SUBSET Broadcasts /\ OnStop(m, S) \in SUBSET S
           /\ \A e \in m.area : Broadcast(m, e) \in OnWrite(m, S)
           /\ \A b \in OnWrite(m, S) : \/ b \in S /\ ~Covers(m, b)
                                       \/ b.cell \in m.area /\ b = Broadcast(m, b.cell)
           /\ \A b \in OnStop(m, S) : ~Stops(m, b)
           /\ \A b \in S : b \notin OnWrite(m, S) => b.code = m.code
           /\ \A b \in S : b \notin OnStop(m, S) => b.code = m.code
  <1>1. \A e \in m.area : Broadcast(m, e) \in Broadcasts /\ Broadcast(m, e).cell = e
    BY DEF Broadcast, Broadcasts, Messages
  <1>2. /\ OnWrite(m, S) \in SUBSET Broadcasts
        /\ \A e \in m.area : Broadcast(m, e) \in OnWrite(m, S)
        /\ \A b \in OnWrite(m, S) : \/ b \in S /\ ~Covers(m, b)
                                    \/ b.cell \in m.area /\ b = Broadcast(m, b.cell)
        /\ \A b \in S : b \notin OnWrite(m, S) => Covers(m, b)
    BY <1>1 DEF OnWrite
  <1>3. /\ OnStop(m, S) \in SUBSET S
        /\ \A b \in OnStop(m, S) : ~Stops(m, b)
        /\ \A b \in S : b \notin OnStop(m, S) => Stops(m, b)
    BY DEF OnStop
  <1>4. QED
    BY <1>2, <1>3 DEF Stops, Covers

\* A restarted eNB has nothing on the air.
LEMMA EnbRestartsKeeps ==
    ASSUME IInv, NEW p \in Peers, EnbRestarts(p)
    PROVE  IInv'
  <1> DEFINE rec == [phase |-> "load", todo |-> {}, msg |-> None]
  <1>1. /\ restarts < MaxRestarts /\ restarts' = restarts + 1
        /\ air' = [air EXCEPT ![p] = {}] /\ handler' = [handler EXCEPT ![p] = rec]
        /\ UNCHANGED <<state, number, plans, publish, tried>>
    BY DEF EnbRestarts
  <1>2. rec \in [phase : {"load", "loop"}, todo : SUBSET Ids, msg : Messages \cup {None}] /\ rec.msg = None
    OBVIOUS
  <1> HIDE DEF rec
  <1>3. restarts' \in 0..MaxRestarts /\ restarts' # 0
    BY <1>1, ConstantsAssumption DEF IInv, TypeOK
  <1>4. TypeOK'
    BY <1>1, <1>2, <1>3 DEF IInv, TypeOK
  <1>5. PlansInv'
    BY <1>1 DEF IInv, PlansInv, Genuine
  <1>6. AirInv'
    <2>1. \A q \in Peers : \A m \in air'[q] : m \in air[q]
      BY <1>1 DEF IInv, TypeOK
    <2>2. QED
      BY <1>1, <2>1, AirKept DEF IInv, AirInv
  <1>7. HandlerInv'
    <2>1. \A q \in Peers : handler'[q] = IF q = p THEN rec ELSE handler[q]
      BY <1>1 DEF IInv, TypeOK
    <2>2. QED
      BY <1>1, <1>2, <2>1, GenuineKept DEF IInv, HandlerInv
  <1>8. PublishInv'
    BY <1>1 DEF IInv, PublishInv
  <1>9. QED
    BY <1>3, <1>4, <1>5, <1>6, <1>7, <1>8, AfterRestart DEF IInv

\* A handler sends a plan again.
LEMMA RebroadcastKeeps ==
    ASSUME IInv, NEW p \in Peers, Rebroadcast(p)
    PROVE  IInv'
  <1>1. /\ handler[p] # None /\ handler[p].msg # None
        /\ air' = [air EXCEPT ![p] = OnWrite(handler[p].msg, @)] \/ UNCHANGED air
        /\ handler' = [handler EXCEPT ![p].msg = None]
        /\ UNCHANGED <<state, number, plans, publish, restarts, tried>>
    BY DEF Rebroadcast
  <1>2. restarts' # 0
    BY <1>1 DEF IInv, QuietInv
  <1>3. handler[p] \in [phase : {"load", "loop"}, todo : SUBSET Ids, msg : Messages \cup {None}]
    BY <1>1 DEF IInv, TypeOK
  <1>4. handler[p].msg \in Messages /\ Genuine(handler[p].msg)
    BY <1>1, <1>3 DEF IInv, HandlerInv
  <1> DEFINE n == handler[p].msg
  <1>5. \A q \in Peers : /\ air'[q] \in SUBSET Broadcasts
                         /\ \A b \in air'[q] : b \in air[q] \/ (b.cell \in n.area /\ b = Broadcast(n, b.cell))
    BY <1>1, <1>4, AirAfter DEF IInv, TypeOK
  <1>6. handler' \in [Peers -> [phase : {"load", "loop"}, todo : SUBSET Ids, msg : Messages \cup {None}] \cup {None}]
    <2>1. handler \in [Peers -> [phase : {"load", "loop"}, todo : SUBSET Ids, msg : Messages \cup {None}] \cup {None}]
      BY DEF IInv, TypeOK
    <2>2. QED
      BY <1>1, <1>3, <2>1
  <1>7. \A q \in Peers : handler'[q] # None /\ handler'[q].msg # None => q # p /\ handler'[q] = handler[q]
    BY <1>1, <1>3 DEF IInv, TypeOK
  <1>8. TypeOK'
    <2>1. air' \in [Peers -> SUBSET Broadcasts]
      BY <1>1, <1>5 DEF IInv, TypeOK
    <2>2. QED
      BY <1>1, <1>6, <2>1 DEF IInv, TypeOK
  <1>9. PlansInv' /\ PublishInv'
    BY <1>1 DEF IInv, PlansInv, Genuine, PublishInv
  <1>10. AirInv'
    <2>1. \A q \in Peers : \A b \in air'[q] : GenuineAir(b)
      BY <1>4, <1>5 DEF IInv, AirInv, GenuineAir
    <2>2. QED
      BY <1>1, <2>1, AirKept DEF AirInv
  <1>11. HandlerInv'
    BY <1>1, <1>7, GenuineKept DEF IInv, HandlerInv
  <1>12. QED
    BY <1>2, <1>8, <1>9, <1>10, <1>11, AfterRestart DEF IInv

\* A row is removed.
LEMMA ExpireKeeps ==
    ASSUME IInv, NEW x \in Ids, Expire(x)
    PROVE  IInv'
  <1>1. /\ state[x] = "active" /\ state' = [state EXCEPT ![x] = "none"]
        /\ UNCHANGED <<number, plans, publish, handler, air, restarts, tried>>
    BY DEF Expire
  <1>2. \A y \in Ids : state'[y] = IF y = x THEN "none" ELSE state[y]
    BY <1>1 DEF IInv, TypeOK
  <1>3. TypeOK'
    BY <1>1 DEF IInv, TypeOK
  <1>4. PlansInv' /\ AirInv' /\ HandlerInv' /\ QuietInv'
    BY <1>1, AirKept DEF IInv, PlansInv, AirInv, HandlerInv, QuietInv, Genuine
  <1>5. PublishInv'
    <2>1. publish # None => publish.alert.id \in Ids
      BY PublishTypes, AlertTypes DEF IInv
    <2>2. QED
      BY <1>1, <1>2, <2>1 DEF IInv, PublishInv
  <1>6. WriteInv'
    BY <1>1 DEF IInv, WriteInv, Reached, CarriesOnly, Carries
  <1>7. StopInv'
    <2>1. \A k \in 1..Len(publish.alert.refs) :
             publish # None /\ publish.alert.msgType = "Cancel" => publish.alert.refs[k] \in Ids
      BY PublishTypes, PlansSent DEF IInv
    <2>2. QED
      BY <1>1, <1>2, <2>1 DEF IInv, StopInv, Reached, OffPlan
  <1>8. TrueInv' /\ OffInv'
    <2>1. \A p \in Peers : \A b \in air[p] : b.of \in Ids
      BY BroadcastTypes DEF IInv, TypeOK
    <2>2. \A y \in Ids : state'[y] # "none" => state'[y] = state[y]
      BY <1>2
    <2>3. QED
      BY <1>1, <2>1, <2>2 DEF IInv, TrueInv, OffInv, OffPlan
  <1>9. QED
    BY <1>3, <1>4, <1>5, <1>6, <1>7, <1>8 DEF IInv

\* The process dies.
LEMMA CrashKeeps ==
    ASSUME IInv, Crash
    PROVE  IInv'
  <1>1. /\ publish' = None /\ handler' = [p \in Peers |-> None]
        /\ UNCHANGED <<state, number, plans, air, restarts, tried>>
    BY DEF Crash
  <1>2. TypeOK'
    BY <1>1 DEF IInv, TypeOK
  <1>3. PlansInv' /\ AirInv'
    BY <1>1, AirKept DEF IInv, PlansInv, AirInv, Genuine
  <1>4. HandlerInv' /\ QuietInv'
    BY <1>1 DEF HandlerInv, QuietInv
  <1>5. PublishInv' /\ WriteInv' /\ StopInv'
    BY <1>1 DEF PublishInv, WriteInv, StopInv
  <1>6. TrueInv' /\ OffInv'
    BY <1>1 DEF IInv, TrueInv, OffInv, OffPlan
  <1>7. QED
    BY <1>2, <1>3, <1>4, <1>5, <1>6 DEF IInv

\* Update numbers only grow.
LEMMA NumberGrows ==
    ASSUME TypeOK, NEW a \in Alerts, NEW t \in a.targets
    PROVE  /\ Key(a, t) \in Codes /\ Key(a, t).root = Root(a) /\ Key(a, t).scope = t.scope
           /\ NumberAfter(a, t) \in Nat
           /\ number[Key(a, t)] # None => NumberAfter(a, t) >= number[Key(a, t)]
  <1>1. Key(a, t) \in Codes /\ Key(a, t).root = Root(a) /\ Key(a, t).scope = t.scope
    BY AlertTypes DEF Key, Codes, Targets
  <1>2. number[Key(a, t)] \in 0..MaxNumber \cup {None}
    BY <1>1 DEF TypeOK
  <1>3. QED
    BY <1>1, <1>2, ConstantsAssumption DEF NumberAfter

\* A message with the identifier of an alert is of that alert: it has its root.
LEMMA RootOfAlert ==
    ASSUME NEW a \in Alerts, NEW m, Genuine(m), m.of = a.id
    PROVE  a.msgType # "Cancel" /\ m.code.root = Root(a)
  BY ConstantsAssumption DEF Genuine

\* Prepare stores the plan of an alert that is not accepted yet.
LEMMA GenuineGrows ==
    ASSUME TypeOK, NEW a \in Alerts, a.msgType # "Cancel",
           NEW t \in a.targets, NumberAfter(a, t) <= MaxNumber,
           number' = [number EXCEPT ![Key(a, t)] = NumberAfter(a, t)],
           plans' = [plans EXCEPT ![a.id] = Prepared(a, t)],
           tried' = [tried EXCEPT ![a.id] = @ \cup {t}]
    PROVE  /\ Prepared(a, t) \in Messages /\ Prepared(a, t).of = a.id
           /\ number' \in [Codes -> 0..MaxNumber \cup {None}] /\ plans' \in [Ids -> Messages \cup {None}]
           /\ tried' \in [Ids -> SUBSET Targets]
           /\ plans'[a.id] = Prepared(a, t) /\ \A x \in Ids : x # a.id => plans'[x] = plans[x]
           /\ \A m \in Messages : Genuine(m) \/ m = Prepared(a, t) => Genuine(m)'
  <1>1. a.id \in Ids /\ t \in Targets /\ t.scope \in Scopes /\ t.area \subseteq Cells
        /\ t = [scope |-> t.scope, area |-> t.area]
    BY AlertTypes DEF Targets
  <1>2. /\ Key(a, t) \in Codes /\ Key(a, t).root = Root(a) /\ Key(a, t).scope = t.scope
        /\ NumberAfter(a, t) \in Nat
        /\ number[Key(a, t)] # None => NumberAfter(a, t) >= number[Key(a, t)]
    BY NumberGrows
  <1>3. NumberAfter(a, t) \in 0..MaxNumber /\ NumberAfter(a, t) # None
    BY <1>2, ConstantsAssumption
  <1>4. /\ Prepared(a, t) \in Messages /\ Prepared(a, t).of = a.id /\ Prepared(a, t).code = Key(a, t)
        /\ Prepared(a, t).number = NumberAfter(a, t) /\ Prepared(a, t).area = t.area
    BY <1>1, <1>2, <1>3 DEF Prepared, Messages
  <1>5. /\ number' \in [Codes -> 0..MaxNumber \cup {None}] /\ plans' \in [Ids -> Messages \cup {None}]
        /\ plans'[a.id] = Prepared(a, t) /\ \A x \in Ids : x # a.id => plans'[x] = plans[x]
        /\ number'[Key(a, t)] = NumberAfter(a, t) /\ \A k \in Codes : k # Key(a, t) => number'[k] = number[k]
    BY <1>1, <1>2, <1>3, <1>4 DEF TypeOK
  <1>6. /\ tried' \in [Ids -> SUBSET Targets] /\ t \in tried'[a.id]
        /\ \A x \in Ids : tried[x] \subseteq tried'[x]
    BY <1>1 DEF TypeOK
  <1>7. Prepared(a, t) # None
    BY <1>4, MessageTypes
  <1>8. ASSUME NEW m \in Messages, m = Prepared(a, t)
        PROVE  Genuine(m)'
    <2>1. m.of = a.id /\ m.code = Key(a, t) /\ m.number = NumberAfter(a, t) /\ m.area = t.area /\ m # None
      BY <1>4, <1>7, <1>8
    <2>2. plans'[m.of] # None /\ number'[m.code] = NumberAfter(a, t)
      BY <1>5, <1>7, <2>1
    <2>3. number'[m.code] # None /\ m.number <= number'[m.code]
      BY <1>2, <1>3, <2>1, <2>2
    <2>4. TargetOf(m) = t
      BY <1>1, <1>2, <2>1 DEF TargetOf
    <2>5. QED
      BY <1>2, <1>6, <2>1, <2>2, <2>3, <2>4 DEF Genuine
  <1>9. ASSUME NEW m \in Messages, Genuine(m)
        PROVE  Genuine(m)'
    <2>1. m.of \in Ids /\ m.code \in Codes /\ m.number \in Nat
      BY MessageTypes
    <2>2. /\ \E b \in Alerts : b.id = m.of /\ b.msgType # "Cancel" /\ m.code.root = Root(b)
          /\ number[m.code] # None /\ m.number <= number[m.code]
          /\ plans[m.of] # None /\ TargetOf(m) \in tried[m.of]
      BY <1>9 DEF Genuine
    <2>3. number[m.code] \in 0..MaxNumber
      BY <2>1, <2>2 DEF TypeOK
    <2>4. number'[m.code] # None /\ m.number <= number'[m.code]
      BY <1>2, <1>3, <1>5, <2>1, <2>2, <2>3, ConstantsAssumption
    <2>5. plans'[m.of] # None
      BY <1>5, <1>7, <2>1, <2>2
    <2>6. TargetOf(m) \in tried'[m.of]
      BY <1>6, <2>1, <2>2
    <2>7. QED
      BY <2>2, <2>4, <2>5, <2>6 DEF Genuine
  <1>10. QED
    BY <1>4, <1>5, <1>6, <1>8, <1>9

\* Ingest lets a message pass, and Prepare stores its plan.
LEMMA PublishBeginKeeps ==
    ASSUME IInv, NEW a \in Alerts, PublishBegin(a)
    PROVE  IInv'
  <1>1. /\ publish = None /\ state[a.id] = "none"
        /\ publish' = [alert |-> a, plan |-> 1, peer |-> 1]
        /\ UNCHANGED <<state, handler, air, restarts>>
    BY DEF PublishBegin
  <1>2. publish'.alert = a /\ publish'.plan = 1 /\ publish'.peer = 1
    BY <1>1
  <1>3. publish' \in [alert : Alerts, plan : Nat, peer : Peers]
    BY <1>1, ConstantsAssumption DEF Peers
  <1>4. a.id \in Ids
    BY AlertTypes
  <1>5. /\ number' \in [Codes -> 0..MaxNumber \cup {None}] /\ plans' \in [Ids -> Messages \cup {None}]
        /\ tried' \in [Ids -> SUBSET Targets]
        /\ \A x \in Ids : x # a.id => plans'[x] = plans[x]
        /\ \A m \in Messages : Genuine(m) => Genuine(m)'
        /\ plans'[a.id] = plans[a.id]
           \/ /\ plans'[a.id] \in Messages /\ plans'[a.id].of = a.id
              /\ \A m \in Messages : m = plans'[a.id] => Genuine(m)'
        /\ a.msgType # "Cancel" => plans'[a.id] # None
    <2>1. CASE a.msgType = "Cancel"
      <3>1. UNCHANGED <<number, plans, tried>>
        BY <2>1 DEF PublishBegin
      <3>2. QED
        BY <2>1, <3>1 DEF IInv, TypeOK, Genuine
    <2>2. CASE a.msgType # "Cancel"
      <3>1. PICK t \in a.targets :
               /\ NumberAfter(a, t) <= MaxNumber
               /\ number' = [number EXCEPT ![Key(a, t)] = NumberAfter(a, t)]
               /\ plans' = [plans EXCEPT ![a.id] = Prepared(a, t)]
               /\ tried' = [tried EXCEPT ![a.id] = @ \cup {t}]
        BY <2>2 DEF PublishBegin
      <3>2. TypeOK
        BY DEF IInv
      <3>3. /\ Prepared(a, t) \in Messages /\ Prepared(a, t).of = a.id
            /\ number' \in [Codes -> 0..MaxNumber \cup {None}] /\ plans' \in [Ids -> Messages \cup {None}]
            /\ tried' \in [Ids -> SUBSET Targets]
            /\ plans'[a.id] = Prepared(a, t) /\ \A x \in Ids : x # a.id => plans'[x] = plans[x]
            /\ \A m \in Messages : Genuine(m) \/ m = Prepared(a, t) => Genuine(m)'
        BY <2>2, <3>1, <3>2, GenuineGrows
      <3>4. Prepared(a, t) # None
        BY <3>3, MessageTypes
      <3>5. QED
        BY <3>3, <3>4
    <2>3. QED
      BY <2>1, <2>2
  <1>6. TypeOK'
    BY <1>1, <1>3, <1>5 DEF IInv, TypeOK
  <1>7. PlansInv'
    <2>1. ASSUME NEW x \in Ids, plans'[x] # None
          PROVE  plans'[x].of = x /\ Genuine(plans[x])'
      <3>1. plans'[x] \in Messages
        BY <1>5, <2>1
      <3>2. plans'[x].of = x /\ \A m \in Messages : m = plans'[x] => Genuine(m)'
        <4>1. CASE plans'[x] = plans[x]
          BY <1>5, <2>1, <3>1, <4>1 DEF IInv, PlansInv
        <4>2. CASE plans'[x] # plans[x]
          BY <1>5, <4>2
        <4>3. QED
          BY <4>1, <4>2
      <3>3. PICK m \in Messages : m = plans'[x]
        BY <3>1
      <3>4. QED
        BY <3>2, <3>3 DEF Genuine
    <2>2. QED
      BY <2>1 DEF PlansInv
  <1>8. AirInv' /\ HandlerInv' /\ QuietInv'
    <2>1. AirInv'
      <3>1. ASSUME NEW b, GenuineAir(b)
            PROVE  GenuineAir(b)'
        BY <1>5, <3>1 DEF GenuineAir
      <3>2. QED
        BY <1>1, <3>1 DEF IInv, AirInv
    <2>2. HandlerInv'
      <3>1. \A p \in Peers : handler[p] # None /\ handler[p].msg # None => handler[p].msg \in Messages
        BY DEF IInv, TypeOK
      <3>2. QED
        BY <1>1, <1>5, <3>1 DEF IInv, HandlerInv
    <2>3. QED
      BY <1>1, <2>1, <2>2 DEF IInv, QuietInv
  <1>9. PublishInv'
    <2>1. PlanCount(a) \in Nat
      BY PlansSent
    <2>2. 1 \in 1..(PlanCount(a) + 1)
      BY <2>1
    <2>3. QED
      BY <1>1, <1>2, <1>5, <2>2 DEF PublishInv, PlanCount, PlansToSend
  <1>10. \A k \in 1..Len(a.refs), p \in Peers : ~Reached(k, p)'
    BY <1>2, ConstantsAssumption DEF Reached, Peers
  <1>11. \A p \in Peers : ~Reached(1, p)'
    BY <1>2, ConstantsAssumption DEF Reached, Peers
  <1>12. WriteInv' /\ StopInv'
    BY <1>2, <1>10, <1>11 DEF WriteInv, StopInv
  <1>13. TrueInv' /\ OffInv'
    <2>1. \A q \in Peers : \A b \in air[q] : b.of \in Ids
      BY BroadcastTypes DEF IInv, TypeOK
    <2>2. \A x \in Ids : state[x] # "none" => plans'[x] = plans[x]
      BY <1>1, <1>5
    <2>3. QED
      BY <1>1, <2>1, <2>2 DEF IInv, TrueInv, OffInv, OffPlan
  <1>14. QED
    BY <1>6, <1>7, <1>8, <1>9, <1>12, <1>13 DEF IInv

\* What a peer that carries the request out has on the air.
LEMMA CarryFacts ==
    ASSUME IInv, Sending, Current # None, Carry(publish.peer)
    PROVE  /\ Current \in Messages /\ Genuine(Current)
           /\ air' \in [Peers -> SUBSET Broadcasts]
           /\ \A p \in Peers : p # publish.peer => air'[p] = air[p]
           /\ publish.alert.msgType # "Cancel" =>
                 /\ Current.of = publish.alert.id
                 /\ \A e \in Current.area : Broadcast(Current, e) \in air'[publish.peer]
                 /\ \A b \in air'[publish.peer] :
                       \/ b \in air[publish.peer] /\ ~Covers(Current, b)
                       \/ b.cell \in Current.area /\ b = Broadcast(Current, b.cell)
           /\ publish.alert.msgType = "Cancel" =>
                 \A b \in air'[publish.peer] : b \in air[publish.peer] /\ ~Stops(Current, b)
           /\ \A b \in air[publish.peer] : b \notin air'[publish.peer] => b.code = Current.code
  <1>1. TypeOK /\ PublishInv /\ PlansInv
    BY DEF IInv
  <1>2. /\ publish # None /\ publish.alert \in Alerts /\ publish.peer \in Peers
        /\ publish.alert.msgType # "Cancel" => Current = plans[publish.alert.id] /\ publish.alert.id \in Ids
        /\ publish.alert.msgType = "Cancel" =>
              /\ Current = plans[publish.alert.refs[publish.plan]]
              /\ publish.alert.refs[publish.plan] \in Ids
        /\ Current \in Messages \cup {None}
    BY <1>1, SendFacts
  <1>3. Current \in Messages
    BY <1>2
  <1>4. Genuine(Current) /\ (publish.alert.msgType # "Cancel" => Current.of = publish.alert.id)
    BY <1>1, <1>2 DEF PlansInv
  <1>5. air \in [Peers -> SUBSET Broadcasts]
    BY <1>1 DEF TypeOK
  <1>6. /\ \A p \in Peers : p # publish.peer => air'[p] = air[p]
        /\ air'[publish.peer] = IF publish.alert.msgType = "Cancel"
                                THEN OnStop(Current, air[publish.peer]) ELSE OnWrite(Current, air[publish.peer])
        /\ DOMAIN air' = Peers
        /\ air' = [p \in Peers |-> air'[p]]
    BY <1>2, <1>5 DEF Carry
  <1>7. /\ OnWrite(Current, air[publish.peer]) \in SUBSET Broadcasts
        /\ OnStop(Current, air[publish.peer]) \in SUBSET air[publish.peer]
        /\ \A e \in Current.area : Broadcast(Current, e) \in OnWrite(Current, air[publish.peer])
        /\ \A b \in OnWrite(Current, air[publish.peer]) :
              \/ b \in air[publish.peer] /\ ~Covers(Current, b)
              \/ b.cell \in Current.area /\ b = Broadcast(Current, b.cell)
        /\ \A b \in OnStop(Current, air[publish.peer]) : ~Stops(Current, b)
        /\ \A b \in air[publish.peer] :
              b \notin OnWrite(Current, air[publish.peer]) => b.code = Current.code
        /\ \A b \in air[publish.peer] :
              b \notin OnStop(Current, air[publish.peer]) => b.code = Current.code
    BY <1>2, <1>3, <1>5, AirAfter
  <1>8. \A p \in Peers : air'[p] \in SUBSET Broadcasts
    BY <1>2, <1>5, <1>6, <1>7
  <1>9. air' \in [Peers -> SUBSET Broadcasts]
    BY <1>6, <1>8
  <1>10. CASE publish.alert.msgType = "Cancel"
    BY <1>3, <1>4, <1>6, <1>7, <1>9, <1>10
  <1>11. CASE publish.alert.msgType # "Cancel"
    BY <1>3, <1>4, <1>6, <1>7, <1>9, <1>11
  <1>12. QED
    BY <1>10, <1>11

\* A peer carries a request out, and its caller may learn of it or not.
LEMMA CarryKeeps ==
    ASSUME IInv, Sending, Current # None, Carry(publish.peer),
           UNCHANGED <<state, number, plans, restarts, tried>>
    PROVE  AirInv' /\ TrueInv' /\ OffInv'
  <1> DEFINE n == Current
  <1>1. /\ n \in Messages /\ Genuine(n)
        /\ \A p \in Peers : p # publish.peer => air'[p] = air[p]
        /\ publish.alert.msgType # "Cancel" =>
              /\ n.of = publish.alert.id
              /\ \A b \in air'[publish.peer] :
                    \/ b \in air[publish.peer] /\ ~Covers(n, b)
                    \/ b.cell \in n.area /\ b = Broadcast(n, b.cell)
        /\ publish.alert.msgType = "Cancel" =>
              \A b \in air'[publish.peer] : b \in air[publish.peer] /\ ~Stops(n, b)
    BY CarryFacts
  <1>2. state[publish.alert.id] = "none"
    BY DEF IInv, PublishInv, Sending
  <1> HIDE DEF n
  <1>3. \A b : b = Broadcast(n, b.cell) => b.of = n.of
    BY BroadcastParts
  <1>4. \A p \in Peers : \A b \in air'[p] :
            \/ b \in air[p]
            \/ b.cell \in n.area /\ b = Broadcast(n, b.cell) /\ state[b.of] = "none"
    BY <1>1, <1>2, <1>3
  <1>5. AirInv'
    <2>1. \A p \in Peers : \A b \in air'[p] : GenuineAir(b)
      BY <1>1, <1>4 DEF IInv, AirInv, GenuineAir
    <2>2. QED
      BY <2>1, AirKept DEF AirInv
  <1>6. TrueInv' /\ OffInv'
    BY <1>4 DEF IInv, TrueInv, OffInv, OffPlan, Covers
  <1>7. QED
    BY <1>5, <1>6

\* The call goes on to the next peer, or to the next plan.
LEMMA SendAcceptedKeeps ==
    ASSUME IInv, SendAccepted
    PROVE  IInv'
  <1>1. /\ Sending /\ Current # None /\ Carry(publish.peer)
        /\ publish' = (IF publish.peer < NumPeers
                       THEN [publish EXCEPT !.peer = @ + 1]
                       ELSE [publish EXCEPT !.plan = @ + 1, !.peer = 1])
        /\ UNCHANGED <<state, number, plans, handler, restarts, tried>>
    BY DEF SendAccepted
  <1>2. TypeOK /\ PublishInv
    BY DEF IInv
  <1>3. /\ publish # None /\ publish.alert \in Alerts /\ publish.peer \in Peers
        /\ publish.plan \in 1..PlanCount(publish.alert) /\ PlanCount(publish.alert) \in Nat
        /\ publish.alert.msgType # "Cancel" => publish.plan = 1 /\ Current = plans[publish.alert.id]
        /\ publish.alert.msgType = "Cancel" => Current = plans[publish.alert.refs[publish.plan]]
    BY <1>1, <1>2, SendFacts
  <1>4. /\ publish' \in [alert : Alerts, plan : Nat, peer : Peers]
        /\ publish'.alert = publish.alert
        /\ \/ publish.peer < NumPeers /\ publish'.plan = publish.plan /\ publish'.peer = publish.peer + 1
           \/ publish.peer = NumPeers /\ publish'.plan = publish.plan + 1 /\ publish'.peer = 1
    <2>1. publish \in [alert : Alerts, plan : Nat, peer : Peers]
      BY <1>2, <1>3 DEF TypeOK
    <2>2. publish.peer \in 1..NumPeers /\ NumPeers \in Nat \ {0}
      BY <1>3, ConstantsAssumption DEF Peers
    <2>3. CASE publish.peer < NumPeers
      <3>1. publish' = [publish EXCEPT !.peer = @ + 1] /\ publish.peer + 1 \in Peers
        BY <1>1, <2>2, <2>3 DEF Peers
      <3>2. QED
        BY <2>1, <2>3, <3>1
    <2>4. CASE ~(publish.peer < NumPeers)
      <3>1. publish' = [publish EXCEPT !.plan = @ + 1, !.peer = 1] /\ publish.peer = NumPeers /\ 1 \in Peers
        BY <1>1, <2>2, <2>4 DEF Peers
      <3>2. publish.plan + 1 \in Nat
        BY <2>1
      <3>3. publish' = [alert |-> publish.alert, plan |-> publish.plan + 1, peer |-> 1]
        BY <2>1, <3>1
      <3>4. QED
        BY <2>1, <3>1, <3>2, <3>3
    <2>5. QED
      BY <2>3, <2>4
  <1>5. \A k \in Nat, p \in Peers :
           Reached(k, p)' => Reached(k, p) \/ (k = publish.plan /\ p = publish.peer)
    <2>1. publish.peer \in 1..NumPeers /\ NumPeers \in Nat \ {0} /\ publish.plan \in Nat
      BY <1>3, ConstantsAssumption DEF Peers
    <2>2. QED
      BY <1>4, <2>1 DEF Reached, Peers
  <1>6. /\ Current \in Messages /\ Genuine(Current)
        /\ air' \in [Peers -> SUBSET Broadcasts]
        /\ \A p \in Peers : p # publish.peer => air'[p] = air[p]
        /\ publish.alert.msgType # "Cancel" =>
              /\ \A e \in Current.area : Broadcast(Current, e) \in air'[publish.peer]
              /\ \A b \in air'[publish.peer] :
                    \/ b \in air[publish.peer] /\ ~Covers(Current, b)
                    \/ b.cell \in Current.area /\ b = Broadcast(Current, b.cell)
        /\ publish.alert.msgType = "Cancel" =>
              \A b \in air'[publish.peer] : b \in air[publish.peer] /\ ~Stops(Current, b)
    BY <1>1, CarryFacts
  <1>7. TypeOK'
    BY <1>1, <1>2, <1>4, <1>6 DEF TypeOK
  <1>8. AirInv' /\ TrueInv' /\ OffInv'
    BY <1>1, CarryKeeps
  <1>9. PlansInv' /\ HandlerInv' /\ QuietInv'
    BY <1>1 DEF IInv, PlansInv, HandlerInv, QuietInv, Genuine
  <1>10. PublishInv'
    <2>1. publish'.plan \in 1..(PlanCount(publish.alert) + 1)
      BY <1>3, <1>4
    <2>2. PlanCount(publish.alert)' = PlanCount(publish.alert)
      BY <1>4 DEF PlanCount, PlansToSend
    <2>3. QED
      BY <1>1, <1>2, <1>3, <1>4, <2>1, <2>2 DEF PublishInv
  <1>11. WriteInv'
    <2> DEFINE n == plans[publish.alert.id]
    <2> SUFFICES ASSUME restarts = 0, publish.alert.msgType # "Cancel",
                        NEW p \in Peers, Reached(1, p)'
                 PROVE  /\ \A e \in n.area : Broadcast(n, e) \in air'[p]
                        /\ \A b \in air'[p] : Covers(n, b) => b = Broadcast(n, b.cell)
      BY <1>1, <1>3, <1>4 DEF WriteInv, CarriesOnly, Carries
    <2>1. CASE p = publish.peer
      BY <1>3, <1>6, <2>1
    <2>2. CASE p # publish.peer
      <3>1. Reached(1, p) /\ air'[p] = air[p]
        BY <1>3, <1>5, <1>6, <2>2
      <3>2. CarriesOnly(p, n)
        BY <1>3, <3>1 DEF IInv, WriteInv
      <3>3. QED
        BY <3>1, <3>2 DEF CarriesOnly, Carries
    <2>3. QED
      BY <2>1, <2>2
  <1>12. StopInv'
    <2> SUFFICES ASSUME restarts = 0, publish.alert.msgType = "Cancel",
                        NEW p \in Peers, NEW k \in 1..Len(publish.alert.refs), Reached(k, p)',
                        state[publish.alert.refs[k]] = "active",
                        NEW b \in air'[p], b.of = publish.alert.refs[k], Covers(plans[b.of], b)
                 PROVE  FALSE
      BY <1>1, <1>4 DEF StopInv, OffPlan
    <2>1. b \in air[p]
      BY <1>6
    <2>2. CASE Reached(k, p)
      BY <1>3, <2>1, <2>2 DEF IInv, StopInv, OffPlan
    <2>3. CASE ~Reached(k, p)
      <3>1. k \in Nat
        OBVIOUS
      <3>2. k = publish.plan /\ p = publish.peer
        BY <1>5, <2>3, <3>1
      <3>3. b.number = plans[b.of].number
        BY <2>1 DEF IInv, TrueInv
      <3>4. plans[b.of] = Current
        BY <1>3, <3>2
      <3>5. Stops(Current, b)
        BY <3>3, <3>4 DEF Stops
      <3>6. QED
        BY <1>6, <3>2, <3>5
    <2>4. QED
      BY <2>2, <2>3
  <1>13. QED
    BY <1>7, <1>8, <1>9, <1>10, <1>11, <1>12 DEF IInv

\* The call fails, with or without the peer having carried the request out.
LEMMA SendFailsKeeps ==
    ASSUME IInv, SendFails
    PROVE  IInv'
  <1>1. /\ Sending /\ publish' = None
        /\ UNCHANGED air \/ (Current # None /\ Carry(publish.peer))
        /\ UNCHANGED <<state, number, plans, handler, restarts, tried>>
    BY DEF SendFails
  <1>2. PlansInv' /\ HandlerInv' /\ QuietInv'
    BY <1>1 DEF IInv, PlansInv, HandlerInv, QuietInv, Genuine
  <1>3. PublishInv' /\ WriteInv' /\ StopInv'
    BY <1>1 DEF PublishInv, WriteInv, StopInv
  <1>4. CASE UNCHANGED air
    <2>1. TypeOK'
      BY <1>1, <1>4 DEF IInv, TypeOK
    <2>2. AirInv' /\ TrueInv' /\ OffInv'
      BY <1>1, <1>4, AirKept DEF IInv, AirInv, TrueInv, OffInv, OffPlan
    <2>3. QED
      BY <1>2, <1>3, <2>1, <2>2 DEF IInv
  <1>5. CASE Current # None /\ Carry(publish.peer)
    <2>1. air' \in [Peers -> SUBSET Broadcasts]
      BY <1>1, <1>5, CarryFacts
    <2>2. TypeOK'
      BY <1>1, <2>1 DEF IInv, TypeOK
    <2>3. AirInv' /\ TrueInv' /\ OffInv'
      BY <1>1, <1>5, CarryKeeps
    <2>4. QED
      BY <1>2, <1>3, <2>2, <2>3 DEF IInv
  <1>6. QED
    BY <1>1, <1>4, <1>5

\* The states that Upsert gives to the alert and its references.
LEMMA UpsertFacts ==
    ASSUME TypeOK, NEW a \in Alerts
    PROVE  /\ Upsert(a) \in [Ids -> {"none", "active", "superseded", "cancelled"}]
           /\ a.msgType = "Cancel" =>
                 \A x \in Ids :
                    \/ Upsert(a)[x] = state[x]
                    \/ Upsert(a)[x] = "cancelled" /\ x = a.id
                    \/ /\ Upsert(a)[x] = "cancelled" /\ state[x] = "active"
                       /\ \E k \in 1..Len(a.refs) : a.refs[k] = x
           /\ a.msgType # "Cancel" =>
                 \A x \in Ids :
                    \/ Upsert(a)[x] = state[x]
                    \/ Upsert(a)[x] \in {"active", "superseded"} /\ x = a.id
                    \/ Upsert(a)[x] = "superseded" /\ state[x] = "active"
  <1> DEFINE own == [state EXCEPT ![a.id] = OwnState(a)]
  <1>1. a.id \in Ids
    BY AlertTypes
  <1>2. /\ own \in [Ids -> {"none", "active", "superseded", "cancelled"}]
        /\ own[a.id] = OwnState(a) /\ \A x \in Ids : x # a.id => own[x] = state[x]
        /\ OwnState(a) = IF a.msgType = "Cancel" THEN "cancelled" ELSE "active"
    BY <1>1 DEF TypeOK, OwnState
  <1>3. Upsert(a) = [x \in Ids |-> IF own[x] = "active" /\ \E i \in 1..Len(a.refs) : a.refs[i] = x
                                   THEN ReferenceState(a) ELSE own[x]]
    BY DEF Upsert
  <1> HIDE DEF own
  <1>4. \A x \in Ids : Upsert(a)[x] = IF own[x] = "active" /\ \E i \in 1..Len(a.refs) : a.refs[i] = x
                                      THEN ReferenceState(a) ELSE own[x]
    BY <1>3
  <1>5. ReferenceState(a) = IF a.msgType = "Cancel" THEN "cancelled" ELSE "superseded"
    BY DEF ReferenceState
  <1>6. Upsert(a) \in [Ids -> {"none", "active", "superseded", "cancelled"}]
    BY <1>2, <1>3, <1>5
  <1>7. QED
    BY <1>2, <1>4, <1>5, <1>6

\* Everything was sent.
LEMMA EndFacts ==
    ASSUME TypeOK, PublishInv, publish # None, ~Sending
    PROVE  /\ publish.alert \in Alerts
           /\ publish.alert.msgType # "Cancel" => \A p \in Peers : Reached(1, p)
           /\ publish.alert.msgType = "Cancel" =>
                 \A p \in Peers, k \in 1..Len(publish.alert.refs) : Reached(k, p)
  <1>1. publish.alert \in Alerts /\ publish.plan \in Nat
    BY PublishTypes
  <1>2. PlanCount(publish.alert) \in Nat /\ publish.plan > PlanCount(publish.alert)
    <2>1. PlanCount(publish.alert) \in Nat /\ ~(publish.plan <= PlanCount(publish.alert))
      BY <1>1, PlansSent DEF Sending, PlanCount
    <2>2. QED
      BY <1>1, <2>1
  <1>3. /\ publish.alert.msgType = "Cancel" => PlanCount(publish.alert) = Len(publish.alert.refs)
        /\ publish.alert.msgType # "Cancel" => PlanCount(publish.alert) = 1
    BY <1>1, PlansSent
  <1>4. QED
    BY <1>1, <1>2, <1>3 DEF Reached

\* The alert is accepted.
LEMMA PublishEndKeeps ==
    ASSUME IInv, PublishEnd
    PROVE  IInv'
  <1> DEFINE a == publish.alert
  <1>1. /\ publish # None /\ ~Sending /\ state' = Upsert(a) /\ publish' = None
        /\ UNCHANGED <<number, plans, handler, air, restarts, tried>>
    BY DEF PublishEnd
  <1>2. TypeOK /\ PublishInv
    BY DEF IInv
  <1>3. /\ a \in Alerts
        /\ a.msgType # "Cancel" => \A p \in Peers : Reached(1, p)
        /\ a.msgType = "Cancel" => \A p \in Peers, k \in 1..Len(a.refs) : Reached(k, p)
    BY <1>1, <1>2, EndFacts
  <1>4. a.id \in Ids
    BY <1>3, AlertTypes
  <1>5. /\ state' \in [Ids -> {"none", "active", "superseded", "cancelled"}]
        /\ a.msgType = "Cancel" =>
              \A x \in Ids :
                 \/ state'[x] = state[x]
                 \/ state'[x] = "cancelled" /\ x = a.id
                 \/ /\ state'[x] = "cancelled" /\ state[x] = "active"
                    /\ \E k \in 1..Len(a.refs) : a.refs[k] = x
        /\ a.msgType # "Cancel" =>
              \A x \in Ids :
                 \/ state'[x] = state[x]
                 \/ state'[x] \in {"active", "superseded"} /\ x = a.id
                 \/ state'[x] = "superseded" /\ state[x] = "active"
    BY <1>1, <1>2, <1>3, UpsertFacts
  <1>6. TypeOK'
    BY <1>1, <1>2, <1>5 DEF TypeOK
  <1>7. PlansInv' /\ AirInv' /\ HandlerInv' /\ QuietInv'
    BY <1>1, AirKept DEF IInv, PlansInv, AirInv, HandlerInv, QuietInv, Genuine
  <1>8. PublishInv' /\ WriteInv' /\ StopInv'
    BY <1>1 DEF PublishInv, WriteInv, StopInv
  <1>9. \A p \in Peers : \A b \in air[p] : b.of \in Ids /\ (b.of = a.id => a.msgType # "Cancel")
    <2> SUFFICES ASSUME NEW p \in Peers, NEW b \in air[p]
                 PROVE  b.of \in Ids /\ (b.of = a.id => a.msgType # "Cancel")
      OBVIOUS
    <2>1. b.of \in Ids
      BY <1>2, BroadcastTypes DEF TypeOK
    <2>2. PICK m \in Messages : Genuine(m) /\ b = Broadcast(m, b.cell)
      BY DEF IInv, AirInv, GenuineAir
    <2>3. b.of = m.of
      BY <2>2, BroadcastParts
    <2>4. QED
      BY <1>3, <2>1, <2>2, <2>3, RootOfAlert
  <1>10. TrueInv'
    <2> SUFFICES ASSUME restarts = 0, NEW p \in Peers, NEW b \in air[p],
                        state'[b.of] \in {"active", "superseded"}, Covers(plans[b.of], b)
                 PROVE  b.number = plans[b.of].number
      BY <1>1 DEF TrueInv, Covers
    <2>1. CASE state[b.of] \in {"active", "superseded"}
      BY <2>1 DEF IInv, TrueInv
    <2>2. CASE state[b.of] \notin {"active", "superseded"}
      <3>1. b.of = a.id /\ a.msgType # "Cancel"
        BY <1>5, <1>9, <2>2
      <3>2. CarriesOnly(p, plans[a.id])
        BY <1>1, <1>3, <3>1 DEF IInv, WriteInv
      <3>3. b = Broadcast(plans[a.id], b.cell)
        BY <3>1, <3>2 DEF CarriesOnly
      <3>4. QED
        BY <3>1, <3>3, BroadcastParts
    <2>3. QED
      BY <2>1, <2>2
  <1>11. OffInv'
    <2> SUFFICES ASSUME restarts = 0, NEW p \in Peers, NEW b \in air[p],
                        state'[b.of] = "cancelled", Covers(plans[b.of], b)
                 PROVE  FALSE
      BY <1>1 DEF OffInv, OffPlan, Covers
    <2>1. CASE state[b.of] = "cancelled"
      BY <2>1 DEF IInv, OffInv, OffPlan
    <2>2. CASE state[b.of] # "cancelled"
      <3>1. /\ a.msgType = "Cancel" /\ state[b.of] = "active"
            /\ \E k \in 1..Len(a.refs) : a.refs[k] = b.of
        BY <1>5, <1>9, <2>2
      <3>2. QED
        BY <1>1, <1>3, <3>1 DEF IInv, StopInv, OffPlan
    <2>3. QED
      BY <2>1, <2>2
  <1>12. QED
    BY <1>6, <1>7, <1>8, <1>10, <1>11 DEF IInv

\* Every step keeps the invariant.
LEMMA NextKeeps ==
    ASSUME IInv, [Next]_vars
    PROVE  IInv'
  <1>1. CASE \E a \in Alerts : PublishBegin(a)
    BY <1>1, PublishBeginKeeps
  <1>2. CASE SendAccepted \/ SendFails \/ PublishEnd
    BY <1>2, SendAcceptedKeeps, SendFailsKeeps, PublishEndKeeps
  <1>3. ASSUME NEW p \in Peers,
               \/ EnbRestarts(p) \/ LoadAlerts(p) \/ Rebroadcast(p) \/ HandlerEnds(p)
               \/ \E x \in Ids : NextRecord(p, x)
        PROVE  IInv'
    BY <1>3, EnbRestartsKeeps, RebroadcastKeeps, HandlerKeeps
  <1>4. CASE \E x \in Ids : Expire(x)
    BY <1>4, ExpireKeeps
  <1>5. CASE Crash
    BY <1>5, CrashKeeps
  <1>6. CASE UNCHANGED vars
    <2>1. UNCHANGED <<state, number, plans, publish, handler, air, restarts, tried>>
      BY <1>6 DEF vars
    <2>2. TypeOK'
      BY <2>1 DEF IInv, TypeOK
    <2>3. PlansInv' /\ AirInv' /\ HandlerInv' /\ QuietInv'
      BY <2>1, AirKept DEF IInv, PlansInv, AirInv, HandlerInv, QuietInv, Genuine
    <2>4. PublishInv' /\ WriteInv' /\ StopInv'
      BY <2>1 DEF IInv, PublishInv, WriteInv, StopInv, Reached, CarriesOnly, Carries, OffPlan
    <2>5. TrueInv' /\ OffInv'
      BY <2>1 DEF IInv, TrueInv, OffInv, OffPlan
    <2>6. QED
      BY <2>2, <2>3, <2>4, <2>5 DEF IInv
  <1>7. QED
    BY <1>1, <1>2, <1>3, <1>4, <1>5, <1>6 DEF Next

\* The invariant holds whatever is sent, fails, restarts, expires or crashes.
THEOREM Invariance == Spec => []IInv
  <1>1. IInv /\ [Next]_vars => IInv'
    BY NextKeeps
  <1>2. QED
    BY InitFits, <1>1, PTL DEF Spec

\* Type correctness of delivery: the tables, the calls of Publish and of
\* handleRestart and what is broadcast stay well formed.
THEOREM TypeCorrect == Spec => []TypeOK
  <1>1. IInv => TypeOK
    BY DEF IInv
  <1>2. QED
    BY Invariance, <1>1, PTL

\* What is on the air of an alert is covered by its stored plan, or was left by
\* an attempt with another target.
LEMMA CoveredOrLeft ==
    ASSUME IInv, NEW p \in Peers, NEW b \in air[p]
    PROVE  /\ b.of \in Ids /\ plans[b.of] \in Messages /\ Genuine(plans[b.of])
           /\ Covers(plans[b.of], b) \/ LeftByOtherTarget(b)
  <1> DEFINE n == plans[b.of]
  <1>1. b.of \in Ids
    BY BroadcastTypes DEF IInv, TypeOK
  <1>2. PICK m \in Messages : Genuine(m) /\ b.cell \in m.area /\ b = Broadcast(m, b.cell)
    BY DEF IInv, AirInv, GenuineAir
  <1>3. b.of = m.of /\ b.code = m.code
    BY <1>2, BroadcastParts
  <1>4. n # None
    BY <1>2, <1>3 DEF Genuine
  <1>5. n \in Messages /\ n.of = b.of /\ Genuine(n)
    BY <1>1, <1>4 DEF IInv, TypeOK, PlansInv
  <1> HIDE DEF n
  <1>6. TargetOf(m) \in tried[b.of] /\ TargetOf(n) \in tried[b.of]
    BY <1>2, <1>3, <1>5 DEF Genuine
  <1>7. CASE TargetOf(m) # TargetOf(n)
    <2>1. Retargeted(b.of)
      BY <1>6, <1>7 DEF Retargeted
    <2>2. QED
      BY <1>1, <1>5, <2>1 DEF LeftByOtherTarget, n
  <1>8. CASE TargetOf(m) = TargetOf(n)
    <2>1. m.code.scope = n.code.scope /\ m.area = n.area
      BY <1>8 DEF TargetOf
    <2>2. PICK a \in Alerts : a.id = n.of /\ n.code.root = Root(a)
      BY <1>5 DEF Genuine
    <2>3. m.code.root = n.code.root
      BY <1>2, <1>3, <1>5, <2>2, RootOfAlert
    <2>4. m.code \in Codes /\ n.code \in Codes
      BY <1>5, MessageTypes
    <2>5. m.code = n.code
      BY <2>1, <2>3, <2>4 DEF Codes
    <2>6. Covers(n, b)
      BY <1>2, <1>3, <1>4, <2>1, <2>5 DEF Covers, n
    <2>7. QED
      BY <1>1, <1>5, <2>6 DEF n
  <1>9. QED
    BY <1>7, <1>8

\* A Cancel that Ingest accepted has taken its references off the air at every
\* peer, as far as their plans go; what is left is of attempts with other
\* targets, and nothing but the handling of an eNB restart brings the rest back.
THEOREM CancelledStaysOffHolds == Spec => []CancelledStaysOff
  <1>1. IInv => CancelledStaysOff
    <2> SUFFICES ASSUME IInv, restarts = 0, NEW p \in Peers, NEW b \in air[p], state[b.of] = "cancelled"
                 PROVE  LeftByOtherTarget(b)
      BY DEF CancelledStaysOff
    <2>1. ~Covers(plans[b.of], b)
      BY DEF IInv, OffInv, OffPlan
    <2>2. QED
      BY <2>1, CoveredOrLeft
  <1>2. QED
    BY Invariance, <1>1, PTL

\* What is on the air of an alert that Ingest accepted, while no eNB restarts,
\* and of a message code that was never renumbered, can be stopped by a stored
\* plan, but for what an attempt with another target left.
THEOREM AcceptedIsStoppableHolds == Spec => []AcceptedIsStoppable
  <1>1. IInv => AcceptedIsStoppable
    <2> SUFFICES ASSUME IInv, NEW p \in Peers, NEW b \in air[p], ~LeftByOtherTarget(b),
                        \/ restarts = 0 /\ state[b.of] \in {"active", "superseded", "cancelled"}
                        \/ number[b.code] = 0
                 PROVE  \E x \in Ids : Stops(plans[x], b)
      BY DEF AcceptedIsStoppable
    <2>1. b.of \in Ids /\ plans[b.of] \in Messages /\ Genuine(plans[b.of]) /\ Covers(plans[b.of], b)
      BY CoveredOrLeft
    <2>2. b.number = plans[b.of].number
      <3>1. CASE restarts = 0 /\ state[b.of] \in {"active", "superseded", "cancelled"}
        <4>1. state[b.of] # "cancelled"
          BY <2>1, <3>1 DEF IInv, OffInv, OffPlan
        <4>2. QED
          BY <2>1, <3>1, <4>1 DEF IInv, TrueInv
      <3>2. CASE number[b.code] = 0
        <4>1. plans[b.of].number \in Nat /\ plans[b.of].number <= number[b.code]
          BY <2>1, MessageTypes DEF Genuine, Covers
        <4>2. PICK m \in Messages : Genuine(m) /\ b = Broadcast(m, b.cell)
          BY DEF IInv, AirInv, GenuineAir
        <4>3. m.number \in Nat /\ m.number <= number[b.code] /\ b.number = m.number
          BY <4>2, MessageTypes, BroadcastParts DEF Genuine
        <4>4. QED
          BY <3>2, <4>1, <4>3
      <3>3. QED
        BY <3>1, <3>2
    <2>3. QED
      BY <2>1, <2>2 DEF Stops
  <1>2. QED
    BY Invariance, <1>1, PTL

\* Ingest makes an alert active only when every MME carries it, whatever failed,
\* was retried or crashed before, as long as no eNB restarts.
THEOREM ActivatedEverywhereHolds == Spec => ActivatedEverywhere
  <1>1. ASSUME IInv, [Next]_vars
        PROVE  [ActivatedOnceCarried]_vars
    <2> SUFFICES ASSUME Next, NEW x \in Ids, restarts = 0, state[x] # "active", state'[x] = "active",
                        NEW p \in Peers
                 PROVE  Carries(p, plans[x])
      BY <1>1 DEF ActivatedOnceCarried
    <2>1. CASE PublishEnd
      <3>1. /\ publish # None /\ ~Sending /\ state' = Upsert(publish.alert)
            /\ TypeOK /\ PublishInv
        BY <1>1, <2>1 DEF PublishEnd, IInv
      <3>2. /\ publish.alert \in Alerts
            /\ publish.alert.msgType # "Cancel" => Reached(1, p)
        BY <3>1, EndFacts
      <3>3. x = publish.alert.id /\ publish.alert.msgType # "Cancel"
        BY <3>1, <3>2, UpsertFacts
      <3>4. QED
        BY <1>1, <3>1, <3>2, <3>3 DEF IInv, WriteInv, CarriesOnly
    <2>2. CASE \E y \in Ids : Expire(y)
      <3>1. PICK y \in Ids : state' = [state EXCEPT ![y] = "none"]
        BY <2>2 DEF Expire
      <3>2. state'[x] = state[x] \/ state'[x] = "none"
        BY <1>1, <3>1 DEF IInv, TypeOK
      <3>3. QED
        BY <3>2
    <2>3. CASE ~PublishEnd /\ ~\E y \in Ids : Expire(y)
      <3>1. UNCHANGED state
        BY <2>3 DEF Next, PublishBegin, SendAccepted, SendFails, EnbRestarts, LoadAlerts, Rebroadcast,
                    HandlerEnds, NextRecord, Crash
      <3>2. QED
        BY <3>1
    <2>4. QED
      BY <2>1, <2>2, <2>3
  <1>2. QED
    BY Invariance, <1>1, PTL DEF Spec, ActivatedEverywhere

\* A delivery that is carried out at a peer takes only what has one of the codes
\* it is about off the air.
LEMMA CarryLoses ==
    ASSUME IInv, Sending, Current # None, Carry(publish.peer),
           NEW p \in Peers, NEW b \in air[p], b \notin air'[p]
    PROVE  publish # None /\ b.code \in CodesOf(publish.alert)
  <1>1. TypeOK /\ PublishInv /\ PlansInv
    BY DEF IInv
  <1>2. /\ publish # None /\ publish.alert \in Alerts /\ publish.peer \in Peers
        /\ publish.alert.msgType = "Cancel" =>
              /\ publish.plan \in 1..Len(publish.alert.refs)
              /\ Current = plans[publish.alert.refs[publish.plan]]
    BY <1>1, SendFacts
  <1>3. /\ Current \in Messages /\ Genuine(Current)
        /\ \A q \in Peers : q # publish.peer => air'[q] = air[q]
        /\ publish.alert.msgType # "Cancel" => Current.of = publish.alert.id
        /\ \A n \in air[publish.peer] : n \notin air'[publish.peer] => n.code = Current.code
    BY CarryFacts
  <1>4. b.code = Current.code
    BY <1>2, <1>3
  <1>5. CASE publish.alert.msgType = "Cancel"
    <2>1. publish.alert.refs[publish.plan] \in References(publish.alert)
      BY <1>2, <1>5 DEF References
    <2>2. QED
      BY <1>2, <1>4, <1>5, <2>1 DEF CodesOf
  <1>6. CASE publish.alert.msgType # "Cancel"
    <2>1. Current.code.root = Root(publish.alert)
      BY <1>2, <1>3, <1>6, RootOfAlert
    <2>2. Current.code \in Codes
      BY <1>3, MessageTypes
    <2>3. QED
      BY <1>2, <1>4, <1>6, <2>1, <2>2 DEF CodesOf
  <1>7. QED
    BY <1>5, <1>6

\* The plan of an active alert is not replaced.
LEMMA ActiveKeepsPlan ==
    ASSUME IInv, Next, NEW x \in Ids, state[x] = "active"
    PROVE  plans'[x] = plans[x]
  <1>1. CASE \E a \in Alerts : PublishBegin(a)
    <2>1. PICK a \in Alerts : PublishBegin(a)
      BY <1>1
    <2>2. a.id # x
      BY <2>1 DEF PublishBegin
    <2>3. plans' = plans \/ \E m : plans' = [plans EXCEPT ![a.id] = m]
      BY <2>1 DEF PublishBegin
    <2>4. QED
      BY <2>2, <2>3 DEF IInv, TypeOK
  <1>2. CASE ~\E a \in Alerts : PublishBegin(a)
    BY <1>2 DEF Next, SendAccepted, SendFails, PublishEnd, EnbRestarts, LoadAlerts, Rebroadcast,
                HandlerEnds, NextRecord, Expire, Crash
  <1>3. QED
    BY <1>1, <1>2

\* An active alert loses its broadcast only to its own chain or to a restarted
\* eNB: never to the delivery of an unrelated alert, a crash or an expiry.
THEOREM ActiveKeepsBroadcastHolds == Spec => ActiveKeepsBroadcast
  <1>1. ASSUME IInv, [Next]_vars
        PROVE  [LostToOwnChain]_vars
    <2> SUFFICES ASSUME Next, NEW x \in Ids, NEW p \in Peers, state[x] = "active",
                        Carries(p, plans[x]), ~Carries(p, plans[x])'
                 PROVE  \/ restarts' # restarts
                        \/ handler[p] # None /\ handler[p].msg # None /\ handler[p].msg.code = plans[x].code
                        \/ publish # None /\ plans[x].code \in CodesOf(publish.alert)
      BY <1>1 DEF LostToOwnChain
    <2> DEFINE lost(e) == Broadcast(plans[x], e)
    <2>1. plans'[x] = plans[x]
      BY <1>1, ActiveKeepsPlan
    <2>2. PICK e \in plans[x].area : lost(e) \in air[p] /\ lost(e) \notin air'[p]
      BY <2>1 DEF Carries
    <2>3. lost(e).code = plans[x].code
      BY BroadcastParts
    <2> HIDE DEF lost
    <2>4. CASE SendAccepted \/ SendFails
      <3>1. Sending /\ Current # None /\ Carry(publish.peer)
        BY <2>2, <2>4 DEF SendAccepted, SendFails
      <3>2. QED
        BY <1>1, <2>2, <2>3, <3>1, CarryLoses
    <2>5. CASE \E q \in Peers : EnbRestarts(q)
      <3>1. restarts' = restarts + 1 /\ restarts \in Nat
        BY <1>1, <2>5, ConstantsAssumption DEF EnbRestarts, IInv, TypeOK
      <3>2. QED
        BY <3>1
    <2>6. CASE \E q \in Peers : Rebroadcast(q)
      <3>1. PICK q \in Peers : Rebroadcast(q)
        BY <2>6
      <3>2. /\ handler[q] # None /\ handler[q].msg # None
            /\ air' = [air EXCEPT ![q] = OnWrite(handler[q].msg, @)] \/ UNCHANGED air
        BY <3>1 DEF Rebroadcast
      <3>3. air \in [Peers -> SUBSET Broadcasts] /\ handler[q].msg \in Messages
        BY <1>1, <3>2 DEF IInv, TypeOK
      <3>4. p = q /\ air'[p] = OnWrite(handler[p].msg, air[p])
        BY <2>2, <3>2, <3>3
      <3>5. \A b \in air[p] : b \notin OnWrite(handler[p].msg, air[p]) => b.code = handler[p].msg.code
        BY <3>3, <3>4, AirAfter
      <3>6. QED
        BY <2>2, <2>3, <3>2, <3>4, <3>5
    <2>7. CASE /\ ~SendAccepted /\ ~SendFails /\ ~\E q \in Peers : EnbRestarts(q)
               /\ ~\E q \in Peers : Rebroadcast(q)
      <3>1. UNCHANGED air
        BY <2>7 DEF Next, PublishBegin, PublishEnd, LoadAlerts, HandlerEnds, NextRecord, Expire, Crash
      <3>2. QED
        BY <2>2, <3>1
    <2>8. QED
      BY <2>4, <2>5, <2>6, <2>7
  <1>2. QED
    BY Invariance, <1>1, PTL DEF Spec, ActiveKeepsBroadcast

=============================================================================
