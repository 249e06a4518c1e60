----------------------- MODULE AlertLifecycle_proof -----------------------
(***************************************************************************)
(* Theorems about AlertLifecycle, for any set of CAP messages and any      *)
(* clock.  Index and store are compared through Retained: the index as it  *)
(* will be once the Ingest call that holds the lock has written it.        *)
(***************************************************************************)
EXTENDS AlertLifecycle, TLAPS

\* No CAP message references itself.
NoSelfReference == \A a \in Alerts : a.id \notin a.refs

\* An identifier is used for one message.
OneMessagePerId == \A a, b \in Alerts : a.id = b.id => a = b

\* No expiry is written with an offset behind UTC.
NotBehindUtc == \A a \in Alerts : a.offset >= 0

Tables == [Ids -> Records \cup {None}]

Retained == IF LockFree THEN alerts ELSE RetainRecords(ingest.alert)

Swept == IF sweep = None THEN {} ELSE sweep.ids

\* Everything the index holds, or is about to hold, is in the store.
Backed == \A x \in Ids \ Swept : Retained[x] # None => Retained[x] = db[x]

\* Everything in the store is in the index, and what a sweep has deleted from
\* the store is still in the index, so that it is not ingested again before
\* the sweep is over.
Indexed ==
    up => \A x \in Ids :
            /\ x \notin Swept /\ db[x] # None => Retained[x] = db[x]
            /\ x \in Swept => db[x] = None /\ Retained[x] # None

\* Rows and records are filed under the identifier of their message.
Filed ==
    \A x \in Ids : /\ db[x] # None => db[x].cap.id = x
                   /\ Retained[x] # None => Retained[x].cap.id = x

-----------------------------------------------------------------------------
(* The operators *)

\* The parts of a CAP message have their types.
LEMMA CapType ==
    ASSUME NEW a \in Alerts
    PROVE  a.id \in Ids /\ a.refs \subseteq Ids
BY AlertsAssumption DEF CapMessages

\* A new record is a record of its message.
LEMMA NewRecordType ==
    ASSUME NEW a \in Alerts
    PROVE  NewRecord(a) \in Records /\ NewRecord(a) # None /\ NewRecord(a).cap = a
BY AlertsAssumption DEF NewRecord, Records, States

\* Marking references keeps a table a table, and every row its message; it
\* touches active rows among the references only.
LEMMA MarkReferencesLemma ==
    ASSUME NEW f \in Tables, NEW a \in Alerts
    PROVE  /\ MarkReferences(f, a) \in Tables
           /\ \A x \in Ids : (MarkReferences(f, a)[x] = None) <=> (f[x] = None)
           /\ \A x \in Ids : f[x] # None => MarkReferences(f, a)[x].cap = f[x].cap
           /\ \A x \in Ids \ a.refs : MarkReferences(f, a)[x] = f[x]
           /\ \A x \in Ids : f[x] # None /\ f[x].state # "active" => MarkReferences(f, a)[x] = f[x]
<1> DEFINE M == MarkReferences(f, a)
<1>1. ASSUME NEW x \in Ids
      PROVE  /\ M[x] \in Records \cup {None}
             /\ (M[x] = None) <=> (f[x] = None)
             /\ f[x] # None => M[x].cap = f[x].cap
             /\ x \notin a.refs => M[x] = f[x]
             /\ f[x] # None /\ f[x].state # "active" => M[x] = f[x]
  <2>1. M[x] = IF x \in a.refs /\ f[x] # None /\ f[x].state = "active"
               THEN [cap |-> f[x].cap, state |-> ReferenceState(a)] ELSE f[x]
    BY DEF MarkReferences
  <2>2. f[x] \in Records \cup {None}
    BY DEF Tables
  <2>3. CASE x \in a.refs /\ f[x] # None /\ f[x].state = "active"
    <3>1. f[x].cap \in Alerts
      BY <2>2, <2>3 DEF Records
    <3>2. [cap |-> f[x].cap, state |-> ReferenceState(a)] \in Records
      BY <3>1 DEF Records, States, ReferenceState
    <3>3. M[x] = [cap |-> f[x].cap, state |-> ReferenceState(a)]
      BY <2>1, <2>3
    <3> QED BY <2>3, <3>2, <3>3, AlertsAssumption
  <2>4. CASE ~(x \in a.refs /\ f[x] # None /\ f[x].state = "active")
    BY <2>1, <2>2, <2>4
  <2> QED BY <2>3, <2>4
<1>2. M \in Tables
  BY <1>1 DEF MarkReferences, Tables
<1> QED BY <1>1, <1>2

\* What Store.Upsert makes of the table.
LEMMA UpsertRowsLemma ==
    ASSUME NEW a \in Alerts, db \in Tables
    PROVE  /\ UpsertRows(a) \in Tables
           /\ \A x \in Ids : db[x] # None => UpsertRows(a)[x] # None
           /\ UpsertRows(a)[a.id] # None /\ UpsertRows(a)[a.id].cap = a
           /\ a.id \notin a.refs => UpsertRows(a)[a.id] = NewRecord(a)
           /\ \A x \in Ids \ {a.id} : UpsertRows(a)[x] = MarkReferences(db, a)[x]
<1> DEFINE T == [db EXCEPT ![a.id] = NewRecord(a)]
<1>1. a.id \in Ids
  BY CapType
<1>2. T \in Tables
  BY <1>1, NewRecordType DEF Tables
<1>3. T[a.id] = NewRecord(a) /\ \A x \in Ids \ {a.id} : T[x] = db[x]
  BY <1>1 DEF Tables
<1>4. UpsertRows(a) = MarkReferences(T, a)
  BY DEF UpsertRows
<1>5. \A x \in Ids \ {a.id} : UpsertRows(a)[x] = MarkReferences(db, a)[x]
  BY <1>3, <1>4 DEF MarkReferences
<1>6. /\ MarkReferences(T, a) \in Tables
      /\ \A x \in Ids : (MarkReferences(T, a)[x] = None) <=> (T[x] = None)
      /\ \A x \in Ids : T[x] # None => MarkReferences(T, a)[x].cap = T[x].cap
      /\ \A x \in Ids \ a.refs : MarkReferences(T, a)[x] = T[x]
  <2> HIDE DEF T
  <2> QED BY <1>2, MarkReferencesLemma
<1>7. NewRecord(a) # None /\ NewRecord(a).cap = a
  BY NewRecordType
<1> HIDE DEF T
<1> QED BY <1>1, <1>3, <1>4, <1>5, <1>6, <1>7

\* What Ingest makes of the index.
LEMMA RetainRecordsLemma ==
    ASSUME NEW a \in Alerts, alerts \in Tables
    PROVE  /\ RetainRecords(a) \in Tables
           /\ RetainRecords(a)[a.id] = NewRecord(a)
           /\ \A x \in Ids \ {a.id} : RetainRecords(a)[x] = MarkReferences(alerts, a)[x]
BY MarkReferencesLemma, NewRecordType, CapType DEF RetainRecords, Tables

\* What an expiry sweep makes of a table.
LEMMA WithoutLemma ==
    ASSUME NEW f \in Tables, NEW S
    PROVE  /\ Without(f, S) \in Tables
           /\ \A x \in Ids : Without(f, S)[x] = IF x \in S THEN None ELSE f[x]
BY DEF Without, Tables

\* The operations on the tables keep their type.
LEMMA StoreExpireType ==
    ASSUME TypeOK, StoreExpire(now)
    PROVE  /\ db' \in Tables /\ audit' \subseteq AuditTypes \X Ids
           /\ DueRows(now) \subseteq Ids
<1>1. db \in Tables
  BY DEF TypeOK, Tables
<1>2. db' \in Tables
  BY <1>1, WithoutLemma DEF StoreExpire
<1>3. DueRows(now) \subseteq Ids
  BY DEF DueRows
<1>4. audit' \subseteq AuditTypes \X Ids
  BY <1>3 DEF StoreExpire, AuditTypes, TypeOK
<1> QED BY <1>2, <1>3, <1>4

-----------------------------------------------------------------------------
(* Type correctness *)

\* The first start is well typed.
LEMMA InitType == Init => TypeOK
<1> SUFFICES ASSUME Init PROVE TypeOK
  OBVIOUS
<1>1. db \in Tables
  <2>1. CASE db = [x \in Ids |-> None]
    BY <2>1 DEF Tables
  <2>2. ASSUME NEW a \in Alerts,
               db = [x \in Ids |-> IF x = a.id THEN [cap |-> a, state |-> "expired"] ELSE None]
        PROVE  db \in Tables
    <3>1. [cap |-> a, state |-> "expired"] \in Records
      BY DEF Records, States
    <3> QED BY <2>2, <3>1 DEF Tables
  <2> QED BY <2>1, <2>2 DEF Init
<1>2. alerts = [x \in Ids |-> None] /\ alerts \in Tables
  BY DEF Init, Tables
<1>3. now \in 0..MaxTime /\ audit = {} /\ ingest = None /\ sweep = None /\ up = FALSE
  BY DEF Init
<1> QED BY <1>1, <1>2, <1>3 DEF TypeOK, Tables

\* Every step is well typed.
LEMMA NextType == TypeOK /\ [Next]_vars => TypeOK'
<1> SUFFICES ASSUME TypeOK, [Next]_vars PROVE TypeOK'
  OBVIOUS
<1>1. db \in Tables /\ alerts \in Tables
  BY DEF TypeOK, Tables
<1>2. ASSUME NEW a \in Alerts, IngestBegin(a) PROVE TypeOK'
  BY <1>2 DEF IngestBegin, TypeOK
<1>3. CASE IngestRefused
  BY <1>3 DEF IngestRefused, TypeOK
<1>4. CASE IngestUpsert
  <2> DEFINE a == ingest.alert
  <2>1. a \in Alerts /\ up
    BY <1>4 DEF IngestUpsert, TypeOK
  <2>2. CASE Duplicate(a)
    BY <1>4, <2>2 DEF IngestUpsert, TypeOK
  <2>3. CASE ~Duplicate(a)
    <3>1. /\ db' = UpsertRows(a)
          /\ audit' = audit \cup {<<EventType(a), a.id>>}
          /\ ingest' = [alert |-> a, phase |-> "persisted"]
          /\ UNCHANGED <<alerts, sweep, now, up>>
      BY <1>4, <2>3 DEF IngestUpsert
    <3>2. db' \in Tables
      BY <1>1, <2>1, <3>1, UpsertRowsLemma
    <3>3. <<EventType(a), a.id>> \in AuditTypes \X Ids
      BY <2>1, CapType DEF EventType, AuditTypes
    <3> HIDE DEF a
    <3> QED BY <2>1, <3>1, <3>2, <3>3 DEF TypeOK, Tables
  <2> QED BY <2>2, <2>3
<1>5. CASE IngestRetain
  <2>1. ingest.alert \in Alerts /\ up
    BY <1>5 DEF IngestRetain, TypeOK
  <2>2. alerts' \in Tables
    BY <1>1, <1>5, <2>1, RetainRecordsLemma DEF IngestRetain
  <2> QED BY <1>5, <2>1, <2>2 DEF IngestRetain, TypeOK, Tables
<1>6. CASE ExpireRows
  <2>1. db' \in Tables /\ audit' \subseteq AuditTypes \X Ids /\ DueRows(now) \subseteq Ids
    BY <1>6, StoreExpireType DEF ExpireRows
  <2> QED BY <1>6, <2>1 DEF ExpireRows, TypeOK, Tables
<1>7. CASE ExpireIndex
  <2>1. alerts' \in Tables
    BY <1>1, <1>7, WithoutLemma DEF ExpireIndex
  <2>2. up
    BY <1>7 DEF ExpireIndex, TypeOK
  <2> QED BY <1>7, <2>1, <2>2 DEF ExpireIndex, TypeOK, Tables
<1>8. CASE Crash
  BY <1>8 DEF Crash, TypeOK
<1>9. CASE Recover
  <2>1. db' \in Tables /\ audit' \subseteq AuditTypes \X Ids
    BY <1>9, StoreExpireType DEF Recover
  <2>2. alerts' \in Tables
    BY <1>9, <2>1 DEF Recover
  <2> QED BY <1>9, <2>1, <2>2 DEF Recover, TypeOK, Tables
<1>10. CASE Tick
  BY <1>10, AlertsAssumption DEF Tick, TypeOK
<1>11. CASE UNCHANGED vars
  BY <1>11 DEF vars, TypeOK
<1> QED BY <1>2, <1>3, <1>4, <1>5, <1>6, <1>7, <1>8, <1>9, <1>10, <1>11 DEF Next

\* Rows, records and calls are always well formed, whatever is ingested: in
\* particular a stored state is one the code knows, and a process that is
\* down holds neither index nor call.
THEOREM TypeCorrect == Spec => []TypeOK
BY InitType, NextType, PTL DEF Spec

-----------------------------------------------------------------------------
(* Index and store *)

\* The six ways a step changes the store and the index that is, or is about to
\* be, retained.
Idle ==
    /\ db' = db /\ audit' = audit /\ up' = up
    /\ Retained' = Retained /\ Swept' = Swept

Upserts(a) ==
    /\ up /\ up' = up /\ LockFree /\ ~Duplicate(a)
    /\ db' = UpsertRows(a) /\ audit' = audit \cup {<<EventType(a), a.id>>}
    /\ Retained' = RetainRecords(a) /\ Swept' = Swept

Deletes ==
    /\ up' = up
    /\ StoreExpire(now)
    /\ Retained' = Retained /\ Swept = {} /\ Swept' = DueRows(now)

Prunes ==
    /\ db' = db /\ audit' = audit /\ up' = up
    /\ Retained' = Without(Retained, Swept) /\ Swept' = {}

Dies ==
    /\ db' = db /\ audit' = audit /\ ~up'
    /\ Retained' = [x \in Ids |-> None] /\ Swept' = {}

Restarts ==
    /\ StoreExpire(now)
    /\ Retained' = db' /\ Swept' = {}

\* Every step is one of the six.
LEMMA StepEffect ==
    ASSUME TypeOK, [Next]_vars
    PROVE  \/ Idle \/ Deletes \/ Prunes \/ Dies \/ Restarts
           \/ \E a \in Alerts : Upserts(a)
<1>1. ASSUME NEW a \in Alerts, IngestBegin(a) PROVE Idle
  <2>1. LockFree /\ LockFree'
    BY <1>1 DEF IngestBegin, LockFree
  <2> QED BY <1>1, <2>1 DEF IngestBegin, Idle, Retained, Swept
<1>2. CASE IngestRefused
  <2>1. LockFree /\ LockFree'
    BY <1>2 DEF IngestRefused, LockFree
  <2> QED BY <1>2, <2>1 DEF IngestRefused, Idle, Retained, Swept
<1>3. CASE IngestUpsert
  <2>1. LockFree /\ ingest # None /\ up /\ ingest.alert \in Alerts
    BY <1>3 DEF IngestUpsert, LockFree, TypeOK
  <2>2. CASE Duplicate(ingest.alert)
    <3>1. LockFree'
      BY <1>3, <2>2 DEF IngestUpsert, LockFree
    <3>2. Idle
      BY <1>3, <2>1, <2>2, <3>1 DEF IngestUpsert, Idle, Retained, Swept
    <3> QED BY <3>2
  <2>3. CASE ~Duplicate(ingest.alert)
    <3>1. ingest' = [alert |-> ingest.alert, phase |-> "persisted"] /\ alerts' = alerts
      BY <1>3, <2>3 DEF IngestUpsert
    <3>2. ~LockFree'
      BY <3>1, AlertsAssumption, <2>1 DEF LockFree
    <3>3. Retained' = RetainRecords(ingest.alert)
      BY <3>1, <3>2 DEF Retained, RetainRecords, MarkReferences
    <3>4. Upserts(ingest.alert)
      BY <1>3, <2>1, <2>3, <3>3 DEF IngestUpsert, Upserts, Swept
    <3> QED BY <2>1, <3>4
  <2> QED BY <2>2, <2>3
<1>4. CASE IngestRetain
  <2>1. ~LockFree /\ LockFree'
    BY <1>4 DEF IngestRetain, LockFree
  <2> QED BY <1>4, <2>1 DEF IngestRetain, Idle, Retained, Swept
<1>5. CASE ExpireRows
  <2>1. Retained' = Retained
    BY <1>5 DEF ExpireRows, Retained, LockFree, RetainRecords, MarkReferences
  <2>2. DueRows(now) \in SUBSET Ids
    BY DEF DueRows
  <2>3. sweep' # None
    BY <1>5, <2>2, AlertsAssumption DEF ExpireRows
  <2>4. Swept = {} /\ Swept' = DueRows(now)
    BY <1>5, <2>3 DEF ExpireRows, Swept
  <2>5. Deletes
    BY <1>5, <2>1, <2>4 DEF ExpireRows, Deletes
  <2> QED BY <2>5
<1>6. CASE ExpireIndex
  <2>1. LockFree /\ LockFree'
    BY <1>6 DEF ExpireIndex, LockFree
  <2> QED BY <1>6, <2>1 DEF ExpireIndex, Prunes, Retained, Swept
<1>7. CASE Crash
  <2>1. LockFree'
    BY <1>7 DEF Crash, LockFree
  <2> QED BY <1>7, <2>1 DEF Crash, Dies, Retained, Swept
<1>8. CASE Recover
  <2>1. ingest' = None /\ sweep' = None
    BY <1>8 DEF Recover, TypeOK
  <2>2. LockFree'
    BY <2>1 DEF LockFree
  <2> QED BY <1>8, <2>1, <2>2 DEF Recover, Restarts, Retained, Swept
<1>9. CASE Tick
  <2>1. Retained' = Retained
    BY <1>9 DEF Tick, Retained, LockFree, RetainRecords, MarkReferences
  <2> QED BY <1>9, <2>1 DEF Tick, Idle, Swept
<1>10. CASE UNCHANGED vars
  <2>1. Retained' = Retained
    BY <1>10 DEF vars, Retained, LockFree, RetainRecords, MarkReferences
  <2> QED BY <1>10, <2>1 DEF vars, Idle, Swept
<1> QED BY <1>1, <1>2, <1>3, <1>4, <1>5, <1>6, <1>7, <1>8, <1>9, <1>10 DEF Next

\* The index that is about to be retained is a table.
LEMMA RetainedType ==
    ASSUME TypeOK
    PROVE  db \in Tables /\ alerts \in Tables /\ Retained \in Tables
<1>1. db \in Tables /\ alerts \in Tables
  BY DEF TypeOK, Tables
<1>2. CASE LockFree
  BY <1>1, <1>2 DEF Retained
<1>3. CASE ~LockFree
  <2>1. ingest.alert \in Alerts
    BY <1>3 DEF LockFree, TypeOK
  <2> QED BY <1>1, <1>3, <2>1, RetainRecordsLemma DEF Retained
<1> QED BY <1>1, <1>2, <1>3

-----------------------------------------------------------------------------
(* What the operator API shows is in the store *)

\* An empty index is backed.
LEMMA InitBacked == Init => Backed
<1> SUFFICES ASSUME Init PROVE Backed
  OBVIOUS
<1>1. Retained = [x \in Ids |-> None]
  BY DEF Init, Retained, LockFree
<1> QED BY <1>1 DEF Backed

\* Ingest writes the same row to the store and to the index, for every
\* identifier, if the two agreed before.
LEMMA UpsertAgrees ==
    ASSUME TypeOK, NoSelfReference, NEW a \in Alerts, Upserts(a), NEW x \in Ids,
           Retained[x] = db[x] \/ x = a.id
    PROVE  Retained'[x] = db'[x]
<1>1. db \in Tables /\ alerts \in Tables /\ Retained = alerts
  BY RetainedType DEF Upserts, Retained
<1>2. CASE x = a.id
  <2>1. RetainRecords(a)[x] = NewRecord(a)
    BY <1>1, <1>2, RetainRecordsLemma
  <2>2. UpsertRows(a)[x] = NewRecord(a)
    BY <1>1, <1>2, UpsertRowsLemma DEF NoSelfReference
  <2> QED BY <2>1, <2>2 DEF Upserts
<1>3. CASE x # a.id
  <2>1. RetainRecords(a)[x] = MarkReferences(alerts, a)[x]
    BY <1>1, <1>3, RetainRecordsLemma
  <2>2. UpsertRows(a)[x] = MarkReferences(db, a)[x]
    BY <1>1, <1>3, UpsertRowsLemma
  <2>3. alerts[x] = db[x]
    BY <1>1, <1>3
  <2>4. MarkReferences(alerts, a)[x] = MarkReferences(db, a)[x]
    BY <2>3 DEF MarkReferences
  <2> QED BY <2>1, <2>2, <2>4 DEF Upserts
<1> QED BY <1>2, <1>3

\* An identifier the index does not hold is not added for another message.
LEMMA UpsertAddsOwn ==
    ASSUME TypeOK, NEW a \in Alerts, Upserts(a), NEW x \in Ids, x # a.id
    PROVE  /\ (Retained'[x] = None) <=> (Retained[x] = None)
           /\ (db'[x] = None) <=> (db[x] = None)
           /\ Retained[x] # None => Retained'[x].cap = Retained[x].cap
           /\ db[x] # None => db'[x].cap = db[x].cap
<1>1. db \in Tables /\ alerts \in Tables /\ Retained = alerts
  BY RetainedType DEF Upserts, Retained
<1>2. Retained'[x] = MarkReferences(alerts, a)[x]
  BY <1>1, RetainRecordsLemma DEF Upserts
<1>3. db'[x] = MarkReferences(db, a)[x]
  BY <1>1, UpsertRowsLemma DEF Upserts
<1> QED BY <1>1, <1>2, <1>3, MarkReferencesLemma

\* Every step keeps the index backed.
LEMMA NextBacked ==
    ASSUME TypeOK, NoSelfReference, Backed, [Next]_vars
    PROVE  Backed'
<1>1. db \in Tables /\ Retained \in Tables
  BY RetainedType
<1>2. CASE Idle
  BY <1>2 DEF Idle, Backed
<1>3. ASSUME NEW a \in Alerts, Upserts(a) PROVE Backed'
  <2> SUFFICES ASSUME NEW x \in Ids, x \notin Swept, Retained'[x] # None
               PROVE  Retained'[x] = db'[x]
    BY <1>3 DEF Backed, Upserts
  <2>1. CASE x = a.id
    BY <1>3, <2>1, UpsertAgrees
  <2>2. CASE x # a.id
    <3>1. Retained[x] # None
      BY <1>3, <2>2, UpsertAddsOwn
    <3>2. Retained[x] = db[x]
      BY <3>1 DEF Backed
    <3> QED BY <1>3, <3>2, UpsertAgrees
  <2> QED BY <2>1, <2>2
<1>4. CASE Deletes
  <2>1. \A x \in Ids : x \notin DueRows(now) => db'[x] = db[x]
    BY <1>1, <1>4, WithoutLemma DEF Deletes, StoreExpire
  <2> QED BY <1>4, <2>1 DEF Deletes, Backed
<1>5. CASE Prunes
  <2>1. \A x \in Ids : Retained'[x] = IF x \in Swept THEN None ELSE Retained[x]
    BY <1>1, <1>5, WithoutLemma DEF Prunes
  <2> QED BY <1>5, <2>1 DEF Prunes, Backed
<1>6. CASE Dies
  BY <1>6 DEF Dies, Backed
<1>7. CASE Restarts
  BY <1>7 DEF Restarts, Backed
<1> QED BY <1>2, <1>3, <1>4, <1>5, <1>6, <1>7, StepEffect

\* Outside the calls in progress the retained index is the index.
LEMMA OutsideInFlight ==
    ASSUME TypeOK, NEW x \in Ids \ InFlight
    PROVE  x \notin Swept /\ Retained[x] = alerts[x]
<1>1. x \notin Swept
  BY DEF InFlight, Swept
<1>2. CASE LockFree
  BY <1>1, <1>2 DEF Retained
<1>3. CASE ~LockFree
  <2>1. ingest.alert \in Alerts /\ alerts \in Tables
    BY <1>3, RetainedType DEF LockFree, TypeOK
  <2>2. x # ingest.alert.id /\ x \notin ingest.alert.refs
    BY <1>3 DEF InFlight
  <2>3. RetainRecords(ingest.alert)[x] = alerts[x]
    BY <2>1, <2>2, RetainRecordsLemma, MarkReferencesLemma
  <2> QED BY <1>1, <1>3, <2>3 DEF Retained
<1> QED BY <1>2, <1>3

\* What the operator API shows survives a crash: whatever is ingested, however
\* sweeps and restarts interleave with it, every record of the index is the
\* row of the store unless a call is between its two writes.
THEOREM IndexIsBackedHolds == NoSelfReference => (Spec => []IndexIsBacked)
<1> SUFFICES ASSUME NoSelfReference PROVE Spec => []IndexIsBacked
  OBVIOUS
<1>1. Init => TypeOK /\ Backed
  BY InitType, InitBacked
<1>2. TypeOK /\ Backed /\ [Next]_vars => (TypeOK /\ Backed)'
  BY NextType, NextBacked
<1>3. TypeOK /\ Backed => IndexIsBacked
  BY OutsideInFlight DEF Backed, IndexIsBacked
<1> QED BY <1>1, <1>2, <1>3, PTL DEF Spec

-----------------------------------------------------------------------------
(* The store is indexed, and what went down stays down *)

\* The first start: nothing runs, and rows are filed under their identifiers.
LEMMA InitIndexed == Init => Indexed /\ Filed
<1> SUFFICES ASSUME Init PROVE Indexed /\ Filed
  OBVIOUS
<1>1. Retained = [x \in Ids |-> None] /\ up = FALSE
  BY DEF Init, Retained, LockFree
<1>2. ASSUME NEW x \in Ids, db[x] # None PROVE db[x].cap.id = x
  <2>1. CASE db = [y \in Ids |-> None]
    BY <1>2, <2>1
  <2>2. ASSUME NEW a \in Alerts,
               db = [y \in Ids |-> IF y = a.id THEN [cap |-> a, state |-> "expired"] ELSE None]
        PROVE  db[x].cap.id = x
    BY <1>2, <2>2
  <2> QED BY <2>1, <2>2 DEF Init
<1> QED BY <1>1, <1>2 DEF Indexed, Filed

\* Ingest never writes over a record of the same message: its second check,
\* under the lock, finds it.
LEMMA UpsertIsNew ==
    ASSUME TypeOK, OneMessagePerId, Filed, NEW a \in Alerts, Upserts(a)
    PROVE  Retained[a.id] = None
<1>1. alerts \in Tables /\ Retained = alerts /\ a.id \in Ids
  BY RetainedType, CapType DEF Upserts, Retained
<1>2. ASSUME alerts[a.id] # None PROVE FALSE
  <2>1. alerts[a.id] \in Records
    BY <1>1, <1>2 DEF Tables
  <2>2. alerts[a.id].cap \in Alerts /\ alerts[a.id].cap.id = a.id
    BY <1>1, <1>2, <2>1 DEF Records, Filed
  <2>3. alerts[a.id].cap = a
    BY <2>2 DEF OneMessagePerId
  <2> QED BY <1>2, <2>3 DEF Upserts, Duplicate
<1> QED BY <1>1, <1>2

\* Every step keeps rows and records under their identifiers.
LEMMA NextFiled ==
    ASSUME TypeOK, Filed, [Next]_vars
    PROVE  Filed'
<1>1. db \in Tables /\ Retained \in Tables
  BY RetainedType
<1>2. CASE Idle
  BY <1>2 DEF Idle, Filed
<1>3. ASSUME NEW a \in Alerts, Upserts(a) PROVE Filed'
  <2> SUFFICES ASSUME NEW x \in Ids
               PROVE  /\ db'[x] # None => db'[x].cap.id = x
                      /\ Retained'[x] # None => Retained'[x].cap.id = x
    BY DEF Filed
  <2>1. CASE x = a.id
    <3>1. alerts \in Tables
      BY RetainedType
    <3>2. db'[x].cap = a
      BY <1>1, <1>3, <2>1, UpsertRowsLemma DEF Upserts
    <3>3. Retained'[x].cap = a
      BY <1>3, <2>1, <3>1, RetainRecordsLemma, NewRecordType DEF Upserts
    <3> QED BY <2>1, <3>2, <3>3
  <2>2. CASE x # a.id
    BY <1>3, <2>2, UpsertAddsOwn DEF Filed
  <2> QED BY <2>1, <2>2
<1>4. CASE Deletes
  <2>1. \A x \in Ids : db'[x] = IF x \in DueRows(now) THEN None ELSE db[x]
    BY <1>1, <1>4, WithoutLemma DEF Deletes, StoreExpire
  <2> QED BY <1>4, <2>1 DEF Deletes, Filed
<1>5. CASE Prunes
  <2>1. \A x \in Ids : Retained'[x] = IF x \in Swept THEN None ELSE Retained[x]
    BY <1>1, <1>5, WithoutLemma DEF Prunes
  <2> QED BY <1>5, <2>1 DEF Prunes, Filed
<1>6. CASE Dies
  BY <1>6 DEF Dies, Filed
<1>7. CASE Restarts
  <2>1. \A x \in Ids : db'[x] = IF x \in DueRows(now) THEN None ELSE db[x]
    BY <1>1, <1>7, WithoutLemma DEF Restarts, StoreExpire
  <2> QED BY <1>7, <2>1 DEF Restarts, Filed
<1> QED BY <1>2, <1>3, <1>4, <1>5, <1>6, <1>7, StepEffect

\* Every step keeps the store indexed.
LEMMA NextIndexed ==
    ASSUME TypeOK, NoSelfReference, OneMessagePerId, Filed, Indexed, [Next]_vars
    PROVE  Indexed'
<1>1. db \in Tables /\ Retained \in Tables
  BY RetainedType
<1>2. CASE Idle
  BY <1>2 DEF Idle, Indexed
<1>3. ASSUME NEW a \in Alerts, Upserts(a) PROVE Indexed'
  <2> SUFFICES ASSUME NEW x \in Ids
               PROVE  /\ x \notin Swept /\ db'[x] # None => Retained'[x] = db'[x]
                      /\ x \in Swept => db'[x] = None /\ Retained'[x] # None
    BY <1>3 DEF Indexed, Upserts
  <2>1. up
    BY <1>3 DEF Upserts
  <2>2. CASE x = a.id
    <3>1. x \notin Swept
      BY <1>3, <2>1, <2>2, UpsertIsNew DEF Indexed
    <3> QED BY <1>3, <2>2, <3>1, UpsertAgrees
  <2>3. CASE x # a.id
    BY <1>3, <2>1, <2>3, UpsertAddsOwn, UpsertAgrees DEF Indexed
  <2> QED BY <2>2, <2>3
<1>4. CASE Deletes
  <2>1. \A x \in Ids : db'[x] = IF x \in DueRows(now) THEN None ELSE db[x]
    BY <1>1, <1>4, WithoutLemma DEF Deletes, StoreExpire
  <2>2. \A x \in DueRows(now) : db[x] # None
    BY DEF DueRows
  <2> QED BY <1>4, <2>1, <2>2 DEF Deletes, Indexed
<1>5. CASE Prunes
  <2>1. \A x \in Ids : Retained'[x] = IF x \in Swept THEN None ELSE Retained[x]
    BY <1>1, <1>5, WithoutLemma DEF Prunes
  <2> QED BY <1>5, <2>1 DEF Prunes, Indexed
<1>6. CASE Dies
  BY <1>6 DEF Dies, Indexed
<1>7. CASE Restarts
  BY <1>7 DEF Restarts, Indexed
<1> QED BY <1>2, <1>3, <1>4, <1>5, <1>6, <1>7, StepEffect

IndexInv == TypeOK /\ Indexed /\ Filed

\* The inductive invariant behind the two theorems that follow.
LEMMA IndexInvHolds ==
    NoSelfReference /\ OneMessagePerId => (Spec => []IndexInv)
<1> SUFFICES ASSUME NoSelfReference, OneMessagePerId PROVE Spec => []IndexInv
  OBVIOUS
<1>1. Init => IndexInv
  BY InitType, InitIndexed DEF IndexInv
<1>2. IndexInv /\ [Next]_vars => IndexInv'
  BY NextType, NextIndexed, NextFiled DEF IndexInv
<1> QED BY <1>1, <1>2, PTL DEF Spec

\* No row of the store is missing from the index of a running process, as long
\* as an identifier is used for one message only: of two, the sweep of the
\* first could prune the second, just ingested, from the index.
THEOREM StoreIsIndexedHolds ==
    NoSelfReference /\ OneMessagePerId => (Spec => []StoreIsIndexed)
<1> SUFFICES ASSUME NoSelfReference, OneMessagePerId PROVE Spec => []StoreIsIndexed
  OBVIOUS
<1>1. IndexInv => StoreIsIndexed
  BY OutsideInFlight DEF IndexInv, Indexed, StoreIsIndexed
<1> QED BY <1>1, IndexInvHolds, PTL

\* A superseded or cancelled message stays so: the store is indexed, hence the
\* check of Ingest finds every row it could overwrite with its own message.
LEMMA NextStaysDown ==
    ASSUME OneMessagePerId, IndexInv, [Next]_vars
    PROVE  StaysDown
<1> USE DEF IndexInv
<1>1. db \in Tables
  BY RetainedType
<1> SUFFICES ASSUME NEW x \in Ids, db[x] # None, db[x].state \in {"superseded", "cancelled"},
                    db'[x] # None, db'[x].cap = db[x].cap
             PROVE  db'[x].state = db[x].state
  BY DEF StaysDown
<1>2. CASE db' = db
  BY <1>2
<1>3. ASSUME NEW a \in Alerts, Upserts(a) PROVE db'[x].state = db[x].state
  <2>1. CASE x = a.id
    <3>1. Retained[x] = None
      BY <1>3, <2>1, UpsertIsNew
    <3> QED BY <1>3, <3>1 DEF Indexed, Upserts
  <2>2. CASE x # a.id
    <3>1. db'[x] = MarkReferences(db, a)[x]
      BY <1>1, <1>3, <2>2, UpsertRowsLemma DEF Upserts
    <3>2. db'[x] = db[x]
      BY <1>1, <3>1, MarkReferencesLemma
    <3> QED BY <3>2
  <2> QED BY <2>1, <2>2
<1>4. CASE StoreExpire(now)
  BY <1>1, <1>4, WithoutLemma DEF StoreExpire
<1> QED BY <1>2, <1>3, <1>4, StepEffect DEF Idle, Deletes, Prunes, Dies, Restarts

\* A message that was superseded or cancelled never becomes active again, by
\* no redelivery, crash or sweep.
THEOREM NoResurrectionHolds ==
    NoSelfReference /\ OneMessagePerId => (Spec => NoResurrection)
<1> SUFFICES ASSUME NoSelfReference, OneMessagePerId PROVE Spec => NoResurrection
  OBVIOUS
<1>1. IndexInv /\ [Next]_vars => [StaysDown]_vars
  BY NextStaysDown
<1> QED BY <1>1, IndexInvHolds, PTL DEF Spec, NoResurrection

-----------------------------------------------------------------------------
(* Expiry *)

\* A row leaves the store only with an alert_expired event in the audit trail.
THEOREM LossIsAuditedHolds == Spec => []LossIsAudited
<1>1. Init => LossIsAudited
  BY DEF Init, LossIsAudited
<1>2. ASSUME TypeOK, LossIsAudited, [Next]_vars PROVE LossIsAudited'
  <2>1. db \in Tables
    BY <1>2, RetainedType
  <2>2. CASE db' = db /\ audit' = audit
    BY <1>2, <2>2 DEF LossIsAudited
  <2>3. ASSUME NEW a \in Alerts, Upserts(a) PROVE LossIsAudited'
    <3>1. \A x \in Ids : db[x] # None => db'[x] # None
      BY <2>1, <2>3, UpsertRowsLemma DEF Upserts
    <3>2. db'[a.id] # None
      BY <2>1, <2>3, UpsertRowsLemma DEF Upserts
    <3>3. audit' = audit \cup {<<EventType(a), a.id>>}
      BY <2>3 DEF Upserts
    <3> QED BY <1>2, <3>1, <3>2, <3>3 DEF LossIsAudited
  <2>4. CASE StoreExpire(now)
    <3>1. \A x \in Ids : db'[x] = IF x \in DueRows(now) THEN None ELSE db[x]
      BY <2>1, <2>4, WithoutLemma DEF StoreExpire
    <3>2. audit' = audit \cup {<<"alert_expired", x>> : x \in DueRows(now)}
      BY <2>4 DEF StoreExpire
    <3> QED BY <1>2, <3>1, <3>2 DEF LossIsAudited
  <2> QED BY <1>2, <2>2, <2>3, <2>4, StepEffect DEF Idle, Deletes, Prunes, Dies, Restarts
<1>3. TypeOK /\ LossIsAudited /\ [Next]_vars => LossIsAudited'
  BY <1>2
<1> QED BY <1>1, <1>3, TypeCorrect, PTL DEF Spec

\* No row is removed before its CAP expiry, if no expiry is written with an
\* offset behind UTC (the run lifecycle_offset shows that it is needed).
THEOREM NeverRemovedEarlyHolds == NotBehindUtc => (Spec => NeverRemovedEarly)
<1> SUFFICES ASSUME NotBehindUtc PROVE Spec => NeverRemovedEarly
  OBVIOUS
<1>1. ASSUME TypeOK, [Next]_vars PROVE RemovesExpired
  <2>1. db \in Tables
    BY <1>1, RetainedType
  <2> SUFFICES ASSUME NEW x \in Ids, db[x] # None, db'[x] = None
               PROVE  db[x].cap.expires <= now
    BY DEF RemovesExpired
  <2>2. db[x].cap \in Alerts
    BY <2>1 DEF Tables, Records
  <2>3. CASE StoreExpire(now)
    <3>1. x \in DueRows(now)
      BY <2>1, <2>3, WithoutLemma DEF StoreExpire
    <3>2. /\ db[x].cap.expires \in Nat
          /\ db[x].cap.offset \in Int /\ db[x].cap.offset >= 0
      BY <2>2, <3>1, AlertsAssumption DEF DueRows, CapMessages, NotBehindUtc
    <3>3. db[x].cap.expires + db[x].cap.offset <= now
      BY <3>1 DEF DueRows, ExpiresAt
    <3>4. now \in Int
      BY <1>1, AlertsAssumption DEF TypeOK
    <3> QED BY <3>2, <3>3, <3>4
  <2>4. ASSUME NEW a \in Alerts, Upserts(a) PROVE FALSE
    BY <2>1, <2>4, UpsertRowsLemma DEF Upserts
  <2> QED BY <1>1, <2>3, <2>4, StepEffect DEF Idle, Deletes, Prunes, Dies, Restarts
<1>2. TypeOK /\ [Next]_vars => [RemovesExpired]_vars
  BY <1>1
<1> QED BY <1>2, TypeCorrect, PTL DEF Spec, NeverRemovedEarly

-----------------------------------------------------------------------------
(* Table and index implement one register *)

View == [x \in Ids |-> IF ~up \/ x \in InFlight THEN db[x] ELSE alerts[x]]

RegisterInv == IndexInv /\ Backed

\* What the register shows is the table, at every moment: an index that is
\* backed and complete differs from it only where a call is in progress.
LEMMA ViewIsTable == RegisterInv => View = db
<1> SUFFICES ASSUME RegisterInv PROVE View = db
  OBVIOUS
<1>1. db \in Tables /\ Retained \in Tables
  BY RetainedType DEF RegisterInv, IndexInv
<1>2. ASSUME NEW x \in Ids, up, x \notin InFlight PROVE alerts[x] = db[x]
  <2>1. x \notin Swept /\ Retained[x] = alerts[x]
    BY <1>2, OutsideInFlight DEF RegisterInv, IndexInv
  <2>2. CASE db[x] # None
    BY <1>2, <2>1, <2>2 DEF RegisterInv, IndexInv, Indexed
  <2>3. CASE db[x] = None
    BY <2>1, <2>3 DEF RegisterInv, Backed
  <2> QED BY <2>2, <2>3
<1>3. \A x \in Ids : View[x] = db[x]
  BY <1>2 DEF View
<1> QED BY <1>1, <1>3 DEF View, Tables

\* The same of the state after a step.
LEMMA ViewIsTableNext == RegisterInv' => View' = db'
<1>1. RegisterInv' => (View = db)'
  BY ViewIsTable, PTL
<1> QED BY <1>1

\* Time passes only while nothing else happens.
LEMMA StepClock ==
    ASSUME TypeOK, [Next]_vars
    PROVE  now' = now \/ (now' = now + 1 /\ db' = db)
BY DEF Next, vars, IngestBegin, IngestRefused, IngestUpsert, IngestRetain, ExpireRows,
       ExpireIndex, Crash, Recover, Tick

\* The commit of Upsert is the register's Accept: the message is not there yet,
\* and own row and references change together.
LEMMA UpsertAccepts ==
    ASSUME NoSelfReference, OneMessagePerId, RegisterInv, RegisterInv',
           NEW a \in Alerts, Upserts(a), now' = now
    PROVE  Register!Accept(a)
<1>1. View = db /\ View' = db'
  BY ViewIsTable, ViewIsTableNext
<1> USE DEF RegisterInv, IndexInv
<1>2. db \in Tables /\ db' \in Tables /\ a.id \in Ids
  BY RetainedType, CapType, UpsertRowsLemma DEF Upserts
<1>3. db[a.id] = None
  BY <1>2, UpsertIsNew DEF Upserts, Indexed
<1>4. db'[a.id] = NewRecord(a)
  BY <1>2, UpsertRowsLemma DEF Upserts, NoSelfReference
<1>5. \A x \in Ids \ {a.id} : db'[x] = MarkReferences(db, a)[x]
  BY <1>2, UpsertRowsLemma DEF Upserts
<1>6. ASSUME NEW x \in Ids
      PROVE  db'[x] =
               CASE x = a.id -> Register!Record(a, IF a.msgType = "Cancel" THEN "cancelled" ELSE "active")
                 [] x # a.id /\ x \in a.refs /\ db[x] # None /\ db[x].state = "active" ->
                      Register!Record(db[x].cap, IF a.msgType = "Cancel" THEN "cancelled" ELSE "superseded")
                 [] OTHER -> db[x]
  <2>1. CASE x = a.id
    BY <1>4, <2>1 DEF NewRecord, Register!Record
  <2>2. CASE x # a.id
    <3>1. db'[x] = IF x \in a.refs /\ db[x] # None /\ db[x].state = "active"
                   THEN [cap |-> db[x].cap, state |-> ReferenceState(a)] ELSE db[x]
      BY <1>5, <2>2 DEF MarkReferences
    <3> QED BY <2>2, <3>1 DEF ReferenceState, Register!Record
  <2> QED BY <2>1, <2>2
<1>7. db' = [x \in Ids |->
               CASE x = a.id -> Register!Record(a, IF a.msgType = "Cancel" THEN "cancelled" ELSE "active")
                 [] x # a.id /\ x \in a.refs /\ db[x] # None /\ db[x].state = "active" ->
                      Register!Record(db[x].cap, IF a.msgType = "Cancel" THEN "cancelled" ELSE "superseded")
                 [] OTHER -> db[x]]
  BY <1>2, <1>6 DEF Tables
<1> QED BY <1>1, <1>3, <1>7 DEF Register!Accept, View

\* The transaction of Store.Expire, in a sweep or at a restart, is the
\* register's Remove.
LEMMA ExpireRemoves ==
    ASSUME NotBehindUtc, RegisterInv, RegisterInv', StoreExpire(now), now' = now
    PROVE  \E S \in SUBSET Ids : Register!Remove(S)
<1>1. View = db /\ View' = db'
  BY ViewIsTable, ViewIsTableNext
<1> USE DEF RegisterInv, IndexInv
<1>2. db \in Tables
  BY RetainedType
<1>3. ASSUME NEW x \in DueRows(now)
      PROVE  /\ db[x] # None /\ db[x].state \in {"active", "expired"}
             /\ db[x].cap.expires # None /\ db[x].cap.expires <= now
  <2>1. db[x] # None /\ db[x].cap \in Alerts
    BY <1>2, <1>3 DEF DueRows, Tables, Records
  <2>2. /\ db[x].cap.expires \in Nat
        /\ db[x].cap.offset \in Int /\ db[x].cap.offset >= 0
    BY <1>3, <2>1, AlertsAssumption DEF DueRows, CapMessages, NotBehindUtc
  <2>3. db[x].cap.expires + db[x].cap.offset <= now /\ now \in Int
    BY <1>3, AlertsAssumption DEF DueRows, ExpiresAt, TypeOK
  <2> QED BY <1>3, <2>1, <2>2, <2>3 DEF DueRows
<1>4. db' = [x \in Ids |-> IF x \in DueRows(now) THEN None ELSE db[x]]
  BY DEF StoreExpire, Without
<1>5. PICK S \in SUBSET Ids : S = DueRows(now)
  BY DEF DueRows
<1>6. Register!Remove(S)
  BY <1>1, <1>3, <1>4, <1>5 DEF Register!Remove, View
<1> QED BY <1>6

\* Service, table and crashes together implement the register: every Ingest
\* takes effect in one step, at its commit, every expiry likewise, and no other
\* step, crash or restart changes what the operator may count on.  Expiries
\* behind UTC are excluded because they are removed early, identifiers used for
\* two messages because a sweep could remove the second with the first.
THEOREM ImplementsRegisterHolds ==
    NoSelfReference /\ OneMessagePerId /\ NotBehindUtc => (Spec => ImplementsRegister)
<1> SUFFICES ASSUME NoSelfReference, OneMessagePerId, NotBehindUtc
             PROVE  Spec => ImplementsRegister
  OBVIOUS
<1>1. Init => RegisterInv
  BY InitType, InitIndexed, InitBacked DEF RegisterInv, IndexInv
<1>2. RegisterInv /\ [Next]_vars => RegisterInv'
  BY NextType, NextIndexed, NextFiled, NextBacked DEF RegisterInv, IndexInv
<1>3. Init => Register!RegisterInit
  <2> SUFFICES ASSUME Init PROVE Register!RegisterInit
    OBVIOUS
  <2>1. View = db
    BY <1>1, ViewIsTable
  <2>2. now \in Nat
    BY AlertsAssumption DEF Init
  <2>3. \/ db = [x \in Ids |-> None]
        \/ \E a \in Alerts :
             /\ a.expires # None /\ a.expires <= now
             /\ db = [x \in Ids |-> IF x = a.id THEN [cap |-> a, state |-> "expired"] ELSE None]
    BY DEF Init
  <2> QED BY <2>1, <2>2, <2>3 DEF Register!RegisterInit, Register!Record, View
<1>4. ASSUME RegisterInv, RegisterInv', [Next]_vars
      PROVE  [Register!RegisterNext]_<<View, now>>
  <2>1. View = db /\ View' = db'
    BY <1>4, ViewIsTable, ViewIsTableNext
  <2> USE DEF RegisterInv, IndexInv
  <2>2. CASE now' = now + 1 /\ db' = db
    BY <2>1, <2>2 DEF Register!RegisterNext, Register!TimePasses, View
  <2>3. CASE now' = now
    <3>1. CASE db' = db
      BY <2>1, <2>3, <3>1
    <3>2. ASSUME NEW a \in Alerts, Upserts(a) PROVE Register!RegisterNext
      BY <1>4, <2>3, <3>2, UpsertAccepts DEF Register!RegisterNext
    <3>3. CASE StoreExpire(now)
      BY <1>4, <2>3, <3>3, ExpireRemoves DEF Register!RegisterNext
    <3>4. \/ Idle \/ Deletes \/ Prunes \/ Dies \/ Restarts
          \/ \E a \in Alerts : Upserts(a)
      BY <1>4, StepEffect
    <3>5. db' = db \/ StoreExpire(now) \/ \E a \in Alerts : Upserts(a)
      BY <3>4 DEF Idle, Deletes, Prunes, Dies, Restarts
    <3> QED BY <3>1, <3>2, <3>3, <3>5
  <2> QED BY <1>4, <2>2, <2>3, StepClock
<1>5. RegisterInv /\ RegisterInv' /\ [Next]_vars => [Register!RegisterNext]_<<View, now>>
  BY <1>4
<1> QED BY <1>1, <1>2, <1>3, <1>5, PTL
        DEF Spec, ImplementsRegister, Register!RegisterSpec, View
=============================================================================
