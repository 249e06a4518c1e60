--------------------------- MODULE AlertLifecycle ---------------------------
(***************************************************************************)
(* The life of a CAP alert in the CBC: service.Service with its in-memory  *)
(* index, and the alerts and audit_events tables of the sqlite store.      *)
(*                                                                         *)
(* Three goroutines meet here: the XMPP session, which calls Ingest for    *)
(* one message at a time; the expiry ticker, which calls Expire; and the   *)
(* operator API, which reads the index.  Ingest releases the service lock  *)
(* while Publish runs and holds it from the database write to the index    *)
(* update; Expire runs its transaction without the lock and takes it only  *)
(* to prune the index.  The process may die at any point and restart.      *)
(*                                                                         *)
(* Publish is a call that succeeds or fails (see CbsSerial and             *)
(* MmeAssociation).  Metrics and lastError are left out.                   *)
(***************************************************************************)
EXTENDS Integers, FiniteSets

CONSTANTS
    Ids,      \* CAP identifiers
    Alerts,   \* the CAP messages the CBE may deliver, in any order, any number of times
    MaxTime,  \* bound on the clock
    None

\* expires is the earliest expiry of the info blocks as a UTC instant; offset
\* is the UTC offset it is written with.
CapMessages == [id : Ids, sent : Nat, msgType : {"Alert", "Update", "Cancel"},
                refs : SUBSET Ids, expires : Nat \cup {None}, offset : Int]

States == {"active", "superseded", "cancelled", "expired"}

Records == [cap : Alerts, state : States]

AuditTypes == {"alert_received", "alert_updated", "alert_cancelled", "alert_expired"}

ASSUME AlertsAssumption ==
    /\ Alerts \subseteq CapMessages
    /\ MaxTime \in Nat
    /\ None \notin Records /\ None \notin [ids : SUBSET Ids] /\ None \notin Nat
    /\ None \notin [alert : Alerts, phase : {"publish", "persisted"}]

VARIABLES
    db,      \* table alerts, by identifier
    audit,   \* table audit_events, as the set of its (type, alert_id) pairs
    alerts,  \* Service.alerts, the in-memory index
    ingest,  \* the Ingest call in progress; in phase "persisted" it holds Service.mu
    sweep,   \* the Expire call in progress: the ids deleted from db, not yet from alerts
    now,     \* the clock
    up       \* whether the process runs

vars == <<db, audit, alerts, ingest, sweep, now, up>>

-----------------------------------------------------------------------------
(* Expiry as the store sees it *)

\* expires_at is stored as RFC 3339 text in the offset the alert was written
\* with, and compared as text with the UTC text of the current time: what is
\* compared is the local wall-clock reading.
ExpiresAt(a) == a.expires + a.offset

\* Faulty variants: a second too early; only the rows already marked.
DueRowsTooSoon(t) ==
    {x \in Ids : /\ db[x] # None /\ db[x].state \in {"active", "expired"}
                 /\ db[x].cap.expires # None /\ ExpiresAt(db[x].cap) <= t + 1}

DueRowsMarkedOnly(t) ==
    {x \in Ids : /\ db[x] # None /\ db[x].state = "expired"
                 /\ db[x].cap.expires # None /\ ExpiresAt(db[x].cap) <= t}

\* Faulty variant: whatever the state.
DueRowsAnyState(t) ==
    {x \in Ids : /\ db[x] # None /\ db[x].cap.expires # None
                 /\ ExpiresAt(db[x].cap) <= t}

\* The rows the SELECT of Store.Expire finds at time t.
DueRows(t) ==
    {x \in Ids : /\ db[x] # None
                 /\ db[x].state \in {"active", "expired"}
                 /\ db[x].cap.expires # None
                 /\ ExpiresAt(db[x].cap) <= t}

Without(f, S) == [x \in Ids |-> IF x \in S THEN None ELSE f[x]]

\* Faulty variant: the due rows are deleted before they are audited, in a
\* transaction of their own that the process may not survive.
StoreExpireUnaudited(t) ==
    /\ db' = Without(db, DueRows(t))
    /\ audit' = audit

\* Store.Expire: one transaction.
StoreExpire(t) ==
    /\ db' = Without(db, DueRows(t))
    /\ audit' = audit \cup {<<"alert_expired", x>> : x \in DueRows(t)}

-----------------------------------------------------------------------------
(* Ingest *)

\* The deduplication test of Ingest, made before Publish and again after it.
Duplicate(a) ==
    /\ alerts[a.id] # None
    /\ alerts[a.id].cap.sent = a.sent
    /\ alerts[a.id].cap.msgType = a.msgType

ReferenceState(a) == IF a.msgType = "Cancel" THEN "cancelled" ELSE "superseded"

\* Faulty variant: a Cancel is stored under its message type.
NewRecordByType(a) ==
    [cap |-> a, state |-> IF a.msgType = "Cancel" THEN "Cancel" ELSE "active"]

NewRecord(a) ==
    [cap |-> a, state |-> IF a.msgType = "Cancel" THEN "cancelled" ELSE "active"]

EventType(a) ==
    CASE a.msgType = "Update" -> "alert_updated"
      [] a.msgType = "Cancel" -> "alert_cancelled"
      [] OTHER -> "alert_received"

\* The active records among refs leave the active state.
MarkReferences(f, a) ==
    [x \in Ids |-> IF x \in a.refs /\ f[x] # None /\ f[x].state = "active"
                   THEN [cap |-> f[x].cap, state |-> ReferenceState(a)]
                   ELSE f[x]]

\* Store.Upsert writes the alert's own row and then marks its references.
UpsertRows(a) == MarkReferences([db EXCEPT ![a.id] = NewRecord(a)], a)

\* Faulty variant: the references are not marked in the index.
RetainOwnRecord(a) == [alerts EXCEPT ![a.id] = NewRecord(a)]

\* Ingest marks the references and then writes the alert's own record.
RetainRecords(a) == [MarkReferences(alerts, a) EXCEPT ![a.id] = NewRecord(a)]

LockFree == ingest # None => ingest.phase # "persisted"

\* The first check of Ingest lets the message through to Publish.  (A
\* duplicate returns without an effect.)
IngestBegin(a) ==
    /\ up /\ ingest = None
    /\ ~Duplicate(a)
    /\ ingest' = [alert |-> a, phase |-> "publish"]
    /\ UNCHANGED <<db, audit, alerts, sweep, now, up>>

\* Publish fails, or Upsert does: nothing is retained and the session ends.
IngestRefused ==
    /\ ingest # None /\ ingest.phase = "publish"
    /\ ingest' = None
    /\ UNCHANGED <<db, audit, alerts, sweep, now, up>>

\* Publish succeeded; Ingest takes the lock, checks again and commits Upsert.
IngestUpsert ==
    /\ ingest # None /\ ingest.phase = "publish"
    /\ LET a == ingest.alert
       IN  IF Duplicate(a)
           THEN ingest' = None /\ UNCHANGED <<db, audit>>
           ELSE /\ db' = UpsertRows(a)
                /\ audit' = audit \cup {<<EventType(a), a.id>>}
                /\ ingest' = [alert |-> a, phase |-> "persisted"]
    /\ UNCHANGED <<alerts, sweep, now, up>>

\* Still under the lock, the index follows.
IngestRetain ==
    /\ ingest # None /\ ingest.phase = "persisted"
    /\ alerts' = RetainRecords(ingest.alert)
    /\ ingest' = None
    /\ UNCHANGED <<db, audit, sweep, now, up>>

-----------------------------------------------------------------------------
(* Expiry, restart, time *)

\* Service.Expire, first half: the transaction, without the lock.
ExpireRows ==
    /\ up /\ sweep = None
    /\ StoreExpire(now)
    /\ sweep' = [ids |-> DueRows(now)]
    /\ UNCHANGED <<alerts, ingest, now, up>>

\* Faulty variant: the index is pruned without taking the lock.
ExpireIndexUnlocked ==
    /\ sweep # None
    /\ alerts' = Without(alerts, sweep.ids)
    /\ sweep' = None
    /\ UNCHANGED <<db, audit, ingest, now, up>>

\* Service.Expire, second half: the index, under the lock.
ExpireIndex ==
    /\ sweep # None /\ LockFree
    /\ alerts' = Without(alerts, sweep.ids)
    /\ sweep' = None
    /\ UNCHANGED <<db, audit, ingest, now, up>>

\* The process dies: everything but the database is lost.
Crash ==
    /\ up
    /\ up' = FALSE
    /\ alerts' = [x \in Ids |-> None]
    /\ ingest' = None /\ sweep' = None
    /\ UNCHANGED <<db, audit, now>>

\* Faulty variant: only active rows are loaded.
RecoverActiveOnly ==
    /\ ~up
    /\ StoreExpire(now)
    /\ alerts' = Without(db', {x \in Ids : db'[x] # None /\ db'[x].state # "active"})
    /\ up' = TRUE
    /\ UNCHANGED <<ingest, sweep, now>>

\* Service.Recover, before any goroutine starts.
Recover ==
    /\ ~up
    /\ StoreExpire(now)
    /\ alerts' = db'
    /\ up' = TRUE
    /\ UNCHANGED <<ingest, sweep, now>>

Tick ==
    /\ now < MaxTime
    /\ now' = now + 1
    /\ UNCHANGED <<db, audit, alerts, ingest, sweep, up>>

\* A first start on an empty database, or on one that an earlier version left
\* with a row it had marked expired instead of deleting it.
Init ==
    /\ now \in 0..MaxTime
    /\ db \in {[x \in Ids |-> None]} \cup
              {[x \in Ids |-> IF x = a.id THEN [cap |-> a, state |-> "expired"] ELSE None] :
                 a \in {b \in Alerts : /\ b.msgType # "Cancel"
                                       /\ b.expires # None /\ b.expires <= now}}
    /\ audit = {}
    /\ alerts = [x \in Ids |-> None]
    /\ ingest = None /\ sweep = None
    /\ up = FALSE

Next ==
    \/ \E a \in Alerts : IngestBegin(a)
    \/ IngestRefused \/ IngestUpsert \/ IngestRetain
    \/ ExpireRows \/ ExpireIndex
    \/ Crash \/ Recover \/ Tick

\* The ticker keeps firing; Ingest does not stop between its database write
\* and its index update; a dead process is restarted; and the service mutex is
\* starvation-free (sync.RWMutex lets a waiting writer in before later ones).
Fairness ==
    /\ WF_vars(ExpireRows)
    /\ SF_vars(ExpireIndex)
    /\ WF_vars(IngestRetain)
    /\ WF_vars(Recover)

Spec == Init /\ [][Next]_vars /\ Fairness

-----------------------------------------------------------------------------
(* Properties *)

\* Rows, records and the calls in progress are well formed, and a process
\* that is down holds nothing.
TypeOK ==
    /\ db \in [Ids -> Records \cup {None}]
    /\ audit \subseteq AuditTypes \X Ids
    /\ alerts \in [Ids -> Records \cup {None}]
    /\ ingest \in [alert : Alerts, phase : {"publish", "persisted"}] \cup {None}
    /\ sweep \in [ids : SUBSET Ids] \cup {None}
    /\ now \in 0..MaxTime
    /\ up \in BOOLEAN
    /\ ~up => alerts = [x \in Ids |-> None] /\ ingest = None /\ sweep = None

\* The identifiers a call in progress is between its two writes for.
InFlight ==
    (IF LockFree THEN {} ELSE {ingest.alert.id} \cup ingest.alert.refs)
    \cup (IF sweep = None THEN {} ELSE sweep.ids)

\* What the operator API shows survives a crash: every record of the index is
\* the row of the store, except where a call is between its two writes.
IndexIsBacked ==
    \A x \in Ids \ InFlight : alerts[x] # None => alerts[x] = db[x]

\* The converse, for a running process: no row of the store is missing from
\* the index.
StoreIsIndexed ==
    \A x \in Ids \ InFlight : up /\ db[x] # None => alerts[x] = db[x]

\* A step leaves the messages that were superseded or cancelled so.
StaysDown ==
    \A x \in Ids :
        /\ db[x] # None /\ db[x].state \in {"superseded", "cancelled"}
        /\ db'[x] # None /\ db'[x].cap = db[x].cap
        => db'[x].state = db[x].state

\* A message that was superseded or cancelled is never put back into the
\* active state by a redelivery, a crash or an expiry sweep.
NoResurrection == [][StaysDown]_vars

\* A row leaves the store only by an expiry that the audit trail tells of.
LossIsAudited ==
    \A x \in Ids :
        (\E t \in AuditTypes \ {"alert_expired"} : <<t, x>> \in audit)
        => db[x] # None \/ <<"alert_expired", x>> \in audit

\* A step removes only rows whose CAP expiry has passed.
RemovesExpired ==
    \A x \in Ids : db[x] # None /\ db'[x] = None => db[x].cap.expires <= now

\* "removes alerts whose CAP expiry has passed": a row is never removed before
\* the instant its CAP message gives.
NeverRemovedEarly == [][RemovesExpired]_vars

\* The index shows an active alert whose CAP expiry has passed.
ShowsExpired(x) ==
    /\ alerts[x] # None /\ alerts[x].state = "active"
    /\ alerts[x].cap.expires # None /\ alerts[x].cap.expires <= now

\* "expired alerts are not retained": an alert past its expiry leaves the
\* index, whatever is ingested meanwhile and however often the process dies.
ExpiredAlertsLeave == \A x \in Ids : ShowsExpired(x) ~> ~ShowsExpired(x)

\* The abstract register: the index, but the table where a call has written
\* the table and not yet the index, and while the process is down.
Register == INSTANCE AlertRegister WITH
    view <- [x \in Ids |-> IF ~up \/ x \in InFlight THEN db[x] ELSE alerts[x]],
    clock <- now

\* Table and index together are one register: an Ingest takes effect in one
\* step, at its commit, an expiry likewise, a restart changes nothing but
\* what has expired, and no interleaving of the three goroutines and crashes
\* shows a mixture.
ImplementsRegister == Register!RegisterSpec

=============================================================================
