----------------------------- MODULE CbsSerial -----------------------------
(***************************************************************************)
(* How a CAP message becomes a durable CBS plan and how its serial numbers *)
(* are allocated: cbs.Preparer.Prepare, the cbs_allocations and cbs_plans  *)
(* tables of the sqlite store, and the part of delivery.Publisher.Publish  *)
(* that follows a successful Prepare.                                      *)
(*                                                                         *)
(* Publish has one caller, the XMPP goroutine, so at most one CAP message  *)
(* is in preparation.  Each SQL transaction is one step.  The process may  *)
(* fail between any two of them and the CBE redelivers what was refused.   *)
(***************************************************************************)
EXTENDS Integers, Sequences, FiniteSets, FiniteSetsExt

CONSTANTS
    Ids,            \* CAP identifiers
    MessageIds,     \* CMAS/WEA message identifiers
    Scopes,         \* geographical scopes (2 bits of the serial number)
    Alerts,         \* the CAP messages the CBE may deliver, each any number of times
    MessageCodes,   \* message codes per identifier and scope: 1024 in the code
    UpdateNumbers,  \* update numbers per message code: 16 in the code
    None            \* an absent row, plan or serial; also "cannot be classified"

Keys == [alert : Ids, mid : MessageIds, scope : Scopes]

Rows == [mid : MessageIds, scope : Scopes, code : Nat,
         number : 0..(UpdateNumbers - 1)]

Messages == [mid : MessageIds, scope : Scopes, serial : Nat]

Infos == [mid : MessageIds \cup {None}, encodable : BOOLEAN]

CapMessages == [id : Ids, msgType : {"Alert", "Update"},
                refs : Seq(Ids), infos : Seq(Infos)]

Jobs == [alert : CapMessages, phase : {"prepare", "send"}, messages : Seq(Messages)]

ASSUME ConstantsAssumption ==
    /\ MessageCodes \in Nat \ {0}
    /\ UpdateNumbers \in Nat \ {0}
    /\ Scopes \subseteq Nat
    /\ Alerts \subseteq CapMessages
    /\ IsFiniteSet(Ids) /\ IsFiniteSet(MessageIds) /\ IsFiniteSet(Scopes)
    /\ None \notin MessageIds /\ None \notin Rows /\ None \notin Jobs
    /\ None \notin Nat /\ None \notin Seq(Messages)

VARIABLES
    allocations,  \* table cbs_allocations, by primary key
    plans,        \* table cbs_plans, by alert identifier
    job,          \* the Publish call in progress, or None
    onAir         \* per key, the serial of the last request the RAN accepted

vars == <<allocations, plans, job, onAir>>

-----------------------------------------------------------------------------
(* Serial numbers *)

\* Faulty variant: the code is shifted by one bit too few.
OverlappingSerial(scope, code, number) ==
    (scope * MessageCodes + code) * (UpdateNumbers \div 2) + number

\* scope<<14 | code<<4 | number
Serial(scope, code, number) ==
    (scope * MessageCodes + code) * UpdateNumbers + number

SerialOf(k) == Serial(allocations[k].scope, allocations[k].code, allocations[k].number)

\* The rows SELECT COUNT(*) and SELECT MAX(message_code) range over.
RowsFor(mid, scope) ==
    {k \in Keys : /\ allocations[k] # None
                  /\ allocations[k].mid = mid
                  /\ allocations[k].scope = scope}

CodesFor(mid, scope) == {allocations[k].code : k \in RowsFor(mid, scope)}

\* Faulty variant: MAX without the increment.
MaxWithoutIncrement(mid, scope) ==
    IF RowsFor(mid, scope) = {} THEN 0 ELSE Max(CodesFor(mid, scope))

\* The message code of a row about to be inserted.
NextCode(mid, scope) ==
    IF RowsFor(mid, scope) = {} THEN 0 ELSE Max(CodesFor(mid, scope)) + 1

\* Faulty variant: the exhaustion test is off by one.
MayAllocateOneMore(key, mid, scope) ==
    allocations[key] = None => Cardinality(RowsFor(mid, scope)) <= MessageCodes

\* The early returns of AllocateCBSSerial: every code taken, or a row that
\* belongs to another identifier or scope.
MayAllocate(key, mid, scope) ==
    IF allocations[key] = None
    THEN Cardinality(RowsFor(mid, scope)) < MessageCodes
    ELSE allocations[key].mid = mid /\ allocations[key].scope = scope

\* Faulty variants: the update number is not masked; every call counts as an
\* update.
RowAfterUnmasked(key, mid, scope, update) ==
    IF allocations[key] = None
    THEN [mid |-> mid, scope |-> scope, code |-> NextCode(mid, scope), number |-> 0]
    ELSE [allocations[key] EXCEPT !.number = IF update THEN @ + 1 ELSE @]

RowAfterAlwaysBumped(key, mid, scope, update) ==
    IF allocations[key] = None
    THEN [mid |-> mid, scope |-> scope, code |-> NextCode(mid, scope), number |-> 0]
    ELSE [allocations[key] EXCEPT !.number = (@ + 1) % UpdateNumbers]

\* The row AllocateCBSSerial leaves under key.
RowAfter(key, mid, scope, update) ==
    IF allocations[key] = None
    THEN [mid |-> mid, scope |-> scope, code |-> NextCode(mid, scope), number |-> 0]
    ELSE IF update
         THEN [allocations[key] EXCEPT !.number = (@ + 1) % UpdateNumbers]
         ELSE allocations[key]

AllocateCBSSerial(key, mid, scope, update) ==
    /\ MayAllocate(key, mid, scope)
    /\ allocations' = [allocations EXCEPT ![key] = RowAfter(key, mid, scope, update)]

-----------------------------------------------------------------------------
(* Preparation *)

IsUpdate(a) == a.msgType = "Update" /\ Len(a.refs) > 0

\* The alert whose allocation a CAP message uses: its first reference's for an
\* update, its own otherwise.
Root(a) == IF IsUpdate(a) THEN a.refs[1] ELSE a.id

AllocationKey(a, mid, scope) == [alert |-> Root(a), mid |-> mid, scope |-> scope]

\* The serials map of one Prepare call: what an earlier info block of this
\* call obtained for the same key.
Remembered(mid, scope) ==
    {job.messages[i].serial : i \in {j \in 1..Len(job.messages) :
        job.messages[j].mid = mid /\ job.messages[j].scope = scope}}

Init ==
    /\ allocations = [k \in Keys |-> None]
    /\ plans = [x \in Ids |-> None]
    /\ job = None
    /\ onAir = [k \in Keys |-> None]

\* Publish is called with a CAP message that is not a Cancel.
Prepare(a) ==
    /\ job = None
    /\ job' = [alert |-> a, phase |-> "prepare", messages |-> <<>>]
    /\ UNCHANGED <<allocations, plans, onAir>>

\* The next info block resolves to scope and to a message identifier; its
\* serial is remembered or allocated.  The allocation is committed before
\* Encode runs, so an info block that does not encode ends the call and
\* leaves the allocation behind.
PrepareInfo(scope) ==
    /\ job # None /\ job.phase = "prepare"
    /\ Len(job.messages) < Len(job.alert.infos)
    /\ LET info == job.alert.infos[Len(job.messages) + 1]
           key  == AllocationKey(job.alert, info.mid, scope)
           row  == RowAfter(key, info.mid, scope, IsUpdate(job.alert))
           Extend(serial) ==
               job' = IF info.encodable
                      THEN [alert |-> job.alert, phase |-> "prepare", messages |->
                              Append(job.messages,
                                     [mid |-> info.mid, scope |-> scope, serial |-> serial])]
                      ELSE None
       IN  /\ info.mid # None
           /\ IF Remembered(info.mid, scope) # {}
              THEN /\ Extend(CHOOSE s \in Remembered(info.mid, scope) : TRUE)
                   /\ UNCHANGED allocations
              ELSE /\ AllocateCBSSerial(key, info.mid, scope, IsUpdate(job.alert))
                   /\ Extend(Serial(row.scope, row.code, row.number))
    /\ UNCHANGED <<plans, onAir>>

\* Faulty variant: INSERT OR IGNORE instead of the upsert.
SaveCBSPlanOnce ==
    /\ job # None /\ job.phase = "prepare"
    /\ Len(job.messages) = Len(job.alert.infos)
    /\ plans' = [plans EXCEPT ![job.alert.id] = IF @ = None THEN job.messages ELSE @]
    /\ job' = [alert |-> job.alert, phase |-> "send", messages |-> job.messages]
    /\ UNCHANGED <<allocations, onAir>>

\* All info blocks are done: the plan is upserted and sending may begin.
SaveCBSPlan ==
    /\ job # None /\ job.phase = "prepare"
    /\ Len(job.messages) = Len(job.alert.infos)
    /\ plans' = [plans EXCEPT ![job.alert.id] = job.messages]
    /\ job' = [alert |-> job.alert, phase |-> "send", messages |-> job.messages]
    /\ UNCHANGED <<allocations, onAir>>

\* The RAN accepts the first n messages of the plan; with n below the plan's
\* length the next one failed and Publish returns an error.  Either way the
\* call is over.  Messages of one plan under one key carry one serial.
Send(n) ==
    /\ job # None /\ job.phase = "send"
    /\ n \in 0..Len(job.messages)
    /\ onAir' = [k \in Keys |->
         LET accepted == {i \in 1..n : k = AllocationKey(job.alert, job.messages[i].mid,
                                                         job.messages[i].scope)}
         IN  IF accepted = {} THEN onAir[k]
             ELSE job.messages[CHOOSE i \in accepted : TRUE].serial]
    /\ job' = None
    /\ UNCHANGED <<allocations, plans>>

\* An error return before the plan is saved (no target, unclassifiable,
\* codes exhausted, database error), or the death of the process at any
\* point of the call.
Abandon ==
    /\ job # None
    /\ job' = None
    /\ UNCHANGED <<allocations, plans, onAir>>

PublishStep ==
    \/ \E scope \in Scopes : PrepareInfo(scope)
    \/ SaveCBSPlan
    \/ job # None /\ \E n \in 0..Len(job.messages) : Send(n)
    \/ Abandon

Next == (\E a \in Alerts : Prepare(a)) \/ PublishStep

Spec == Init /\ [][Next]_vars

-----------------------------------------------------------------------------
(* Properties *)

\* Every table row, plan and job is well formed.
TypeOK ==
    /\ allocations \in [Keys -> Rows \cup {None}]
    /\ plans \in [Ids -> Seq(Messages) \cup {None}]
    /\ job \in Jobs \cup {None}
    /\ onAir \in [Keys -> Nat \cup {None}]

\* AllocateCBSSerial never leaves a hole and never overruns: the n rows of an
\* identifier and scope carry n distinct codes below n, so MAX+1 agrees with
\* COUNT and the code always fits its 10 bits.
DenseCodes ==
    \A m \in MessageIds, s \in Scopes :
        LET n == Cardinality(RowsFor(m, s))
        IN  n <= MessageCodes /\ CodesFor(m, s) = 0..(n - 1)

\* Two allocation keys of one message identifier never yield the same 16-bit
\* serial number, whatever their update numbers have become.
SerialsUnique ==
    \A k, l \in Keys :
        /\ allocations[k] # None /\ allocations[l] # None
        /\ k.mid = l.mid /\ SerialOf(k) = SerialOf(l)
        => k = l

\* The identifiers whose allocations a plan stored under x may use.
RootsOf(x) == {Root(a) : a \in {b \in Alerts : b.id = x}}

\* A Stop built from the stored plan of x names only broadcasts of x or of
\* the alert x updates: plans of unrelated alerts never share an identifier
\* and serial number, so cancelling one alert cannot take another off the air.
NoForeignStop ==
    \A x, y \in Ids :
        /\ plans[x] # None /\ plans[y] # None
        /\ RootsOf(x) \cap RootsOf(y) = {}
        => \A i \in 1..Len(plans[x]), j \in 1..Len(plans[y]) :
              plans[x][i].mid = plans[y][j].mid
              => plans[x][i].serial # plans[y][j].serial

\* The plan is durable before anything is sent: while messages are going out,
\* the stored plan is exactly what is being sent, and whatever the RAN has
\* accepted belongs to a row of the allocation table.
DurableBeforeDelivery ==
    /\ job # None /\ job.phase = "send" => plans[job.alert.id] = job.messages
    /\ \A k \in Keys : onAir[k] # None =>
          /\ allocations[k] # None
          /\ \E n \in 0..(UpdateNumbers - 1) :
                onAir[k] = Serial(k.scope, allocations[k].code, n)

\* A step leaves the serial numbers in the plan of an alert that nothing
\* updates, or puts the same ones there again.
PlanRepeats ==
    \A x \in Ids :
        (plans[x] # None /\ \A a \in Alerts : a.id = x \/ Root(a) = x => ~IsUpdate(a))
        => \A i \in 1..Len(plans[x]), j \in 1..Len(plans'[x]) :
              /\ plans[x][i].mid = plans'[x][j].mid
              /\ plans[x][i].scope = plans'[x][j].scope
              => plans[x][i].serial = plans'[x][j].serial

\* Preparing again an alert that nothing updates yields the serial numbers it
\* had: after an encode failure, a lost peer or a restart between any two
\* steps, the retry replaces the broadcast it may already have started.
RetryRepeatable == [][PlanRepeats]_vars

=============================================================================
