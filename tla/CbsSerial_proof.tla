-------------------------- MODULE CbsSerial_proof --------------------------
(***************************************************************************)
(* Proofs about CbsSerial, for every set of alerts, every number of        *)
(* message codes and every number of update numbers.                       *)
(***************************************************************************)
EXTENDS CbsSerial, FiniteSetTheorems, TLAPS

-----------------------------------------------------------------------------
(* The serial number as a packed integer *)

\* A quotient and remainder below d determine each other: the arithmetic fact
\* behind the bit fields of the serial number.
LEMMA PackInjective ==
    ASSUME NEW d \in Nat \ {0}, NEW p \in Nat, NEW q \in Nat,
           NEW i \in 0..(d - 1), NEW j \in 0..(d - 1),
           p * d + i = q * d + j
    PROVE  p = q /\ i = j
<1>1. ~(p < q)
  <2>1. ASSUME p < q PROVE FALSE
    <3>1. p + 1 <= q
      BY <2>1
    <3>2. (p + 1) * d <= q * d
      BY <3>1, SMT
    <3>3. (p + 1) * d = p * d + d
      BY SMT
    <3>. QED
      BY <3>2, <3>3, SMT
  <2>. QED
    BY <2>1
<1>2. ~(q < p)
  <2>1. ASSUME q < p PROVE FALSE
    <3>1. q + 1 <= p
      BY <2>1
    <3>2. (q + 1) * d <= p * d
      BY <3>1, SMT
    <3>3. (q + 1) * d = q * d + d
      BY SMT
    <3>. QED
      BY <3>2, <3>3, SMT
  <2>. QED
    BY <2>1
<1>3. p = q
  BY <1>1, <1>2
<1>. QED
  BY <1>3, SMT

\* scope<<14 | code<<4 | number can be taken apart again, as long as code and
\* number stay within their fields.
LEMMA SerialInjective ==
    ASSUME NEW s \in Scopes, NEW t \in Scopes,
           NEW c \in 0..(MessageCodes - 1), NEW d \in 0..(MessageCodes - 1),
           NEW n \in 0..(UpdateNumbers - 1), NEW o \in 0..(UpdateNumbers - 1),
           Serial(s, c, n) = Serial(t, d, o)
    PROVE  s = t /\ c = d /\ n = o
<1>. DEFINE p == s * MessageCodes + c
            q == t * MessageCodes + d
<1>1. s \in Nat /\ t \in Nat /\ MessageCodes \in Nat \ {0} /\ UpdateNumbers \in Nat \ {0}
  BY ConstantsAssumption
<1>2. p \in Nat /\ q \in Nat
  BY <1>1, SMT
<1>3. p * UpdateNumbers + n = q * UpdateNumbers + o
  BY DEF Serial
<1>. HIDE DEF p, q
<1>4. p = q /\ n = o
  BY <1>1, <1>2, <1>3, PackInjective
<1>5. s = t /\ c = d
  BY <1>1, <1>4, PackInjective DEF p, q
<1>. QED
  BY <1>4, <1>5

\* A serial number is a natural number.
LEMMA SerialNat ==
    ASSUME NEW s \in Scopes, NEW c \in Nat, NEW n \in Nat
    PROVE  Serial(s, c, n) \in Nat
<1>1. s \in Nat /\ MessageCodes \in Nat /\ UpdateNumbers \in Nat
  BY ConstantsAssumption
<1>. DEFINE p == s * MessageCodes + c
<1>2. p \in Nat
  BY <1>1, SMT
<1>3. p * UpdateNumbers + n \in Nat
  <2>. HIDE DEF p
  <2>. QED BY <1>1, <1>2, SMT
<1>. QED
  BY <1>3 DEF Serial

-----------------------------------------------------------------------------
(* The allocation table *)

\* A row carries the identifier and scope of its key, so the "incompatible"
\* error of AllocateCBSSerial never occurs.
RowsMatchKeys ==
    \A k \in Keys : allocations[k] # None =>
        allocations[k].mid = k.mid /\ allocations[k].scope = k.scope

\* Within an identifier and scope the code determines the key.
CodesInjective ==
    \A k, l \in Keys :
        /\ allocations[k] # None /\ allocations[l] # None
        /\ k.mid = l.mid /\ k.scope = l.scope /\ allocations[k].code = allocations[l].code
        => k = l

FiniteRows == \A m \in MessageIds, s \in Scopes : IsFiniteSet(RowsFor(m, s))

AllocTypeOK == allocations \in [Keys -> Rows \cup {None}]

\* The inductive invariant of the table.
TableInv == AllocTypeOK /\ RowsMatchKeys /\ CodesInjective /\ FiniteRows /\ DenseCodes

\* What the table keeps for ever: a row stays, with its code.
RowsKept ==
    \A k \in Keys : allocations[k] # None =>
        allocations'[k] # None /\ allocations'[k].code = allocations[k].code

\* The value MAX(message_code)+1 is the number of rows.
LEMMA NextCodeIsCount ==
    ASSUME TableInv, NEW m \in MessageIds, NEW s \in Scopes
    PROVE  /\ NextCode(m, s) = Cardinality(RowsFor(m, s))
           /\ Cardinality(RowsFor(m, s)) \in Nat
<1>. DEFINE n == Cardinality(RowsFor(m, s))
<1>1. n \in Nat
  BY FS_CardinalityType DEF TableInv, FiniteRows
<1>2. CodesFor(m, s) = 0..(n - 1)
  BY DEF TableInv, DenseCodes
<1>3. CASE RowsFor(m, s) = {}
  BY <1>1, <1>3, FS_EmptySet DEF NextCode
<1>4. CASE RowsFor(m, s) # {}
  <2>1. CodesFor(m, s) # {}
    BY <1>4 DEF CodesFor
  <2>2. n > 0
    BY <1>1, <1>2, <2>1
  <2>3. Max(0..(n - 1)) = n - 1
    <3>1. /\ n - 1 \in 0..(n - 1)
          /\ \A y \in 0..(n - 1) : n - 1 >= y
      BY <1>1, <2>2
    <3>2. \A x \in 0..(n - 1) : (\A y \in 0..(n - 1) : x >= y) => x = n - 1
      BY <1>1, <2>2
    <3>. HIDE DEF n
    <3>. QED
      BY <3>1, <3>2 DEF Max
  <2>. QED
    BY <1>1, <1>2, <1>4, <2>3 DEF NextCode
<1>. QED
  BY <1>1, <1>3, <1>4

\* One call of AllocateCBSSerial keeps the table invariant and every row.
LEMMA AllocateKeepsTable ==
    ASSUME TableInv, NEW key \in Keys, NEW update \in BOOLEAN,
           AllocateCBSSerial(key, key.mid, key.scope, update)
    PROVE  TableInv' /\ RowsKept /\ allocations'[key] # None
<1>. DEFINE row == RowAfter(key, key.mid, key.scope, update)
<1>1. /\ key.mid \in MessageIds /\ key.scope \in Scopes
      /\ None \notin Rows /\ UpdateNumbers \in Nat \ {0} /\ MessageCodes \in Nat \ {0}
  BY ConstantsAssumption DEF Keys
<1>2. allocations' = [allocations EXCEPT ![key] = row]
  BY DEF AllocateCBSSerial
<1>3. AllocTypeOK
  BY DEF TableInv
<1>4. CASE allocations[key] # None
  <2>1. allocations[key] \in Rows
    BY <1>3, <1>4 DEF AllocTypeOK
  <2>2. /\ row \in Rows /\ row.code = allocations[key].code
        /\ row.mid = allocations[key].mid /\ row.scope = allocations[key].scope
    <3>1. (allocations[key].number + 1) % UpdateNumbers \in 0..(UpdateNumbers - 1)
      BY <1>1, <2>1 DEF Rows
    <3>. QED
      BY <1>4, <2>1, <3>1 DEF RowAfter, Rows
  <2>. HIDE DEF row
  <2>3. /\ allocations' \in [Keys -> Rows \cup {None}]
        /\ \A k \in Keys : (allocations'[k] = None) <=> (allocations[k] = None)
        /\ \A k \in Keys : allocations[k] # None =>
              /\ allocations'[k].code = allocations[k].code
              /\ allocations'[k].mid = allocations[k].mid
              /\ allocations'[k].scope = allocations[k].scope
    BY <1>1, <1>2, <1>3, <1>4, <2>2 DEF AllocTypeOK
  <2>4. \A m \in MessageIds, s \in Scopes : RowsFor(m, s)' = RowsFor(m, s)
    BY <2>3 DEF RowsFor
  <2>5. \A m \in MessageIds, s \in Scopes : CodesFor(m, s)' = CodesFor(m, s)
    BY <2>3, <2>4 DEF CodesFor, RowsFor
  <2>. QED
    BY <1>4, <2>3, <2>4, <2>5
    DEF TableInv, AllocTypeOK, RowsMatchKeys, CodesInjective, FiniteRows, DenseCodes, RowsKept
<1>5. CASE allocations[key] = None
  <2>. DEFINE m0 == key.mid
              s0 == key.scope
              n0 == Cardinality(RowsFor(m0, s0))
  <2>1. n0 < MessageCodes
    BY <1>5 DEF AllocateCBSSerial, MayAllocate
  <2>2. n0 \in Nat /\ NextCode(m0, s0) = n0
    BY <1>1, NextCodeIsCount
  <2>3. row = [mid |-> m0, scope |-> s0, code |-> n0, number |-> 0]
    BY <1>5, <2>2 DEF RowAfter
  <2>. HIDE DEF row
  <2>4. row \in Rows /\ row # None
    BY <1>1, <2>2, <2>3 DEF Rows
  <2>5. /\ allocations' \in [Keys -> Rows \cup {None}]
        /\ allocations'[key] = row
        /\ \A k \in Keys : k # key => allocations'[k] = allocations[k]
    BY <1>2, <1>3, <2>4 DEF AllocTypeOK
  <2>6. CodesFor(m0, s0) = 0..(n0 - 1)
    BY <1>1 DEF TableInv, DenseCodes
  <2>7. \A k \in Keys : allocations[k] # None /\ k.mid = m0 /\ k.scope = s0
                        => allocations[k].code \in 0..(n0 - 1)
    BY <2>6 DEF TableInv, RowsMatchKeys, CodesFor, RowsFor
  <2>8. RowsMatchKeys'
    BY <1>5, <2>3, <2>5 DEF RowsMatchKeys, TableInv
  <2>9. CodesInjective'
    BY <1>1, <2>2, <2>3, <2>5, <2>7 DEF CodesInjective, TableInv
  <2>10. RowsFor(m0, s0)' = RowsFor(m0, s0) \cup {key} /\ key \notin RowsFor(m0, s0)
    BY <1>5, <2>3, <2>4, <2>5 DEF RowsFor
  <2>11. \A m \in MessageIds, s \in Scopes :
            ~(m = m0 /\ s = s0) => /\ RowsFor(m, s)' = RowsFor(m, s)
                                   /\ CodesFor(m, s)' = CodesFor(m, s)
    <3>1. \A m \in MessageIds, s \in Scopes :
            ~(m = m0 /\ s = s0) => RowsFor(m, s)' = RowsFor(m, s) /\ key \notin RowsFor(m, s)
      BY <1>5, <2>3, <2>5 DEF RowsFor
    <3>. QED
      BY <2>5, <3>1 DEF CodesFor, RowsFor
  <2>12. /\ IsFiniteSet(RowsFor(m0, s0)')
         /\ Cardinality(RowsFor(m0, s0)') = n0 + 1
    BY <1>1, <2>10, FS_AddElement DEF TableInv, FiniteRows
  <2>13. CodesFor(m0, s0)' = 0..n0
    <3>1. CodesFor(m0, s0)' = CodesFor(m0, s0) \cup {n0}
      <4>1. \A k \in RowsFor(m0, s0) : allocations'[k] = allocations[k]
        BY <2>5, <2>10 DEF RowsFor
      <4>2. allocations'[key].code = n0
        BY <2>3, <2>5
      <4>. HIDE DEF n0
      <4>. QED
        BY <2>10, <4>1, <4>2 DEF CodesFor
    <3>. QED
      BY <2>2, <2>6, <3>1
  <2>14. FiniteRows'
    BY <2>11, <2>12 DEF FiniteRows, TableInv
  <2>15. DenseCodes'
    <3>1. Cardinality(RowsFor(m0, s0)') <= MessageCodes
      BY <1>1, <2>1, <2>2, <2>12
    <3>2. CodesFor(m0, s0)' = 0..(Cardinality(RowsFor(m0, s0)') - 1)
      BY <2>2, <2>12, <2>13
    <3>. QED
      BY <2>11, <3>1, <3>2 DEF DenseCodes, TableInv
  <2>16. RowsKept
    BY <1>5, <2>5 DEF RowsKept
  <2>. QED
    BY <2>4, <2>5, <2>8, <2>9, <2>14, <2>15, <2>16 DEF TableInv, AllocTypeOK
<1>. QED
  BY <1>4, <1>5

-----------------------------------------------------------------------------
(* Plans, the call in progress and what is on air *)

\* Message msg carries a serial number of the row that table T has for root r.
Owned(T, r, msg) ==
    LET k == [alert |-> r, mid |-> msg.mid, scope |-> msg.scope]
    IN  /\ T[k] # None
        /\ \E n \in 0..(UpdateNumbers - 1) :
              msg.serial = Serial(msg.scope, T[k].code, n)

JobOwned ==
    job # None =>
        /\ job.alert \in Alerts
        /\ \A i \in 1..Len(job.messages) :
              Owned(allocations, Root(job.alert), job.messages[i])

PlansOwned ==
    \A x \in Ids : plans[x] # None =>
        \A i \in 1..Len(plans[x]) :
            \E r \in RootsOf(x) : Owned(allocations, r, plans[x][i])

\* The inductive invariant of the specification.
IInv == TypeOK /\ TableInv /\ JobOwned /\ PlansOwned /\ DurableBeforeDelivery

\* The allocation a CAP message uses belongs to a CAP identifier.
LEMMA RootType ==
    ASSUME NEW a \in CapMessages
    PROVE  Root(a) \in Ids
<1>1. a.id \in Ids /\ a.refs \in Seq(Ids)
  BY DEF CapMessages
<1>2. Len(a.refs) > 0 => a.refs[1] \in Ids
  BY <1>1
<1>. QED
  BY <1>1, <1>2 DEF Root, IsUpdate

\* Ownership survives every step of the table.
LEMMA OwnedKept ==
    ASSUME RowsKept, NEW r \in Ids, NEW msg \in Messages, Owned(allocations, r, msg)
    PROVE  Owned(allocations', r, msg)
<1>1. [alert |-> r, mid |-> msg.mid, scope |-> msg.scope] \in Keys
  BY DEF Keys, Messages
<1>. QED
  BY <1>1 DEF Owned, RowsKept

\* A step that keeps the rows keeps all that is stored under them.
LEMMA StoredKept ==
    ASSUME IInv, RowsKept, UNCHANGED <<plans, onAir>>
    PROVE  /\ PlansOwned'
           /\ \A k \in Keys : onAir'[k] # None =>
                 /\ allocations'[k] # None
                 /\ \E n \in 0..(UpdateNumbers - 1) :
                       onAir'[k] = Serial(k.scope, allocations'[k].code, n)
<1>1. PlansOwned'
  <2>. SUFFICES ASSUME NEW x \in Ids, plans[x] # None, NEW i \in 1..Len(plans[x])
                PROVE  \E r \in RootsOf(x) : Owned(allocations', r, plans[x][i])
    BY DEF PlansOwned, RootsOf
  <2>1. PICK r \in RootsOf(x) : Owned(allocations, r, plans[x][i])
    BY DEF IInv, PlansOwned
  <2>2. r \in Ids
    BY RootType, ConstantsAssumption DEF RootsOf
  <2>3. plans[x][i] \in Messages
    <3>1. plans[x] \in Seq(Messages)
      BY DEF IInv, TypeOK
    <3>. QED
      BY <3>1
  <2>. QED
    BY <2>1, <2>2, <2>3, OwnedKept
<1>2. \A k \in Keys : onAir'[k] # None =>
         /\ allocations'[k] # None
         /\ \E n \in 0..(UpdateNumbers - 1) :
               onAir'[k] = Serial(k.scope, allocations'[k].code, n)
  BY DEF IInv, DurableBeforeDelivery, RowsKept
<1>. QED
  BY <1>1, <1>2

-----------------------------------------------------------------------------
(* The inductive invariant *)

\* An empty database satisfies the invariant.
LEMMA InitIInv == Init => IInv
<1>. SUFFICES ASSUME Init PROVE IInv
  OBVIOUS
<1>1. TypeOK /\ AllocTypeOK
  BY DEF Init, TypeOK, AllocTypeOK
<1>2. \A m \in MessageIds, s \in Scopes : RowsFor(m, s) = {} /\ CodesFor(m, s) = {}
  BY DEF Init, RowsFor, CodesFor
<1>3. FiniteRows /\ DenseCodes
  <2>1. 0..(Cardinality({}) - 1) = {} /\ Cardinality({}) = 0 /\ IsFiniteSet({})
    BY FS_EmptySet
  <2>2. 0 <= MessageCodes
    BY ConstantsAssumption
  <2>. QED
    BY <1>2, <2>1, <2>2 DEF FiniteRows, DenseCodes
<1>4. TableInv
  BY <1>1, <1>3 DEF Init, TableInv, RowsMatchKeys, CodesInjective
<1>. QED
  BY <1>1, <1>4 DEF Init, IInv, JobOwned, PlansOwned, DurableBeforeDelivery

\* A step that leaves the table alone keeps its invariant.
LEMMA TableUnchanged ==
    ASSUME TableInv, UNCHANGED allocations
    PROVE  TableInv' /\ RowsKept
<1>1. \A m \in MessageIds, s \in Scopes :
         RowsFor(m, s)' = RowsFor(m, s) /\ CodesFor(m, s)' = CodesFor(m, s)
  BY DEF RowsFor, CodesFor
<1>. QED
  BY <1>1 DEF TableInv, AllocTypeOK, RowsMatchKeys, CodesInjective, FiniteRows, DenseCodes,
              RowsKept

\* A Publish call that begins touches no table.
LEMMA PrepareKeeps ==
    ASSUME IInv, NEW a \in Alerts, Prepare(a)
    PROVE  IInv'
<1>1. UNCHANGED <<allocations, plans, onAir>>
  BY DEF Prepare
<1>2. TableInv' /\ RowsKept
  BY <1>1, TableUnchanged DEF IInv
<1>3. job' \in Jobs /\ job'.messages = <<>> /\ job'.alert = a /\ job'.phase = "prepare"
  BY ConstantsAssumption DEF Prepare, Jobs
<1>4. TypeOK'
  BY <1>1, <1>3 DEF IInv, TypeOK
<1>5. JobOwned'
  BY <1>3 DEF JobOwned
<1>6. DurableBeforeDelivery'
  BY <1>1, <1>2, <1>3, StoredKept DEF DurableBeforeDelivery
<1>. QED
  BY <1>1, <1>2, <1>4, <1>5, <1>6, StoredKept DEF IInv

\* An info block may add or advance one row; what is stored and on the air
\* stays within rows its alert owns, and so does the message it adds.
LEMMA PrepareInfoKeeps ==
    ASSUME IInv, NEW scope \in Scopes, PrepareInfo(scope)
    PROVE  IInv'
<1>. DEFINE info == job.alert.infos[Len(job.messages) + 1]
            key  == AllocationKey(job.alert, info.mid, scope)
            root == Root(job.alert)
            Msg(serial) == [mid |-> info.mid, scope |-> scope, serial |-> serial]
            Grown(serial) == [alert |-> job.alert, phase |-> "prepare",
                              messages |-> Append(job.messages, Msg(serial))]
<1>1. /\ job \in Jobs /\ job # None /\ job.alert \in Alerts /\ job.alert \in CapMessages
      /\ job.messages \in Seq(Messages) /\ job.phase = "prepare"
      /\ Len(job.messages) < Len(job.alert.infos)
      /\ job.alert.infos \in Seq(Infos)
  BY ConstantsAssumption DEF IInv, TypeOK, JobOwned, PrepareInfo, Jobs, CapMessages
<1>2. info.mid \in MessageIds
  <2>1. info \in Infos
    BY <1>1
  <2>. QED
    BY <2>1 DEF PrepareInfo, Infos
<1>3. /\ key \in Keys /\ key.mid = info.mid /\ key.scope = scope
      /\ key = [alert |-> root, mid |-> info.mid, scope |-> scope] /\ root \in Ids
  BY <1>1, <1>2, RootType DEF AllocationKey, Keys
<1>4. UNCHANGED <<plans, onAir>>
  BY DEF PrepareInfo
<1>5. \E serial \in Nat :
         /\ job' = (IF info.encodable THEN Grown(serial) ELSE None)
         /\ TableInv' /\ RowsKept
         /\ Owned(allocations', root, Msg(serial))
  <2>1. CASE Remembered(info.mid, scope) # {}
    <3>. DEFINE old == CHOOSE s \in Remembered(info.mid, scope) : TRUE
    <3>1. old \in Remembered(info.mid, scope)
      BY <2>1
    <3>2. /\ job' = (IF info.encodable THEN Grown(old) ELSE None)
          /\ UNCHANGED allocations
      BY <2>1 DEF PrepareInfo
    <3>3. PICK j \in 1..Len(job.messages) :
             /\ job.messages[j].mid = info.mid /\ job.messages[j].scope = scope
             /\ old = job.messages[j].serial
      BY <3>1 DEF Remembered
    <3>4. job.messages[j] \in Messages /\ Owned(allocations, root, job.messages[j])
      BY <1>1 DEF IInv, JobOwned
    <3>5. old \in Nat
      BY <3>3, <3>4 DEF Messages
    <3>6. TableInv' /\ RowsKept
      BY <3>2, TableUnchanged DEF IInv
    <3>. HIDE DEF old
    <3>7. Owned(allocations', root, Msg(old))
      BY <3>2, <3>3, <3>4 DEF Owned
    <3>. QED
      BY <3>2, <3>5, <3>6, <3>7
  <2>2. CASE Remembered(info.mid, scope) = {}
    <3>. DEFINE u   == IsUpdate(job.alert)
                row == RowAfter(key, info.mid, scope, u)
                new == Serial(row.scope, row.code, row.number)
    <3>1. /\ AllocateCBSSerial(key, info.mid, scope, u)
          /\ job' = (IF info.encodable THEN Grown(new) ELSE None)
      BY <2>2 DEF PrepareInfo
    <3>2. u \in BOOLEAN
      BY DEF IsUpdate
    <3>3. TableInv' /\ RowsKept /\ allocations'[key] # None
      <4>1. AllocateCBSSerial(key, key.mid, key.scope, u)
        BY <1>3, <3>1
      <4>. HIDE DEF key, u
      <4>. QED
        BY <1>3, <3>2, <4>1, AllocateKeepsTable DEF IInv
    <3>4. allocations'[key] = row
      <4>1. allocations \in [Keys -> Rows \cup {None}]
        BY DEF IInv, TypeOK
      <4>. HIDE DEF key, u, row
      <4>. QED
        BY <1>3, <3>1, <4>1 DEF AllocateCBSSerial, row
    <3>5. row # None
      BY <3>3, <3>4
    <3>6. row \in Rows /\ row.scope = scope
      <4>1. row \in Rows \cup {None}
        BY <1>3, <3>3, <3>4 DEF TableInv, AllocTypeOK
      <4>2. row.scope = scope
        BY <1>3, <3>3, <3>4, <3>5 DEF TableInv, RowsMatchKeys
      <4>. QED
        BY <3>5, <4>1, <4>2
    <3>. HIDE DEF row, u
    <3>7. new \in Nat
      BY <3>6, SerialNat, ConstantsAssumption DEF Rows
    <3>8. Owned(allocations', root, Msg(new))
      BY <1>3, <3>4, <3>5, <3>6 DEF Owned, Rows
    <3>. QED
      BY <3>1, <3>3, <3>7, <3>8
  <2>. QED
    BY <2>1, <2>2
<1>6. PICK serial \in Nat :
         /\ job' = (IF info.encodable THEN Grown(serial) ELSE None)
         /\ TableInv' /\ RowsKept
         /\ Owned(allocations', root, Msg(serial))
  BY <1>5
<1>7. Grown(serial) \in Jobs
  BY <1>1, <1>2 DEF Jobs, Messages
<1>8. TypeOK'
  BY <1>4, <1>6, <1>7 DEF IInv, TypeOK, TableInv, AllocTypeOK
<1>9. JobOwned'
  <2>1. CASE job' = None
    BY <2>1 DEF JobOwned
  <2>2. CASE job' = Grown(serial)
    <3>1. /\ Len(job'.messages) = Len(job.messages) + 1
          /\ job'.messages[Len(job.messages) + 1] = Msg(serial)
          /\ \A i \in 1..Len(job.messages) : job'.messages[i] = job.messages[i]
          /\ job'.alert = job.alert
      BY <1>1, <2>2
    <3>2. \A i \in 1..Len(job.messages) : Owned(allocations', root, job.messages[i])
      <4>1. \A i \in 1..Len(job.messages) :
               job.messages[i] \in Messages /\ Owned(allocations, root, job.messages[i])
        BY <1>1 DEF IInv, JobOwned
      <4>. HIDE DEF root
      <4>. QED
        BY <1>3, <1>6, <4>1, OwnedKept
    <3>3. job'.alert \in Alerts /\ root = Root(job'.alert)
      BY <1>1, <3>1
    <3>4. Owned(allocations', root, Msg(serial))
      BY <1>6
    <3>5. ASSUME NEW i \in 1..Len(job'.messages)
          PROVE  Owned(allocations', root, job'.messages[i])
      <4>1. Len(job.messages) \in Nat
        BY <1>1
      <4>2. i \in 1..Len(job.messages) \/ i = Len(job.messages) + 1
        BY <3>1, <4>1
      <4>. QED
        BY <3>1, <3>2, <3>4, <4>2
    <3>. HIDE DEF root
    <3>. QED
      BY <3>3, <3>5 DEF JobOwned
  <2>. QED
    BY <1>6, <2>1, <2>2
<1>10. DurableBeforeDelivery'
  <2>1. job' # None => job'.phase = "prepare"
    BY <1>6
  <2>. QED
    BY <1>4, <1>6, <2>1, StoredKept DEF DurableBeforeDelivery
<1>. QED
  BY <1>4, <1>6, <1>8, <1>9, <1>10, StoredKept DEF IInv

\* The plan that is stored is the one that will be sent.
LEMMA SaveCBSPlanKeeps ==
    ASSUME IInv, SaveCBSPlan
    PROVE  IInv'
<1>1. /\ job \in Jobs /\ job # None /\ job.alert \in Alerts /\ job.alert.id \in Ids
      /\ job.messages \in Seq(Messages) /\ job.alert \in CapMessages
  BY ConstantsAssumption DEF IInv, TypeOK, JobOwned, SaveCBSPlan, Jobs, CapMessages
<1>2. /\ UNCHANGED <<allocations, onAir>>
      /\ plans' = [plans EXCEPT ![job.alert.id] = job.messages]
      /\ job' = [alert |-> job.alert, phase |-> "send", messages |-> job.messages]
  BY DEF SaveCBSPlan
<1>3. TableInv' /\ RowsKept
  BY <1>2, TableUnchanged DEF IInv
<1>4. plans' \in [Ids -> Seq(Messages) \cup {None}]
  BY <1>1, <1>2 DEF IInv, TypeOK
<1>5. TypeOK'
  BY <1>1, <1>2, <1>4 DEF IInv, TypeOK, Jobs
<1>6. /\ plans'[job.alert.id] = job.messages
      /\ \A x \in Ids : x # job.alert.id => plans'[x] = plans[x]
  BY <1>1, <1>2 DEF IInv, TypeOK
<1>7. JobOwned'
  BY <1>1, <1>2 DEF IInv, JobOwned
<1>8. PlansOwned'
  <2>1. Root(job.alert) \in RootsOf(job.alert.id)
    BY <1>1 DEF RootsOf
  <2>2. \A i \in 1..Len(job.messages) : Owned(allocations, Root(job.alert), job.messages[i])
    BY <1>1 DEF IInv, JobOwned
  <2>3. \A x \in Ids : plans'[x] # None =>
          \A i \in 1..Len(plans'[x]) : \E r \in RootsOf(x) : Owned(allocations, r, plans'[x][i])
    BY <1>6, <2>1, <2>2 DEF IInv, PlansOwned
  <2>. QED
    BY <1>2, <2>3 DEF PlansOwned
<1>9. DurableBeforeDelivery'
  BY <1>2, <1>6 DEF IInv, DurableBeforeDelivery
<1>. QED
  BY <1>3, <1>5, <1>7, <1>8, <1>9 DEF IInv

\* What the RAN accepts comes from the plan of the call.
LEMMA SendKeeps ==
    ASSUME IInv, NEW n \in Nat, Send(n)
    PROVE  IInv'
<1>. DEFINE Accepted(k) ==
         {i \in 1..n : k = AllocationKey(job.alert, job.messages[i].mid, job.messages[i].scope)}
<1>1. /\ job \in Jobs /\ job # None /\ job.alert \in Alerts
      /\ job.messages \in Seq(Messages) /\ n <= Len(job.messages)
  BY DEF IInv, TypeOK, JobOwned, Send, Jobs
<1>2. /\ UNCHANGED <<allocations, plans>> /\ job' = None
      /\ onAir' = [k \in Keys |-> IF Accepted(k) = {} THEN onAir[k]
                                  ELSE job.messages[CHOOSE i \in Accepted(k) : TRUE].serial]
  BY DEF Send
<1>3. TableInv' /\ RowsKept
  BY <1>2, TableUnchanged DEF IInv
<1>5. \A k \in Keys : Accepted(k) # {} =>
         \E i \in 1..Len(job.messages) :
            /\ k = AllocationKey(job.alert, job.messages[i].mid, job.messages[i].scope)
            /\ onAir'[k] = job.messages[i].serial
  <2>. SUFFICES ASSUME NEW k \in Keys, Accepted(k) # {}
                PROVE  \E i \in 1..Len(job.messages) :
            /\ k = AllocationKey(job.alert, job.messages[i].mid, job.messages[i].scope)
            /\ onAir'[k] = job.messages[i].serial
    OBVIOUS
  <2>. DEFINE one == CHOOSE i \in Accepted(k) : TRUE
  <2>1. one \in Accepted(k)
    OBVIOUS
  <2>2. onAir'[k] = job.messages[one].serial
    BY <1>2
  <2>. HIDE DEF one
  <2>. QED
    BY <1>1, <2>1, <2>2
<1>6. \A k \in Keys : onAir'[k] = onAir[k] \/
         \E i \in 1..Len(job.messages) :
            /\ k = AllocationKey(job.alert, job.messages[i].mid, job.messages[i].scope)
            /\ onAir'[k] = job.messages[i].serial
  BY <1>2, <1>5
<1>7. \A i \in 1..Len(job.messages) :
         job.messages[i] \in Messages /\ Owned(allocations, Root(job.alert), job.messages[i])
  BY <1>1 DEF IInv, JobOwned
<1>. HIDE DEF Accepted
<1>8. TypeOK'
  <2>1. \A k \in Keys : onAir'[k] \in Nat \cup {None}
    BY <1>6, <1>7 DEF IInv, TypeOK, Messages
  <2>2. onAir' = [k \in Keys |-> onAir'[k]]
    BY <1>2
  <2>. QED
    BY <1>2, <2>1, <2>2 DEF IInv, TypeOK
<1>9. DurableBeforeDelivery'
  <2>. SUFFICES ASSUME NEW k \in Keys, onAir'[k] # None
                PROVE  /\ allocations[k] # None
                       /\ \E o \in 0..(UpdateNumbers - 1) :
                             onAir'[k] = Serial(k.scope, allocations[k].code, o)
    BY <1>2 DEF DurableBeforeDelivery
  <2>1. CASE onAir'[k] = onAir[k]
    BY <2>1 DEF IInv, DurableBeforeDelivery
  <2>2. CASE \E i \in 1..Len(job.messages) :
               /\ k = AllocationKey(job.alert, job.messages[i].mid, job.messages[i].scope)
               /\ onAir'[k] = job.messages[i].serial
    BY <1>7, <2>2 DEF AllocationKey, Owned
  <2>. QED
    BY <1>6, <2>1, <2>2
<1>10. PlansOwned' /\ JobOwned'
  BY <1>2 DEF IInv, PlansOwned, JobOwned
<1>. QED
  BY <1>3, <1>8, <1>9, <1>10 DEF IInv

\* A call that ends early leaves every table as it is.
LEMMA AbandonKeeps ==
    ASSUME IInv, Abandon \/ UNCHANGED vars
    PROVE  IInv'
<1>1. UNCHANGED <<allocations, plans, onAir>> /\ (job' = None \/ job' = job)
  BY DEF Abandon, vars
<1>2. TableInv'
  BY <1>1, TableUnchanged DEF IInv
<1>. QED
  BY <1>1, <1>2 DEF IInv, TypeOK, JobOwned, PlansOwned, DurableBeforeDelivery

\* The inductive invariant holds in every reachable state, whatever fails or is
\* redelivered between the transactions of Prepare.
THEOREM Invariance == Spec => []IInv
<1>1. IInv /\ [Next]_vars => IInv'
  <2>. SUFFICES ASSUME IInv, [Next]_vars PROVE IInv'
    OBVIOUS
  <2>1. CASE \E a \in Alerts : Prepare(a)
    BY <2>1, PrepareKeeps
  <2>2. CASE \E scope \in Scopes : PrepareInfo(scope)
    BY <2>2, PrepareInfoKeeps
  <2>3. CASE SaveCBSPlan
    BY <2>3, SaveCBSPlanKeeps
  <2>4. CASE job # None /\ \E n \in 0..Len(job.messages) : Send(n)
    <3>1. PICK n \in 0..Len(job.messages) : Send(n)
      BY <2>4
    <3>2. n \in Nat
      BY <2>4 DEF IInv, TypeOK, Jobs
    <3>. QED
      BY <3>1, <3>2, SendKeeps
  <2>5. CASE Abandon \/ UNCHANGED vars
    BY <2>5, AbandonKeeps
  <2>. QED
    BY <2>1, <2>2, <2>3, <2>4, <2>5 DEF Next, PublishStep
<1>. QED
  BY <1>1, InitIInv, PTL DEF Spec

-----------------------------------------------------------------------------
(* Consequences *)

\* Tables, plans and the call in progress keep their types; in particular the
\* update number never leaves its field.
THEOREM TypeCorrect == Spec => []TypeOK
  BY Invariance, PTL DEF IInv

\* AllocateCBSSerial leaves no holes in the message codes of an identifier and
\* scope and never hands out a code beyond its field.
THEOREM DenseCodesHold == Spec => []DenseCodes
  BY Invariance, PTL DEF IInv, TableInv

\* A code in use is below MessageCodes.
LEMMA CodeInField ==
    ASSUME TableInv, NEW k \in Keys, allocations[k] # None
    PROVE  /\ allocations[k].code \in 0..(MessageCodes - 1)
           /\ allocations[k].number \in 0..(UpdateNumbers - 1)
           /\ allocations[k].scope = k.scope /\ k.scope \in Scopes /\ k.mid \in MessageIds
<1>1. k.scope \in Scopes /\ k.mid \in MessageIds
  BY DEF Keys
<1>2. allocations[k] \in Rows /\ k \in RowsFor(k.mid, k.scope)
  BY DEF TableInv, AllocTypeOK, RowsMatchKeys, RowsFor
<1>. DEFINE n == Cardinality(RowsFor(k.mid, k.scope))
<1>3. n <= MessageCodes /\ CodesFor(k.mid, k.scope) = 0..(n - 1) /\ n \in Nat
  BY <1>1, FS_CardinalityType DEF TableInv, DenseCodes, FiniteRows
<1>4. allocations[k].code \in CodesFor(k.mid, k.scope)
  BY <1>2 DEF CodesFor
<1>5. MessageCodes \in Nat
  BY ConstantsAssumption
<1>. HIDE DEF n
<1>6. allocations[k].code \in 0..(MessageCodes - 1)
  BY <1>3, <1>4, <1>5
<1>. QED
  BY <1>1, <1>2, <1>6 DEF Rows, TableInv, RowsMatchKeys

\* No two allocation keys of a message identifier ever share a serial number.
THEOREM SerialsUniqueHold == Spec => []SerialsUnique
<1>1. IInv => SerialsUnique
  <2>. SUFFICES ASSUME TableInv, NEW k \in Keys, NEW l \in Keys,
                       allocations[k] # None, allocations[l] # None,
                       k.mid = l.mid, SerialOf(k) = SerialOf(l)
                PROVE  k = l
    BY DEF IInv, SerialsUnique
  <2>1. k.scope = l.scope /\ allocations[k].code = allocations[l].code
    BY CodeInField, SerialInjective DEF SerialOf
  <2>. QED
    BY <2>1 DEF TableInv, CodesInjective
<1>. QED
  BY <1>1, Invariance, PTL

\* Cancelling an alert never names a broadcast of an unrelated alert.
THEOREM NoForeignStopHolds == Spec => []NoForeignStop
<1>1. IInv => NoForeignStop
  <2>. SUFFICES ASSUME IInv, NEW x \in Ids, NEW y \in Ids,
                       plans[x] # None, plans[y] # None,
                       RootsOf(x) \cap RootsOf(y) = {},
                       NEW i \in 1..Len(plans[x]), NEW j \in 1..Len(plans[y]),
                       plans[x][i].mid = plans[y][j].mid,
                       plans[x][i].serial = plans[y][j].serial
                PROVE  FALSE
    BY DEF NoForeignStop
  <2>. DEFINE mx == plans[x][i]
              my == plans[y][j]
  <2>1. mx \in Messages /\ my \in Messages
    <3>1. plans[x] \in Seq(Messages) /\ plans[y] \in Seq(Messages)
      BY DEF IInv, TypeOK
    <3>. QED
      BY <3>1
  <2>2. PICK rx \in RootsOf(x) : Owned(allocations, rx, mx)
    BY DEF IInv, PlansOwned
  <2>3. PICK ry \in RootsOf(y) : Owned(allocations, ry, my)
    BY DEF IInv, PlansOwned
  <2>4. rx \in Ids /\ ry \in Ids /\ rx # ry
    BY RootType, ConstantsAssumption DEF RootsOf
  <2>. HIDE DEF mx, my
  <2>. DEFINE kx == [alert |-> rx, mid |-> mx.mid, scope |-> mx.scope]
              ky == [alert |-> ry, mid |-> my.mid, scope |-> my.scope]
  <2>5. /\ kx \in Keys /\ ky \in Keys /\ kx # ky
        /\ kx.scope = mx.scope /\ ky.scope = my.scope /\ kx.mid = mx.mid /\ ky.mid = my.mid
    BY <2>1, <2>4 DEF Keys, Messages
  <2>6. PICK n \in 0..(UpdateNumbers - 1) :
           allocations[kx] # None /\ mx.serial = Serial(mx.scope, allocations[kx].code, n)
    BY <2>2 DEF Owned
  <2>7. PICK o \in 0..(UpdateNumbers - 1) :
           allocations[ky] # None /\ my.serial = Serial(my.scope, allocations[ky].code, o)
    BY <2>3 DEF Owned
  <2>8. mx.mid = my.mid /\ mx.serial = my.serial
    BY DEF mx, my
  <2>. HIDE DEF kx, ky
  <2>9. /\ allocations[kx].code \in 0..(MessageCodes - 1) /\ mx.scope \in Scopes
        /\ allocations[ky].code \in 0..(MessageCodes - 1) /\ my.scope \in Scopes
    BY <2>5, <2>6, <2>7, CodeInField DEF IInv
  <2>10. mx.scope = my.scope /\ allocations[kx].code = allocations[ky].code
    <3>. DEFINE s == mx.scope
                t == my.scope
                c == allocations[kx].code
                d == allocations[ky].code
    <3>1. Serial(s, c, n) = Serial(t, d, o)
      BY <2>6, <2>7, <2>8
    <3>2. /\ s \in Scopes /\ t \in Scopes
          /\ c \in 0..(MessageCodes - 1) /\ d \in 0..(MessageCodes - 1)
      BY <2>9
    <3>. HIDE DEF s, t, c, d
    <3>3. s = t /\ c = d
      BY <3>1, <3>2, SerialInjective
    <3>. QED
      BY <3>3 DEF s, t, c, d
  <2>. QED
    BY <2>5, <2>6, <2>7, <2>8, <2>10 DEF IInv, TableInv, CodesInjective
<1>. QED
  BY <1>1, Invariance, PTL

\* What is being sent is stored, and what the RAN accepted is allocated.
THEOREM DurableBeforeDeliveryHolds == Spec => []DurableBeforeDelivery
  BY Invariance, PTL DEF IInv

-----------------------------------------------------------------------------
(* Retries *)

\* Nothing updates x: neither its own message nor one that refers to it first.
Quiet(x) == \A a \in Alerts : a.id = x \/ Root(a) = x => ~IsUpdate(a)

\* Message msg carries the serial number that the row of x had when it was
\* inserted.
FirstSerial(T, x, msg) ==
    LET k == [alert |-> x, mid |-> msg.mid, scope |-> msg.scope]
    IN  T[k] # None /\ msg.serial = Serial(msg.scope, T[k].code, 0)

QuietRows ==
    \A k \in Keys : Quiet(k.alert) /\ allocations[k] # None => allocations[k].number = 0

QuietJob ==
    job # None /\ Quiet(job.alert.id) =>
        \A i \in 1..Len(job.messages) : FirstSerial(allocations, job.alert.id, job.messages[i])

QuietPlans ==
    \A x \in Ids : Quiet(x) /\ plans[x] # None =>
        \A i \in 1..Len(plans[x]) : FirstSerial(allocations, x, plans[x][i])

\* What an alert that nothing updates was given stays its first serial number.
RetryInv == QuietRows /\ QuietJob /\ QuietPlans

\* A first serial number stays one as long as rows keep their codes.
LEMMA FirstSerialKept ==
    ASSUME RowsKept, NEW x \in Ids, NEW msg \in Messages, FirstSerial(allocations, x, msg)
    PROVE  FirstSerial(allocations', x, msg)
<1>1. [alert |-> x, mid |-> msg.mid, scope |-> msg.scope] \in Keys
  BY DEF Keys, Messages
<1>. QED
  BY <1>1 DEF FirstSerial, RowsKept

\* Stored plans keep their first serial numbers through a step that leaves the
\* plans alone.
LEMMA QuietPlansKept ==
    ASSUME IInv, RetryInv, RowsKept, UNCHANGED plans
    PROVE  QuietPlans'
<1>. SUFFICES ASSUME NEW x \in Ids, Quiet(x), plans[x] # None, NEW i \in 1..Len(plans[x])
              PROVE  FirstSerial(allocations', x, plans[x][i])
  BY DEF QuietPlans, Quiet
<1>1. plans[x] \in Seq(Messages)
  BY DEF IInv, TypeOK
<1>2. plans[x][i] \in Messages
  BY <1>1
<1>3. FirstSerial(allocations, x, plans[x][i])
  BY DEF RetryInv, QuietPlans
<1>. QED
  BY <1>2, <1>3, FirstSerialKept

\* An info block of a message that is no update is given the first serial
\* number of its row, whether it is remembered, found or new.
LEMMA PrepareInfoRetries ==
    ASSUME IInv, RetryInv, NEW scope \in Scopes, PrepareInfo(scope)
    PROVE  RetryInv' /\ RowsKept /\ UNCHANGED plans
<1>. DEFINE info == job.alert.infos[Len(job.messages) + 1]
            key  == AllocationKey(job.alert, info.mid, scope)
            root == Root(job.alert)
            u    == IsUpdate(job.alert)
            row  == RowAfter(key, info.mid, scope, u)
            Msg(serial) == [mid |-> info.mid, scope |-> scope, serial |-> serial]
            Grown(serial) == [alert |-> job.alert, phase |-> "prepare",
                              messages |-> Append(job.messages, Msg(serial))]
<1>1. /\ job \in Jobs /\ job # None /\ job.alert \in Alerts /\ job.alert \in CapMessages
      /\ job.messages \in Seq(Messages) /\ job.alert.id \in Ids
      /\ Len(job.messages) < Len(job.alert.infos)
      /\ job.alert.infos \in Seq(Infos)
  BY ConstantsAssumption DEF IInv, TypeOK, JobOwned, PrepareInfo, Jobs, CapMessages
<1>2. info.mid \in MessageIds
  <2>1. info \in Infos
    BY <1>1
  <2>. QED
    BY <2>1 DEF PrepareInfo, Infos
<1>3. /\ key \in Keys /\ key.mid = info.mid /\ key.scope = scope /\ key.alert = root
      /\ key = [alert |-> root, mid |-> info.mid, scope |-> scope] /\ root \in Ids
  BY <1>1, <1>2, RootType DEF AllocationKey, Keys
<1>4. UNCHANGED plans /\ u \in BOOLEAN
  BY DEF PrepareInfo, IsUpdate
<1>5. allocations \in [Keys -> Rows \cup {None}]
  BY DEF IInv, TypeOK
<1>6. ASSUME Remembered(info.mid, scope) = {}
      PROVE  /\ TableInv' /\ RowsKept /\ allocations'[key] # None
             /\ allocations' = [allocations EXCEPT ![key] = row]
             /\ job' = IF info.encodable THEN Grown(Serial(row.scope, row.code, row.number)) ELSE None
  <2>1. /\ AllocateCBSSerial(key, info.mid, scope, u)
        /\ job' = IF info.encodable THEN Grown(Serial(row.scope, row.code, row.number)) ELSE None
    BY <1>6 DEF PrepareInfo
  <2>2. AllocateCBSSerial(key, key.mid, key.scope, u)
    BY <1>3, <2>1
  <2>3. TableInv' /\ RowsKept /\ allocations'[key] # None
    <3>. HIDE DEF key, u
    <3>. QED
      BY <1>3, <1>4, <2>2, AllocateKeepsTable DEF IInv
  <2>. QED
    BY <2>1, <2>3 DEF AllocateCBSSerial
<1>7. ASSUME Remembered(info.mid, scope) # {}
      PROVE  /\ UNCHANGED allocations
             /\ \E j \in 1..Len(job.messages) :
                  /\ job.messages[j].mid = info.mid /\ job.messages[j].scope = scope
                  /\ job' = IF info.encodable THEN Grown(job.messages[j].serial) ELSE None
  <2>. DEFINE old == CHOOSE s \in Remembered(info.mid, scope) : TRUE
  <2>1. old \in Remembered(info.mid, scope)
    BY <1>7
  <2>2. UNCHANGED allocations /\ job' = IF info.encodable THEN Grown(old) ELSE None
    BY <1>7 DEF PrepareInfo
  <2>3. PICK j \in 1..Len(job.messages) :
           /\ job.messages[j].mid = info.mid /\ job.messages[j].scope = scope
           /\ old = job.messages[j].serial
    BY <2>1 DEF Remembered
  <2>. HIDE DEF old
  <2>. QED
    BY <2>2, <2>3
<1>8. RowsKept
  BY <1>6, <1>7, TableUnchanged DEF IInv
\* A row that nothing updates was inserted with number 0 and is not advanced.
<1>9. QuietRows'
  <2>1. CASE Remembered(info.mid, scope) # {}
    BY <1>7, <2>1 DEF RetryInv, QuietRows, Quiet
  <2>2. CASE Remembered(info.mid, scope) = {}
    <3>1. \A k \in Keys \ {key} : allocations'[k] = allocations[k]
      BY <1>5, <1>6, <2>2
    <3>2. allocations'[key] = row
      BY <1>3, <1>5, <1>6, <2>2
    <3>3. Quiet(root) => ~u
      BY <1>1 DEF Quiet
    <3>4. Quiet(root) => row.number = 0
      BY <1>3, <3>3 DEF RowAfter, RetryInv, QuietRows
    <3>. HIDE DEF key, row, root
    <3>. QED
      BY <1>3, <3>1, <3>2, <3>4 DEF RetryInv, QuietRows, Quiet
  <2>. QED
    BY <2>1, <2>2
<1>10. QuietJob'
  <2>. SUFFICES ASSUME job' # None, Quiet(job'.alert.id), NEW i \in 1..Len(job'.messages)
                PROVE  FirstSerial(allocations', job'.alert.id, job'.messages[i])
    BY DEF QuietJob, Quiet
  <2>1. PICK serial : job' = Grown(serial)
    BY <1>6, <1>7
  <2>2. /\ Len(job'.messages) = Len(job.messages) + 1
        /\ job'.messages[Len(job.messages) + 1] = Msg(serial)
        /\ \A n \in 1..Len(job.messages) : job'.messages[n] = job.messages[n]
        /\ job'.alert = job.alert
    BY <1>1, <2>1
  <2>3. Quiet(job.alert.id) /\ ~u /\ root = job.alert.id
    BY <1>1, <2>2 DEF Quiet, Root
  <2>4. \A n \in 1..Len(job.messages) :
           /\ job.messages[n] \in Messages
           /\ FirstSerial(allocations, job.alert.id, job.messages[n])
    BY <1>1, <2>3 DEF RetryInv, QuietJob
  <2>5. CASE i \in 1..Len(job.messages)
    BY <1>1, <1>8, <2>2, <2>4, <2>5, FirstSerialKept
  <2>6. CASE i = Len(job.messages) + 1
    <3>1. CASE Remembered(info.mid, scope) # {}
      <4>1. PICK j \in 1..Len(job.messages) :
              /\ job.messages[j].mid = info.mid /\ job.messages[j].scope = scope
              /\ job' = Grown(job.messages[j].serial)
        BY <1>7, <3>1
      <4>2. job'.messages[i] = Msg(job.messages[j].serial)
        BY <1>1, <2>6, <4>1
      <4>3. FirstSerial(allocations, job.alert.id, Msg(job.messages[j].serial))
        BY <2>4, <4>1 DEF FirstSerial
      <4>. QED
        BY <1>7, <2>2, <3>1, <4>2, <4>3
    <3>2. CASE Remembered(info.mid, scope) = {}
      <4>1. /\ job' = Grown(Serial(row.scope, row.code, row.number))
            /\ allocations'[key] = row /\ row # None
        <5>1. /\ allocations' = [allocations EXCEPT ![key] = row] /\ allocations'[key] # None
              /\ job' = IF info.encodable THEN Grown(Serial(row.scope, row.code, row.number)) ELSE None
          BY <1>6, <3>2, Zenon
        <5>2. job' = Grown(Serial(row.scope, row.code, row.number))
          BY <5>1, Zenon
        <5>3. key \in Keys
          BY <1>3
        <5>. HIDE DEF key, row
        <5>4. allocations'[key] = row
          BY <1>5, <5>1, <5>3
        <5>. QED
          BY <5>1, <5>2, <5>4, Zenon
      <4>2. job'.messages[i] = Msg(Serial(row.scope, row.code, row.number))
        <5>. DEFINE new == Serial(row.scope, row.code, row.number)
        <5>1. job' = Grown(new)
          BY <4>1
        <5>. HIDE DEF new
        <5>2. job'.messages[i] = Msg(new)
          BY <1>1, <2>6, <5>1
        <5>. QED
          BY <5>2 DEF new
      <4>3. row.scope = scope
        BY <1>3, <1>6, <3>2, <4>1 DEF TableInv, RowsMatchKeys
      <4>4. row.number = 0
        BY <1>3, <1>9, <2>3, <4>1 DEF QuietRows, Quiet
      <4>. HIDE DEF row
      <4>5. FirstSerial(allocations', root, Msg(Serial(row.scope, row.code, row.number)))
        BY <1>3, <4>1, <4>3, <4>4 DEF FirstSerial
      <4>. QED
        BY <2>2, <2>3, <4>2, <4>5
    <3>. QED
      BY <3>1, <3>2
  <2>. QED
    BY <1>1, <2>2, <2>5, <2>6
<1>11. QuietPlans'
  BY <1>4, <1>8, QuietPlansKept
<1>. QED
  BY <1>4, <1>8, <1>9, <1>10, <1>11 DEF RetryInv

\* Every step keeps the invariant of retries, the rows, and every stored plan
\* or the one that replaces it.
LEMMA NextRetries ==
    ASSUME IInv, RetryInv, [Next]_vars
    PROVE  /\ RetryInv' /\ RowsKept
           /\ \A x \in Ids : plans[x] # None => plans'[x] # None
<1>1. CASE \E scope \in Scopes : PrepareInfo(scope)
  BY <1>1, PrepareInfoRetries
<1>2. CASE SaveCBSPlan
  <2>1. /\ UNCHANGED allocations /\ job # None
        /\ job.messages \in Seq(Messages) /\ job.alert.id \in Ids
        /\ plans' = [plans EXCEPT ![job.alert.id] = job.messages]
        /\ job' = [alert |-> job.alert, phase |-> "send", messages |-> job.messages]
    BY <1>2 DEF SaveCBSPlan, IInv, TypeOK, Jobs, CapMessages
  <2>2. RowsKept
    BY <2>1, TableUnchanged DEF IInv
  <2>3. \A x \in Ids : plans'[x] = IF x = job.alert.id THEN job.messages ELSE plans[x]
    BY <2>1 DEF IInv, TypeOK
  <2>4. job.messages # None
    BY <2>1, ConstantsAssumption
  <2>5. QuietRows' /\ QuietJob'
    BY <2>1 DEF RetryInv, QuietRows, QuietJob, Quiet
  <2>6. QuietPlans'
    BY <2>1, <2>3 DEF RetryInv, QuietPlans, QuietJob, Quiet
  <2>. QED
    BY <2>2, <2>3, <2>4, <2>5, <2>6 DEF RetryInv
<1>3. CASE UNCHANGED <<allocations, plans>> /\ (job' = None \/ job' = job \/ job'.messages = <<>>)
  <2>1. RowsKept
    BY <1>3, TableUnchanged DEF IInv
  <2>2. QuietRows' /\ QuietJob'
    BY <1>3 DEF RetryInv, QuietRows, QuietJob, Quiet
  <2>. QED
    BY <1>3, <2>1, <2>2, QuietPlansKept DEF RetryInv
<1>. QED
  BY <1>1, <1>2, <1>3 DEF Next, PublishStep, Prepare, Send, Abandon, vars

\* Preparing an alert again that nothing updates gives every info block the
\* serial number it had, after whatever failure and however many calls for
\* other alerts lie in between.
THEOREM RetryRepeatableHolds == Spec => RetryRepeatable
<1>1. Init => RetryInv
  BY DEF Init, RetryInv, QuietRows, QuietJob, QuietPlans
<1>2. ASSUME IInv, IInv', RetryInv, RetryInv', [Next]_vars
      PROVE  PlanRepeats
  <2>. SUFFICES ASSUME NEW x \in Ids, plans[x] # None, Quiet(x),
                       NEW i \in 1..Len(plans[x]), NEW j \in 1..Len(plans'[x]),
                       plans[x][i].mid = plans'[x][j].mid,
                       plans[x][i].scope = plans'[x][j].scope
                PROVE  plans[x][i].serial = plans'[x][j].serial
    BY DEF Quiet, PlanRepeats
  <2>1. RowsKept /\ plans'[x] # None
    BY <1>2, NextRetries
  <2>2. plans[x] \in Seq(Messages)
    BY <1>2 DEF IInv, TypeOK
  <2>3. plans[x][i] \in Messages
    BY <2>2
  <2>4. FirstSerial(allocations, x, plans[x][i])
    BY <1>2 DEF RetryInv, QuietPlans
  <2>5. FirstSerial(allocations', x, plans[x][i])
    BY <2>1, <2>3, <2>4, FirstSerialKept
  <2>6. FirstSerial(allocations', x, plans'[x][j])
    BY <1>2, <2>1 DEF RetryInv, QuietPlans, Quiet
  <2>. QED
    BY <2>5, <2>6 DEF FirstSerial
<1>3. IInv /\ RetryInv /\ [Next]_vars => RetryInv'
  BY NextRetries
<1>4. IInv /\ IInv' /\ RetryInv /\ RetryInv' /\ [Next]_vars => [PlanRepeats]_vars
  BY <1>2
<1>. QED
  BY <1>1, <1>3, <1>4, Invariance, PTL DEF Spec, RetryRepeatable

=============================================================================
