# TLA+ models of the VectorCore CBC

Specifications, model-checking instances and proofs for the cell broadcast
centre in this repository. The CBC receives CAP 1.2 alerts from a cell
broadcast entity (CBE) over XMPP, turns each into a durable CBS plan with
serial numbers, delivers the plan to every configured MME over persistent SCTP
associations, and keeps alert state in SQLite and in an in-memory index.

## 1. Inventory

| Part | State | Operations | Interacts with |
|---|---|---|---|
| XMPP client (`internal/xmpp`) | session, reconnect delay | `Run`, `runOnce` | calls `Service.Ingest`, one message at a time; an error ends the session |
| CAP (`internal/cap`) | none | `Validate`, `ReferenceIDs`, polygon parsing | input of everything below |
| Alert service (`internal/service`) | `alerts` index under `mu`, counters | `Ingest`, `Expire`, `Recover` | `Publisher`, `Store`; read by the operator API |
| Alert store (`storage/sqlite`) | tables `alerts`, `audit_events` | `Upsert`, `Expire`, `LoadAlerts` | one connection, a transaction per operation |
| CBS preparation (`internal/cbs`) | tables `cbs_allocations`, `cbs_plans` | `Prepare`, `AllocateCBSSerial`, `SaveCBSPlan`, `CBSPlan` | called by `Publish`; asks the inventory and the geocode registry for cells |
| Classification, encoding (`cbs/classify.go`, `encoding.go`, `sbcap.go`) | none | message identifier, GSM-7/UCS-2 pages, page container | used by `Prepare` and `Publish` |
| MME association (`internal/delivery`) | `conn`, `done`, `sendMu`, `awaiting` | `maintain`, `readLoop`, `sendAndAwait`, `deliverResponse`, `failAwaiting` | one goroutine per peer, plus the senders |
| Delivery (`internal/delivery`) | none of its own | `Publish`, `send`, `handleRestart` | associations, plans, alerts table |
| SBcAP codec (`internal/sbcap`) | none | APER encoding and decoding | used by delivery |
| Cell inventory (`internal/inventory`) | tables `lte_cells`, `inventory_imports`, `inventory_versions` | CSV imports, creation and deletion of cells, selection by area | operator API; `Prepare` |
| Geocodes (`internal/geocode`) | tables `cell_geocodes`, `geo_codes` | tags by hand and by CSV, resolution | operator API; `Prepare` |
| Targeting (`cbs.Preparer.target`) | none of its own | literal cells, shapes and geocodes to a scope and cells | `SelectionPreview`, `ResolveCells` |
| Operator API, web console, configuration, start-up | none | HTTP handlers, wiring | everything |

What is hard here, and the properties that make the parts correct:

* **Serial numbers.** Sixteen bits name a broadcast to a phone: two bits of
  scope, ten of message code, four of update number. Codes are never freed and
  run out; update numbers wrap; allocations are committed before the rest of
  the preparation, which may fail and be retried. Two unrelated broadcasts must
  never share a number, the number must survive retries, and the plan must be
  stored before and be true of what is sent.
* **Two copies of alert state.** `Ingest` and `Expire` each write the database
  and then the index, with different locking; the process may die in between.
  The index must be backed by the store, nothing superseded or cancelled may
  come back, and what expires must leave, audited, and not before its time.
* **Request and response on one association.** Responses may be late, refer to
  a request that timed out, or never come; the connection may die while a
  caller registers; a restart handler must not wait for the goroutine that
  reads its answer. Calls must end, and end with their own outcome.
* **Several peers, partial failure, and a second writer.** `Publish` gives up
  at the first failing peer, with others already broadcasting; `handleRestart`
  sends from its own reading of the database.
* **A session that must come back.** The XMPP client goes through a dozen
  elements and up to two TLS handshakes before it hears of an alert, and ends the
  session on the first thing it does not like. Nothing secret may go out before
  TLS, no alert may be passed over, and the session must return.
* **Octets.** A polygon becomes cells, cells become an area, a text becomes
  septets, pages and a container, all of it an aligned PER encoding that an MME
  takes apart; what an MME reports of restarted eNBs is taken apart here and
  narrows what is sent again. What is meant at one end must be what is
  understood at the other.
* **An inventory that changes under its readers.** Imports write an audit row,
  apply the file in one transaction and close the audit row, and may die or fail
  on the way; cells are deleted and tagged in two statements each; a message is
  targeted with one query per shape and geocode. An import must be all or
  nothing and leave tags with their cells, a tag must never come to a cell it
  was not meant for, and a target must hold what matched throughout and nothing
  that never did.

`PROJECT.json` lists these hazards with their lines under "hazards".

## 2. Modules

| Module | Models | Composes / uses |
|---|---|---|
| `CbsSerial` | `cbs.Preparer.Prepare`, `AllocateCBSSerial`, `SaveCBSPlan`, the sends that follow | |
| `CbsSerial_proof` | the theorems about it | `CbsSerial`, TLAPS |
| `AlertRegister` | abstract: what service and store promise together | |
| `AlertLifecycle` | `service.Service` and the alerts and audit tables | implements `AlertRegister`; abstracts `Publish` to success or failure |
| `AlertLifecycle_proof` | the theorems about it | `AlertLifecycle`, TLAPS |
| `MmeAssociation` | one `mmeAssociation`, its `maintain` goroutine and its callers | MME and network are external |
| `Delivery` | `Publish` over all peers, `Ingest` around it, `handleRestart` beside it | abstracts the other three to what it needs of them |
| `XmppClient` | `xmpp.Client` and `cap.Alert.Validate` | abstracts `Ingest`; the CBE is external |
| `Inventory` | `inventory.Service`, `geocode.Service` and their tables under concurrent requests | |
| `Targeting` | `cbs.Preparer.target` and its queries | extends `Inventory`: the requests go on meanwhile |
| `Geometry` | `inventory/geometry.go`, the matcher, candidates, CAP polygons | operators |
| `Aper` | `sbcap/bits.go`, `aper.go` | operators |
| `Sbcap` | `sbcap/pdu.go`, `ies.go`, `messages.go`, `restart.go` | operators, over `Aper` |
| `CbsMessage` | `cbs/classify.go`, `encoding.go`, `sbcap.go`, the target | operators, over `Sbcap` and `Geometry` |
| `Wire` | `Publish`, `readLoop`, `handleIndication`, `handleRestart` with real PDUs | over `CbsMessage`; MME, eNBs and handsets are external |
| `MmeAssociation_proof`, `Delivery_proof`, `XmppClient_proof` | the theorems about the module of that name | that module, TLAPS |
| `Targeting_proof` | the theorems about `Inventory` and `Targeting` | `Targeting`, TLAPS |
| `Sbcap_proof` | lemmas about `Aper` and `Sbcap`: what each encoder writes its decoder reads | `Sbcap`, TLAPS |
| `Wire_proof` | the theorems about classification, targets, PDUs, restarts and what of them is on the air | `Wire`, `Sbcap_proof` |
| `MC_*` | instances for TLC | |

Each module has "faulty variants" next to the definitions they vary: the
mutation a plausible slip in the code would be. `PROJECT.json` pairs every
checked property with one that TLC must catch.

### CbsSerial

`allocations` and `plans` are the two tables, `job` is the one `Publish` call
in progress (the XMPP goroutine is its only caller), `onAir` what the RAN last
accepted under an allocation key. `PrepareInfo` is one turn of the loop in
`Prepare`: memo lookup, else the transaction of `AllocateCBSSerial`, then
`Encode`, whose failure ends the call and leaves the allocation. The scope a
target resolves to is a choice on every attempt (inventory and geocodes may
change between attempts); classification and encodability are attributes of the
info block. `Send(n)` is the rest of `Publish`: the first n messages were
accepted. `Abandon` is an error return or the death of the process.

### AlertLifecycle

`db` and `audit` are tables, `alerts` the index, `ingest` and `sweep` the calls
in progress. `Ingest` is four steps, split where it releases `Service.mu`
(`IngestBegin`, Publish, then `IngestUpsert`) and between its two writes under
the lock (`IngestUpsert`, `IngestRetain`): a crash may fall there. `Expire` is
two steps: the transaction without the lock, the index under it. `ExpiresAt`
is what a textual comparison of RFC 3339 times with different offsets compares.
`Crash` and `Recover` are the process; `Init` allows the row an earlier version
of `Store.Expire` would have left marked.

`AlertRegister` is the abstraction: one map from identifiers to records that
outlives the process and changes in one step per accepted message and per
expiry. The mapping shows the index, but the table where a call has written the
table and not yet the index and while the process is down. Then an `Ingest`
takes effect when `Upsert` commits, `IngestRetain`, `ExpireIndex` and `Crash`
are invisible, and `Recover` is an expiry.

### MmeAssociation

`phase` is where `maintain` is, inlined with `readLoop`; `call[s]` is sender
s's `sendAndAwait`. A step is what happens under one mutex or in one call on
the connection, so `deliverResponse` is two steps (read `awaiting`, fill the
channel) and so is `failAwaiting`. Connections and jobs are identities from
small sets, reused when nothing refers to them. A result carries the request
it was the MME's answer to, which the code does not keep, so that properties
can ask whose answer a caller got. `ReconnectMin` and `ReconnectMax` are in
units of the minimum; whether a connection was short-lived is a choice.

### Delivery

`publish` holds the alert, the index of the plan and of the peer being sent to;
a send is one step with three outcomes: carried out and acknowledged, carried
out with an error, not carried out with an error. Every attempt resolves the
areas of the alert anew, and inventory and tags may have changed since the last:
`PublishBegin` chooses the target, a scope and the cells meant, from the alert's
`targets`, allocates under the key of root alert and scope (`Key`), and stores the
plan in the place of an earlier attempt's. `tried` is history: the targets an
alert's plans have had. `handler[p]` is the `handleRestart` of peer p: load, then
one record after the other (any order; the code has that of receipt), each plan
read when its turn comes.

Messages carry the alert whose text they are, beside code, number and area, and
`air[p]` is what the cells of peer p broadcast, cell by cell. That a Write-Replace
replaces what has its message code in the cells of its area, and a Stop, which
carries the area of the plan it was made from (`SBcAPStop`), ends there exactly
its serial number, is the RAN's behaviour and external.

### XmppClient

`phase` is where `Run` is; the handshake is the sequence of writes, reads and
TLS handshakes of `runOnce` for the configured mode, `step` how far it has come.
`inbox` is what the CBE has written and the decoder not read: `TlsHandshake`
empties it, as a new decoder does. `Named` compares elements the way
`expectStart` does, by name, so that an `iq` of type error passes for a
successful bind. `secure` and `clear` record what was written and relied on
outside TLS. An alert is accepted, or refused (it does not decode, `Validate`,
`Ingest`) and then ends the session. `CbeOffersFirst` is the action whose
fairness `AlertGetsThrough` needs, see below.

### Wire and the operators under it

A PDU is a sequence of bits. `Aper` and `Sbcap` have one operator per encoder and
decoder of the code; a decoder carries buffer, position and whether it has
failed. `MC_Wire` asserts that two of the golden vectors under
`sbcap/testdata` come out; the others were compared the same way. In
`CbsMessage` a text is a sequence of characters, each with its septets in the
GSM alphabet, if any, and its code point. In `Geometry` coordinates are
integers and the comparison of `rayCrossings` is multiplied out.

`Wire` sends one request at a time. A draft is an info block with its serial
number; `Prepared` makes it a message; `job` is the call awaiting an answer (or
`NoJob`); `inbox` holds each PDU of the MME together with what the MME meant by it,
which `Understood` compares with what `Dispatch` makes of it. `Understood` also
compares the request on its way with the job: what the MME reads out of the octets
is the job's procedure, its identifiers, and the cells its target means (`Meant`).
`NarrowTargetToRestart` keeps the ids of a target that restarted in their order
(`Those`) and compares tracking areas as the code does, cut to 16 bits
(`Uint16`). `air` is what each cell
broadcasts, as an MME understands the requests. `ReadLoop` on a restart
indication puts the narrowed messages into `todo`, which `Rebroadcast` works
off. `AreaIsAlerted` has its own definition of when figures meet (convex
figures are disjoint if a side of one separates them; a quadrangle is cut into
two triangles; a hole counts if it swallows the figure).

### Inventory

`cells`, `entries`, `imports` and `versions` are the tables, `nextId` the
`AUTOINCREMENT` counter, `handlers` the HTTP requests in progress. The store has
one connection (`SetMaxOpenConns(1)`), so a statement or transaction is a step
and a request is interrupted between two of them: `Import` is audit row, error
rows or `ApplyImport`, and on failure error rows and `MarkImportFailed`, each of
which may itself fail; `DeleteCell` counts and then deletes; `CreateEntry` looks
up and then inserts. `Accepted` is `ParseCSV`: faultless lines, the first of
each cell; one error refuses the file. Tags from files are normalised
(`Canonical`), tags by hand are not. The data source name asks for foreign keys;
whether the driver heeds it is not in this repository, so a delete or insert that
would break one may go either way. `meant` is no column but remembers which
cell was tagged.

### Targeting

`target` is the call in progress: the queries done and the cells found so far.
Shapes come first, one `SelectionPreview` each (active cells of the configured
PLMN whose `zones` hold the shape: the geometry is that of `Geometry`), then geocodes, one `ResolveCells` each
(active cells of any PLMN with that tag). `Scope` is the decision at the end.
`always` and `ever` are history: which cell matched which shape or geocode
throughout the call, and at some time during it.

## 3. Runs

| Run | Bounds | Shows |
|---|---|---|
| `serial` | 3 alerts, 2 scopes, 2 codes, 2 update numbers | serial numbers unique and dense, plans durable and disjoint, retries repeatable, with exhaustion, wrap-around, rescoping, encode failures and crashes |
| `lifecycle` | alert, update, cancel; clock 0..2 | index and store agree and implement the register, no resurrection, audited and timely expiry |
| `lifecycle_offset` | an alert one hour behind UTC | **violation**: removed before it expires |
| `association` | 2 senders, 3 requests, 2 unread PDUs | slot ownership and genuine successes |
| `association_live` | 2 senders, 1 request | wake-up, answers and reconnection without the response timer; with it, every call returns |
| `association_reject` | 2 writes | **violation**: a late refusal is given to the next request |
| `delivery` | 2 peers, 2 cells; alert, update, cancel of update and of the alert beside; 2 targets for alert and update, or 1 eNB restart | active means carried everywhere; cancelled stays off and what was accepted can be stopped, but for what an attempt with another target left; no unrelated loss |
| `delivery_stale` | 2 peers; two alerts, a cancel; 1 restart | **violation**: a cancelled alert back on the air |
| `delivery_orphan` | update refused and retried | **violation**: a broadcast no plan names |
| `xmpp` | both TLS modes, valid and invalid alerts, 2 unread elements, bounded faults | secrets inside TLS, alerts in order, sessions return and alerts get through |
| `targeting` | 2 cells of one PLMN, 2 requests at a time, 1 import (of 3 files, 3 modes), 2 row ids | imports all or nothing, tags stay with their cells, targets sound and complete |
| `wire` | 799 scenarios, see below | on the air is what was meant; PDUs are understood, and refused when cut short |

Why the bounds suffice. Codes and numbers enter the code only through equality,
`MAX`, `COUNT` and the packing, so two of each already exhaust and wrap; the
proofs remove this bound. Three alerts give a chain and a bystander. Only the
holder of `sendMu` can refer to an old connection and only `readLoop` to an
abandoned job, so two identities of each are as good as many. `MaxOutstanding`
(one unanswered copy of a request) and `MaxInbox` (two PDUs) leave room for a
late answer together with a fresh one. `MaxNumber` keeps Delivery below the wrap-around of
the update number. The clock distinguishes before, at and after each
expiry. `MaxRestarts` is one: an eNB of either peer restarts, at any moment.
In `delivery` the areas of the alert resolve to a cell or, no cell matching, to the
whole PLMN, and those of its update to one cell or another, on every attempt, so
that a retry may change the message code, only the area, or neither. Such changes
together with an eNB restart are more states than a run can hold: its `CONSTRAINT`
(`RetargetedOrRestarted`) explores either one or the other; the proofs have no
such bound and cover both together.
In `targeting` two requests give every pair of interleaved operations, and the
call that is being targeted is a third party; the files overlap, disagree about
a cell's area and hold a duplicate; two row ids are enough for one to be given up
by a deleted cell and, if it were reused, taken by another. One import suffices
as imports share nothing but the tables, which cells entered by hand fill too.

The scenarios of `wire`: targets of all three scopes with identifiers at the ends
of their ranges, in decimal and in hexadecimal, too large, or no number, over
eNBs of all four kinds, one of them another PLMN's with the same cell identity,
which restart and fail twice; an area and an eNB with 18 cells, whose PDUs pass
127 octets; texts of up to 19 characters (two pages of 8 octets hold 18 septets)
that end in every pair of an ordinary letter, a letter that packs like filler,
the filler itself and an escape pair, and UCS-2 texts; 120 combinations of
status, event codes, parameters and grid; and as areas all triangles and simple
quadrangles on a 3 by 3 grid, in both directions, lines included, over a
triangle, a square with a hole, a multipolygon, a strip, a square in a corner, a
position, a refused row, another PLMN's cell and an inactive one. The page
constants are smaller than the code's (8 octets and 2 pages for 82 and 15); 8 is,
like 82, even and no multiple of 7.

`CHECK_DEADLOCK FALSE` is set for `delivery`, `wire` and `xmpp`: when every message
has been delivered and the restarts are used up, or `Run` has returned, nothing
remains to do.
Symmetry (identities of connections and jobs, of HTTP requests) is used for
invariants and action properties only.

### Fairness

* AlertLifecycle: the ticker fires (`WF ExpireRows`), `Ingest` does not stop
  between its two writes (`WF IngestRetain`), a dead process is restarted (`WF
  Recover`, `deploy/` has a systemd unit), and `ExpireIndex` gets the lock
  (`SF`: `sync.RWMutex` admits a waiting writer before later arrivals).
* MmeAssociation: goroutines run (`WF Maintain`, `WF Advance`), `sync.Mutex`
  does not starve a waiter (`SF Begin`), and a peer that is dialed for ever is
  reached some time (`SF DialSucceeds`, an assumption about the network that
  only `AssociationReturns` needs). That the timer fires is an antecedent of
  `EverySendReturns`; the other liveness properties hold without it. Nothing is assumed of the
  MME's answers.
* XmppClient: the goroutine runs and the network carries what was written (`WF`
  of the client's steps). That faults end is the bound `MaxFaults`; that the CBE
  answers in the end as the protocol asks, and offers every alert some time with
  nothing ahead of it that the client may refuse (`SF CbeOffersFirst` and its
  acceptance), are assumptions about the CBE and `Ingest`. Without the last one,
  an alert that is always refused and always offered first starves the others.

## 4. Proofs

TLAPS checks eight proof modules. Their theorems hold for every value of the
constants allowed by the named assumptions of the modules: types, and that `None`
is none of the values. Few assumptions say more, and the code justifies them: a
request is known by its procedure and identifiers (`RequestsAssumption`), there is
one CAP message per identifier in `Delivery`, there are finitely many possible
cells (`KeysAssumption`), writing a tag in its canonical form twice is writing it
once (`InventoryAssumption`), a shape is no geocode (`KindsAssumption`). What is
configured has 16 bits (`NumbersAssumption`: the fields are `uint16`,
`config.go:38-47`), and a page has an even number of octets (`PagesAssumption`). In
`Wire`, no two drafts of a scenario share their identifiers, which CbsSerial shows,
lists and tables are finite, and the cells of an eNB have its PLMN and tracking area
codes of 16 bits, as in its frames (`ScenariosAssumption`); serial numbers have 16
bits, an eNB has a PLMN of three octets, an identity that fits its kind, cell
identities of 28 bits, and at most the 256 cells a list of an indication takes
(`WireAssumption`). TLC evaluates all of them on the instances. Each inductive
invariant was checked by TLC on the run's instance before it was proved.

**CbsSerial_proof.** `IInv` says, beside types: the rows of an identifier and
scope are mapped one to one onto the codes 0..n-1 and filed under their own
identifier and scope; every serial number that is stored, being sent or on the
air lies in the field of a row that the alert, or the alert it updates, owns.
Neither `SerialsUnique` nor `NoForeignStop` is inductive alone: a fresh code is
new only because `MAX + 1` equals `COUNT`, which needs density, and a stored
plan is disjoint from another only through the rows it came from, which retries
advance but never give away. From `IInv` follow `TypeCorrect`, `DenseCodesHold`,
`SerialsUniqueHold`, `NoForeignStopHolds` and `DurableBeforeDeliveryHolds`.
`PackInjective` is the arithmetic behind the bit fields. `RetryRepeatableHolds` is
the action property: what `Prepare` allocates for an alert without updates is
found again by the next attempt, row by row.

**AlertLifecycle_proof.** Index and store disagree while a call is between its
writes, so the invariants compare the store with `Retained`, the index as it
will be once the `Ingest` that holds the lock has written it, outside `Swept`,
what the sweep in progress deleted. `StepEffect` reduces every step to six
effects on these. `Backed` (everything retained is stored) gives
`IndexIsBackedHolds`. `Indexed` (everything stored is retained, and what is
swept is still retained, so that no redelivery gets past `Ingest`'s check
before the sweep is over) and `Filed` give `StoreIsIndexedHolds` and
`NoResurrectionHolds`. `ImplementsRegisterHolds` is the refinement: the initial
states map to the register's, and each of the six effects to an `Accept`, a
`Remove`, a tick of the clock or a stutter of `AlertRegister`. Hypotheses, stated
in the theorems: `NoSelfReference` (no message references itself),
`OneMessagePerId` (see section 5), `NotBehindUtc` for `NeverRemovedEarlyHolds` and
the refinement (without it `lifecycle_offset` refutes the first, and with it the
register's `Remove`). `LossIsAuditedHolds` and `TypeCorrect` need none.

**MmeAssociation_proof.** `SlotHasOwner` and `SuccessIsGenuine` need to know who is
where: a call has connection and job as its program counter says (`CallShape`),
`sendMu` is held by exactly the caller inside (`LockInv`), the slot is that caller's
job (`SlotInv`), `maintain` serves, closes and clears its connection in an order
(`ConnInv`), and nothing is outstanding on a connection that is down
(`TrafficInv`). The heart is `OldCallInv`: a caller that took the lock on an older
connection than the one served finds nothing on the new one that it could take for
its answer, because it is alone and nobody has written there.

**Delivery_proof.** `PlansInv`, `AirInv` and `HandlerInv` say that whatever is
stored, on the air or about to be re-sent was prepared for its alert, under its
root alert, for a target that was tried, with a number given out, and that a plan of
the alert is stored (`Genuine`). `WriteInv` and `StopInv` follow a call peer by peer:
those reached carry the plan and, in its cells, nothing else of its code, or nothing
of the cancelled alert that its plan covers; `TrueInv` says that what is on the air
of an accepted alert, as far as its stored plan covers it, has the plan's number, and
`OffInv` that of a cancelled one there is nothing of the kind. What lies outside the
stored plan has no such invariant: an attempt with another target may have left it
there. `CoveredOrLeft` closes the gap: what the stored plan of its alert does not
cover was broadcast for another target, which is the exception the properties make.
They give `CancelledStaysOffHolds`, `AcceptedIsStoppableHolds`,
`ActivatedEverywhereHolds` and the action property `ActiveKeepsBroadcastHolds`.

**XmppClient_proof.** The two handshakes are unrolled once (`PlainFits`,
`DirectFits`): TLS comes when its turn is, ahead of it only what leads to it is
written or awaited, the bind comes last. `HandInv` ties encryption, the inbox and
the bind to the step: elements read after TLS were written inside it, and alerts
come only behind a bind. `OnlyInsideTLSHolds` follows. `NoAlertPassedOverHolds` needs
a witness, the places of the alerts in the inbox; the lemmas `RestAfter...` say how it
changes when an element is read or written.

**Targeting_proof.** Of `Inventory`: row ids in use are below the counter (`IdsInv`); a
tag stored, or on its way between `CreateEntry`'s two statements, has the row id of
the cell it was meant for, which no other cell has or will get (`EntriesInv`,
`TaggingInv`); an import that a request works on is pending, faultless when it is
applied, and no other request's (`ImportsInv`, `OwnImportInv`). From these
`VersionIffCompletedHolds`, `TagsNameTheirCellHolds` and the action property
`TagsSurviveImportHolds`.

Of `Targeting`: `ImplementsInventory` shows that every step of `Targeting` is one
of `Inventory` or a stutter, which makes the invariant above available.
`HistoryInv` (what matched always matches now, what matches now is in the history),
`CaughtInv` (who has matched a criterion throughout is in the target once the
criterion has been queried) and `MeantInv` (who is in it was named or has matched)
are inductive and give `TargetIsMeantAreaHolds`, for any number of requests that
commit between the queries.

**Sbcap_proof.** That a decoder reads what its encoder wrote, for numbers, octets,
open types, lists and elements of any length. Two notions carry it: `GoesOn(w, v)`, v is
w with something behind it, which every encoder does to what is written so far; and
the reader `At(buf, at, got)`, which stands at the end of w in any buffer that begins
with what the encoder made of w. A lemma `...Pass` or `...Passes` for each encoder says
that its decoder then goes from the end of w to the end of v and has got the value
(`SmallPasses`, `LargePasses`, `OctetsPass`, `OpenTypePasses`, `CellPasses`,
`AreaPasses`, `BodyPasses`, `PduPasses`). Since this holds in any buffer that goes on,
the lemmas chain without arithmetic of offsets. Lists are the one place for
induction (`ListPasses`): the library's theorems take a predicate, which the provers
cannot instantiate, but `CountingUp` states induction about a set of numbers, and a
claim is the set of the indices where it holds. `CutPduHasNoHeader`: what lacks octets
at its end runs out inside the open type that makes up all of a PDU but its first
three octets.

**Wire_proof.** `TestsStayTestsHolds`: whatever the block and the order of its parts,
a test is on the air under a test identifier and an alert in earnest never is.
The lemmas go through the sources of a class one by one; `FirstLabelIs` is why the
status wins. The hypothesis `ConfigurationKeepsTests` says what the operator's
configuration may do: `cbs.message_identifiers` and the default can map any class to
any number; `config.go` checks only that it is a usable one. `MC_Wire` meets it.

`OnAirIsTargetHolds` says what the whole exchange is for: whenever nothing is going
on, an alert is on the air in exactly the cells its target means if it is active, and
in none otherwise, whatever was refused, timed out or restarted in between. It is
proved for every inventory, target and set of eNBs, under the hypothesis
`[]Understood`, i.e. that the two ends understand each other's octets: the protocol is
proved on top of the codec. `IInv` says where everything is. `ActiveInv`, `TodoInv` and
`JobInv`: active messages are prepared drafts, what is to be sent again or being sent
is a part of one. `InboxInv`: no more than one answer is awaited or unread, restarts
are read when no job is. `MeantInv`: what a cell carries is meant for it by
`Broadcasting`, i.e. an active message or the one at hand. `ServedInv`: a cell that is
meant carries the message or is `ToBeServed`: its restart is unread, its part is in
`todo`, or the job at hand brings it. `MeantInv` and `ServedInv` are the two halves of
the property; neither is inductive without knowing that a narrowed target means
exactly the restarted part of the whole (`NarrowedMeans`, `RestartServes`), and that
rests on tracking area codes fitting the 16 bits the code compares them in
(`TacFits`). There is one lemma per action, and `EveryStep` collects them. `ThoseAre`
(what a filter of a list by a recursive function contains) uses `CountingUp`.

`UnderstoodHolds` proves that hypothesis from the lemmas of `Sbcap_proof`, in both
directions: requests (`WriteReplaceIsRead`, `StopIsRead`) and everything an MME writes.
It needs a second invariant, `SentInv`: what is active, to be sent again or being
sent is `Sendable`, i.e. its identifiers, scope and cells fit the fields they go into
(`ActiveSendable`, `TodoSendable`); the request on its way is the job's encoding
(`Asking`); and each PDU in the inbox says what the MME meant (`InboxTold`). Such PDUs are
also too long to be read once cut: `CutShortIsRefusedHolds`. `SentHolds` proves both
invariants together, since `IInv` is kept only while `Understood` holds, and
`Understood` follows from the two. `OnAirIsTargetAlways` is then `OnAirIsTargetHolds`
without its hypothesis. The three theorems have one hypothesis about `None`,
`NoneIsNoFunction`: the value that stands for a refused encoding is no list and no
record. It ranges over all functions, so that TLC could not evaluate it as an
assumption; TLC's `None` is a model value, which is neither.

Attempts at a proof changed the models in several places. `ActiveKeepsBroadcast` once
spoke of the ids an alert references and held only for the instance then checked:
the Cancel of an update that was refused carries the message code it shares with the
alert it was to update, and stops that alert's broadcast if the alert was delivered
after it. The property now says so (`CodesOf`), and the instance has such a Cancel. Several `CASE`
expressions had guards that overlap, of which TLC takes the first but TLA+ any: they
are now exclusive, or `IF`. And helpers that recursion or `SelectSeq` put out
of the prover's reach have definitions by quantifiers or recursive functions
(`HoldsRest`, `FirstLabel`, `Those`); so do the lists of the codec, which `GetList` and
`PutEach` walk, and what a decoder makes of the values it got has a name of its own
(`AsIE`, `AsIdentity`, `AsArea`). `Understood` compared only what the MME sends; the
proof of `OnAirIsTarget` showed that the other direction was checked nowhere by itself,
and it now has both.

Only model-checked:

* All liveness (`ExpiredAlertsLeave`, `NewsReachesCaller`, `AssociationReturns`,
  `EverySendReturns`, `AlertGetsThrough`): the prover does not handle fairness.
* `TextSurvives` of `Wire`: packing septets is a sum over a set, an induction over data
  that has not been done.
* `AreaIsAlerted`: that counting crossings decides whether a point is inside is
  topology; products of coordinates are beyond the SMT solver, too.

## 5. Not modelled

* Rounding: `Geometry` compares integers. Circles, which the code turns into 64
  corners with sines and cosines, enter only as the polygons they become; near a
  pole or the antimeridian these leave the range of coordinates and the alert is
  refused.
* The parsing of XML, JSON, CSV, times and numbers; how a text is joined from
  headline, description and instruction; the language table. The cgo reference
  encoder (`osmo.go`) and `Exchange` in `peer.go`, which only tests use.
* The list of known codes (`geo_codes`), listings, exports and previews for the
  operator. A preview or export reads the cells and then the version, and may
  name a version newer than what it lists.
* Operator API (handlers over the services, without state of their own), web
  console, configuration. `Validate` accepts a repetition period above 4096,
  with which no Write-Replace can be encoded.
* A CBE that goes silent without closing the connection: no read of the session
  has a deadline, so nothing ends it.
* Tags written by hand in lower case, which `CreateEntry` stores as they are and
  no alert ever finds, since `namedGeocodeCells` looks types up in upper case:
  `Inventory` can express it (`Written`), the instances leave it out.
* Two messages under one identifier. The sweep that deletes the row of the first
  prunes the index by identifier, without the lock in between, and so may drop
  the record of a second message ingested meanwhile; `StoreIsIndexed` holds for
  one message per identifier only.
* An alert delivered after its own update (refused and retried, or out of
  order): it is given the current serial number of the shared code, which is the
  update's, and replaces it on the air. If the update was refused for good, a Cancel
  of the update then stops the alert at the peers, while the tables keep it active.
  `Delivery` has both; `ActiveKeepsBroadcast` excepts them (`CodesOf`).
* A remedy for retries that aim elsewhere: the code has none. `service.go:83-84`
  calls a retry "safe and repeatable", but every attempt resolves the areas of its
  alert again (`cbs.go:114`). If one peer accepted an alert and the next refused it,
  and an import, a tag or the deletion of a cell then moves its areas to another
  scope or to other cells, the retry gets another message code (`cbs.go:127`) or
  another area, and its plan takes the place of the first (`cbs.go:146`). The first
  broadcast then stays at the peer that accepted it, under a code or in cells that no
  stored plan names: a later Cancel succeeds without stopping it, and no eNB needs
  to restart for that. `Delivery` has these behaviours and its run reaches them;
  `CancelledStaysOff` and `AcceptedIsStoppable` except exactly what such an attempt
  left (`LeftByOtherTarget`). Likewise an update whose areas resolve to another
  scope gets a code of its own, and what it updates stays on the air beside it; no
  property says otherwise.
* Tags on cells of another PLMN: `ResolveCells` returns their ECIs without the
  PLMN, and they are sent as cells of the configured one, although
  `cbs.go:38-39` speaks of "the operator's own cells". The instance of
  `Targeting` has one PLMN; polygons are filtered by PLMN (`AreaIsAlerted`).
* The refusal of areas whose encoding reaches 16,384 octets (some 2,000 cells).
* Shutdown of the associations: cancellation of the context and `Publisher.Close`.
* `sbcap.enabled: false`, where `Publish` only prepares; metrics and `lastError`.
* Failure of SQLite in the middle of a transaction other than by rolling it
  back; the code runs every multi-statement operation in one.
* The wrap-around of the update number while the alert is on the air: every
  attempt at an update takes the next number modulo 16, refused attempts too, so
  after sixteen of them the number comes back to the one being broadcast.
  `CbsSerial` wraps (`UpdateNumbers` = 2) but has no radio; `Delivery` has the
  radio and stays below the wrap (`MaxNumber`).
* A CAP update that references its own identifier: the store then records it as
  superseded and the index as active (`Upsert` marks references after writing
  the alert's own row, `Ingest` before). The instances leave it out, and the
  theorems about the index assume it away.

## 6. What TextSurvives excepts

`usedOctets` finds the length of the last page by stripping octets 0x0D from its
end, but packed septets may end in that octet. With the code's constants: a last
page with a multiple of eight septets whose last is "ù" (0x06) after a character
from 0x40 on packs to a final octet 0x0D, which is taken for filler, and the
handset loses the last two characters ("aaaaa€ù" is one such text). In UCS-2 a
trailing carriage return is lost, which nobody sees. `EndsLikeFiller` describes
these texts and `TextSurvives` holds for all others, up to one "@" that a handset
reads out of seven spare bits (the standard has senders put a carriage return
there), and escape pairs that a page break splits: the handset of the model reads
the pages as one text, so that such a pair counts as joined.

## 7. Plan

1. Done: all modules of section 2 and the proofs of section 4.
2. Left: the packing of septets, so that `TextSurvives` can be proved as the codec of
   the PDUs was; lemmas about the operators of `Geometry` that need no induction
   (orientation and segment tests do not depend on the order of their arguments).
