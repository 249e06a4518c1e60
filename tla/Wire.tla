-------------------------------- MODULE Wire --------------------------------
(***************************************************************************)
(* The CBC and an MME talking octets: the requests Publish, a Cancel and   *)
(* handleRestart encode, what an MME and its eNBs make of them, and how    *)
(* readLoop and handleIndication take apart what comes back.               *)
(*                                                                         *)
(* One message of the CBC at a time, one request at a time, and eNBs       *)
(* restart between them: the races are those of MmeAssociation and         *)
(* Delivery.  Here the question is whether what is meant at one end is     *)
(* what is understood at the other.  The MME, its eNBs and the handsets    *)
(* are external; the MME decodes with the functions package sbcap has for  *)
(* simulators.                                                             *)
(***************************************************************************)
EXTENDS CbsMessage

CONSTANTS
    Scenarios  \* [drafts, inventory, enbs, events]: the info blocks to be broadcast, the
               \* rows of the inventory, the eNBs of the MME, and a bound on what happens
               \* to them

\* Message identifier and serial number of a draft.
Ids(d) == <<MessageIdentifierOf(d.info), d.serial>>

MaxTAC == 65535

TACs == 0..MaxTAC

\* Every draft has identifiers of its own (see CbsSerial), its lists and the
\* inventory are finite, and the cells of an eNB have its PLMN.
ASSUME ScenariosAssumption ==
    /\ None \notin Nat
    /\ \A s \in Scenarios :
         /\ IsFiniteSet(s.inventory)
         /\ \A d \in s.drafts :
              /\ d.info \in InfoBlocks
              /\ \A list \in {d.cells, d.tais, d.polygons} : list \in Seq(ToSet(list))
              /\ \A other \in s.drafts : Ids(other) = Ids(d) => other = d
         /\ \A e \in s.enbs : e.cells \in Seq([plmn : {e.plmn}, eci : Nat, tac : TACs])

\* Serials and data coding schemes are numbers, and so are or are not the
\* texts of an area; an eNB has a PLMN of three octets, an identity of its
\* kind, and as many cells as a list of an indication takes.
ASSUME WireAssumption ==
    \A s \in Scenarios :
        /\ \A row \in s.inventory : "eci" \in DOMAIN row /\ FormatUint(row.eci) \in DOMAIN ParseUint
        /\ \A d \in s.drafts :
             /\ d.serial \in Nat /\ d.serial < 2^16 /\ d.dcs \in Nat
             /\ d.text \in Seq(ToSet(d.text)) /\ \A c \in ToSet(d.text) : c.gsm \in Seq(ToSet(c.gsm))
             /\ ToSet(d.cells) \cup ToSet(d.tais) \subseteq DOMAIN ParseUint
        /\ \A e \in s.enbs :
             /\ e.plmn \in Seq(ToSet(e.plmn)) /\ Len(e.plmn) = 24
             /\ e.kind \in DOMAIN EnbKinds /\ e.value \in Nat /\ e.value < 2^EnbKinds[e.kind]
             /\ Len(e.cells) >= 1 /\ Len(e.cells) <= MaxRestartedCells
             /\ \A c \in ToSet(e.cells) : c.eci < 2^28

VARIABLES
    scenario,
    active,   \* the stored plans of active alerts: prepared messages
    job,      \* the request whose answer is awaited: [procedure, message, origin], or NoJob
    todo,     \* what handleRestart has yet to send again
    request,  \* the PDU on its way to the MME, or None
    inbox,    \* the PDUs on their way to the CBC, each with what the MME meant by it
    air,      \* per cell, what is broadcast
    events,   \* restarts and failures of eNBs so far
    unserved  \* a re-broadcast was refused

vars == <<scenario, active, job, todo, request, inbox, air, events, unserved>>

-----------------------------------------------------------------------------
(* The radio network: external *)

\* A cell has a PLMN, an E-UTRAN cell identity and a tracking area code.
Cells == UNION {ToSet(e.cells) : e \in scenario.enbs}

NoJob == [procedure |-> None, message |-> None, origin |-> "none"]

Init ==
    /\ scenario \in Scenarios
    /\ active = {} /\ job = NoJob /\ todo = {}
    /\ request = None /\ inbox = <<>>
    /\ air = [c \in Cells |-> {}]
    /\ events = 0 /\ unserved = FALSE

\* The cells a decoded area means; no area means all of them.
CellsOf(area) ==
    IF area = None THEN Cells
    ELSE {c \in Cells : \E i \in 1..Len(area.ids) :
            area.ids[i] = [plmn |-> c.plmn,
                           id |-> IF area.alternative = CellIDList THEN c.eci ELSE c.tac]}

\* The text in a page container: of every page as many octets as it says are used.
PagesOf(data) ==
    LET octet == [i \in 1..Len(data) \div 8 |-> Number(SubSeq(data, 8 * i - 7, 8 * i))]
        Start(p) == 1 + (p - 1) * (PageOctets + 1)
    IN  [p \in 1..octet[1] |-> SubSeq(octet, Start(p) + 1, Start(p) + octet[Start(p + 1)])]

\* As many septets as fit into the octets, the first in the low bits.
Unpack(octets) ==
    [i \in 1..(8 * Len(octets)) \div 7 |->
        LET bit == (7 * (i - 1)) % 8
            k == (7 * (i - 1)) \div 8 + 1
            high == IF bit > 1 THEN octets[k + 1] * 2^(8 - bit) ELSE 0
        IN  (octets[k] \div 2^bit + high) % 128]

\* Septets or code points, as the data coding scheme tells the handset.
TextOf(dcs, data) ==
    FlattenSeq([p \in 1..Len(PagesOf(data)) |->
        LET page == PagesOf(data)[p]
        IN  IF dcs = 17 THEN [i \in 1..Len(page) \div 2 |-> 256 * page[2 * i - 1] + page[2 * i]]
            ELSE Unpack(page)])

\* What a decoded request asks for, or None.
RequestOf(d, ids) ==
    LET area == ValueOf(d, WarningAreaList)
        content == ValueOf(d, WarningMessageContent)
    IN  IF d = None \/ ids = None THEN None
        ELSE [procedure |-> d.procedure, ids |-> ids,
              cells |-> CellsOf(IF area = None THEN None ELSE DecodeWarningAreaList(area)),
              text |-> IF content = None THEN None
                       ELSE TextOf(Decode8(ValueOf(d, DataCodingScheme)), DecodeWarningMessageContent(content))]

Understand(pdu) == RequestOf(DecodePDU(pdu), RequestIDs(pdu))

Answer(pdu, kind, procedure, what) ==
    [pdu |-> pdu, kind |-> kind, procedure |-> procedure, what |-> what]

Accepted(r) ==
    Answer(SuccessResponse(r.procedure, r.ids[1], r.ids[2], 0), "accepted", r.procedure, r.ids)

Scheduled(r) ==
    Answer(EncodePDU(Initiating, ScheduledProcedure, Ignore, Correlation(r.ids[1], r.ids[2])),
           "scheduled", ScheduledProcedure, r.ids)

Rejected(r) ==
    Answer(EncodePDU(Unsuccessful, r.procedure, Reject, Correlation(r.ids[1], r.ids[2])),
           "rejected", r.procedure, None)

\* The MME carries out a request and says so, before or after it reports that
\* a broadcast is scheduled.
CarryOut(r) ==
    LET without == [c \in Cells |-> {b \in air[c] : b.ids # r.ids}]
    IN  /\ air' = [c \in Cells |->
                     IF c \notin r.cells THEN air[c]
                     ELSE IF r.procedure = StopProcedure THEN without[c]
                     ELSE without[c] \cup {[ids |-> r.ids, text |-> r.text]}]
        /\ inbox' \in IF r.procedure = StopProcedure THEN {Append(inbox, Accepted(r))}
                      ELSE {inbox \o <<Accepted(r), Scheduled(r)>>, inbox \o <<Scheduled(r), Accepted(r)>>}

MmeAccepts ==
    /\ request # None
    /\ CarryOut(Understand(request))
    /\ request' = None
    /\ UNCHANGED <<scenario, active, job, todo, events, unserved>>

\* It refuses, with an unsuccessful outcome or with an error indication.
MmeRefuses ==
    /\ request # None
    /\ \/ inbox' = Append(inbox, Rejected(Understand(request)))
       \/ inbox' = Append(inbox, Answer(ErrorIndication(12), "unhandled", ErrorProcedure, None))
    /\ request' = None
    /\ UNCHANGED <<scenario, active, job, todo, air, events, unserved>>

ExtensionIndex(kind) == IF kind = "shortMacro" THEN 0 ELSE 1

\* Global-ENB-ID as TS 29.168 has it.
EncodeGlobalENBID(e) ==
    LET head == PutOctets(Align(Bits(0, 2)), e.plmn)
        n == EnbKinds[e.kind]
    IN  CASE e.kind = "macro" -> Align(PutBits(Align(head \o <<0, 0>>), e.value, n))
          [] e.kind = "home" -> Align(PutBits(Align(head \o <<0, 1>>), e.value, n))
          [] OTHER -> Align(PutOpenType(PutBits(head \o <<1, 0>>, ExtensionIndex(e.kind), 6),
                                        Align(Bits(e.value, n))))

EncodeList(alternative, ub, list) ==
    Align(PutIds(alternative, PutConstrainedWholeNumber(<<>>, 1, ub, Len(list)), list))

EnbOf(e) == [plmn |-> e.plmn, kind |-> e.kind, value |-> e.value]

CellList(e) == [i \in 1..Len(e.cells) |-> Identity(e.cells[i].plmn, e.cells[i].eci)]

TaiList(e) == SetToSeq({Identity(c.plmn, c.tac) : c \in ToSet(e.cells)})

RestartIndication(e) ==
    Answer(EncodePDU(Initiating, RestartProcedure, Ignore,
               <<IE(RestartedCellList, Reject, EncodeList(CellIDList, MaxRestartedCells, CellList(e))),
                 IE(GlobalEnb, Reject, EncodeGlobalENBID(e)),
                 IE(RestartedTaiList, Reject, EncodeList(TrackingAreas, MaxRestartTAIs, TaiList(e)))>>),
           "restart", RestartProcedure,
           [enb |-> EnbOf(e), cells |-> CellList(e), tais |-> TaiList(e)])

FailureIndication(e) ==
    Answer(EncodePDU(Initiating, FailureProcedure, Ignore,
               <<IE(FailedCellList, Reject, EncodeList(CellIDList, MaxFailedCells, CellList(e))),
                 IE(GlobalEnb, Reject, EncodeGlobalENBID(e))>>),
           "failure", FailureProcedure, [enb |-> EnbOf(e), cells |-> CellList(e)])

Idle == job = NoJob /\ todo = {} /\ inbox = <<>>

\* An eNB restarts, and its cells broadcast nothing.
EnbRestarts(e) ==
    /\ Idle /\ events < scenario.events
    /\ air' = [c \in Cells |-> IF c \in ToSet(e.cells) THEN {} ELSE air[c]]
    /\ inbox' = Append(inbox, RestartIndication(e))
    /\ events' = events + 1
    /\ UNCHANGED <<scenario, active, job, todo, request, unserved>>

EnbFails(e) ==
    /\ Len(inbox) < 2 /\ events < scenario.events
    /\ inbox' = Append(inbox, FailureIndication(e))
    /\ events' = events + 1
    /\ UNCHANGED <<scenario, active, job, todo, request, air, unserved>>

-----------------------------------------------------------------------------
(* Publish *)

\* The rows that are stored.
Inventory == {Stored(row) : row \in {r \in scenario.inventory : CoverageAccepted(r)}}

\* A message of a plan; draft is what it was made from.
Prepared(d) ==
    [messageID |-> MessageIdentifierOf(d.info), serial |-> d.serial,
     content |-> Encode(d.text, d.dcs), target |-> TargetOf(Inventory, d), draft |-> d]

Send(procedure, m, origin, pdu) ==
    /\ pdu # None
    /\ job' = [procedure |-> procedure, message |-> m, origin |-> origin]
    /\ request' = pdu

\* One without a target or that cannot be encoded is refused.
Submit(m) ==
    /\ m.target # None /\ m.content # None
    /\ Send(WriteReplaceProcedure, m, "publish", SBcAPWriteReplace(m))

\* An alert is broadcast.
Publish(d) ==
    /\ Idle
    /\ ~\E m \in active : m.draft = d
    /\ Submit(Prepared(d))
    /\ UNCHANGED <<scenario, active, todo, inbox, air, events, unserved>>

\* A Cancel of it.
Cancel(m) ==
    /\ Idle
    /\ m \in active
    /\ Send(StopProcedure, m, "cancel", SBcAPStop(m))
    /\ UNCHANGED <<scenario, active, todo, inbox, air, events, unserved>>

\* handleRestart sends the next message again.
Rebroadcast(m) ==
    /\ job = NoJob
    /\ m \in todo
    /\ Send(WriteReplaceProcedure, m, "restart", SBcAPWriteReplace(m))
    /\ todo' = todo \ {m}
    /\ UNCHANGED <<scenario, active, inbox, air, events, unserved>>

\* sendAndAwait returns: a broadcast alert becomes active, a cancelled one is no more.
Succeeds ==
    /\ active' = CASE job.origin = "publish" -> active \cup {job.message}
                   [] job.origin = "cancel" -> active \ {job.message}
                   [] OTHER -> active
    /\ job' = NoJob
    /\ UNCHANGED unserved

Fails ==
    /\ unserved' = (unserved \/ job.origin = "restart")
    /\ job' = NoJob
    /\ UNCHANGED active

-----------------------------------------------------------------------------
(* Restarts *)

\* Faulty variant: tracking areas are looked for among the restarted cells.
NarrowTargetByCell(t, ecis, tacs) ==
    LET overlap == {x \in ToSet(t.ids) : ParseUint[x] # None /\ ParseUint[x] \in ecis}
    IN  [scope |-> t.scope, ids |-> IF t.scope = PLMNWide THEN <<>> ELSE Those(t.ids, overlap)]

Uint16(v) == v % 65536

\* The part of an area that restarted, perhaps no identifier at all.
NarrowTargetToRestart(t, ecis, tacs) ==
    LET Restarted(v) == IF t.scope = CellWide THEN v \in ecis ELSE Uint16(v) \in tacs
        overlap == {x \in ToSet(t.ids) : ParseUint[x] # None /\ Restarted(ParseUint[x])}
    IN  [scope |-> t.scope, ids |-> IF t.scope = PLMNWide THEN <<>> ELSE Those(t.ids, overlap)]

\* The active messages, narrowed to what restarted; none for another PLMN's eNB.
HandleRestart(ri) ==
    LET ecis == {ri.cells[i].id : i \in 1..Len(ri.cells)}
        tacs == {ri.tais[i].id : i \in 1..Len(ri.tais)}
        narrowed == {[m EXCEPT !.target = NarrowTargetToRestart(@, ecis, tacs)] : m \in active}
    IN  IF ri.enb.plmn # PlmnTBCD(PLMN) THEN {} ELSE {m \in narrowed : m.target.ids # <<>>}

-----------------------------------------------------------------------------
(* readLoop *)

Read(kind, procedure, what) == [kind |-> kind, procedure |-> procedure, what |-> what]

\* What readLoop and handleIndication take a PDU with header h for.
DispatchOn(h, pdu) ==
    LET Indication(kind, decoded) == IF decoded = None THEN Read("dropped", h.procedure, None)
                                     ELSE Read(kind, h.procedure, decoded)
    IN  IF h = None THEN Read("dropped", None, None)
        ELSE IF h.outcome = Successful + 1 THEN Read("accepted", h.procedure, ResponseIDs(pdu, h.procedure))
        ELSE IF h.outcome = Unsuccessful + 1 THEN Read("rejected", h.procedure, None)
        ELSE CASE h.procedure = ScheduledProcedure ->
                    Indication("scheduled", DecodeWriteReplaceWarningIndication(pdu))
               [] h.procedure = RestartProcedure -> Indication("restart", DecodeRestartIndication(pdu))
               [] h.procedure = FailureProcedure -> Indication("failure", DecodeFailureIndication(pdu))
               [] OTHER -> Read("unhandled", h.procedure, None)

Dispatch(pdu) == DispatchOn(Header(pdu), pdu)

IsAnswer(d) ==
    /\ job # NoJob /\ d.kind \in {"accepted", "rejected"} /\ d.procedure = job.procedure
    /\ d.kind = "accepted" => d.what = <<job.message.messageID, job.message.serial>>

TakeIn(d) ==
    /\ IF IsAnswer(d) THEN (IF d.kind = "accepted" THEN Succeeds ELSE Fails)
       ELSE UNCHANGED <<job, active, unserved>>
    /\ todo' = IF d.kind = "restart" THEN todo \cup HandleRestart(d.what) ELSE todo

\* The next PDU is read: the answer awaited, a restart, or something to be logged.
ReadLoop ==
    /\ inbox # <<>>
    /\ TakeIn(Dispatch(inbox[1].pdu))
    /\ inbox' = Tail(inbox)
    /\ UNCHANGED <<scenario, request, air, events>>

\* sendAndAwait gives up.  (Here: on an MME that answered something else.)
Timeout ==
    /\ job # NoJob /\ request = None /\ inbox = <<>>
    /\ Fails
    /\ UNCHANGED <<scenario, todo, request, inbox, air, events>>

Next ==
    \/ \E d \in scenario.drafts : Publish(d)
    \/ \E m \in active : Cancel(m)
    \/ \E m \in todo : Rebroadcast(m)
    \/ ReadLoop \/ Timeout
    \/ MmeAccepts \/ MmeRefuses
    \/ \E e \in scenario.enbs : EnbRestarts(e) \/ EnbFails(e)

Spec == Init /\ [][Next]_vars

-----------------------------------------------------------------------------
(* Properties *)

\* The cells a target means.
Meant(target) ==
    LET Names(n) == \E x \in ToSet(target.ids) : ParseUint[x] = n
        own == {c \in Cells : c.plmn = PlmnTBCD(PLMN)}
    IN  IF target.scope = PLMNWide THEN Cells
        ELSE {c \in own : Names(IF target.scope = CellWide THEN c.eci ELSE c.tac)}

\* What readLoop takes a PDU for is what the MME meant by it, whichever
\* procedure and kind of eNB: each goes to its own decoder, and the decoder
\* finds the identifiers, the cells and the tracking areas that were put in.
\* And what the MME makes of a request is what the CBC asks for: this
\* procedure, this message, the cells its target means.
Understood ==
    /\ \A i \in 1..Len(inbox) :
         Dispatch(inbox[i].pdu) = Read(inbox[i].kind, inbox[i].procedure, inbox[i].what)
    /\ request # None =>
         LET r == Understand(request)
         IN  /\ r # None
             /\ r.procedure = job.procedure
             /\ r.ids = <<job.message.messageID, job.message.serial>>
             /\ r.cells = Meant(job.message.target)

\* A PDU that arrives cut short is refused as a whole: no proper prefix of
\* anything either side sends has a header.
CutShortIsRefused ==
    \A pdu \in {inbox[i].pdu : i \in 1..Len(inbox)} \cup ({request} \ {None}) :
        \A n \in 0..(Len(pdu) \div 8) - 1 : Header(SubSeq(pdu, 1, 8 * n)) = None

\* When nothing is going on, an alert is on the air in exactly the cells its
\* target means if it is active and in none if it is not, whatever restarted
\* in between: areas, identifiers and the narrowed areas of re-broadcasts
\* survive their encoding, and a Stop undoes everything a Write-Replace did.
\* (A PLMN-wide alert is not sent again after a restart.)
OnAirIsTarget ==
    Idle /\ ~unserved =>
        \A d \in scenario.drafts :
            LET carrying == {c \in Cells : \E b \in air[c] : b.ids = Ids(d)}
                targets == {m.target : m \in {n \in active : n.draft = d}}
                meant == UNION {Meant(t) : t \in targets}
            IN  IF events > 0 /\ \E t \in targets : t.scope = PLMNWide
                THEN carrying \subseteq meant ELSE carrying = meant

\* The corners of a CAP polygon, which may be closed or not.
Corners(polygon) ==
    LET open == IF Last(polygon) = polygon[1] THEN Front(polygon) ELSE polygon
    IN  [i \in DOMAIN open |-> <<open[i][2], open[i][1]>>]

\* A triangle or a simple quadrangle as triangles: a quadrangle is cut along
\* a diagonal that has the other two corners on different sides.
Triangles(p) ==
    LET Apart(i, j, k, l) == {Orientation(p[i], p[k], p[j]), Orientation(p[i], p[k], p[l])} = {1, 2}
    IN  CASE Len(p) = 3 -> {p}
          [] Len(p) = 4 /\ Apart(1, 2, 3, 4) -> {<<p[1], p[2], p[3]>>, <<p[1], p[3], p[4]>>}
          [] OTHER -> {<<p[2], p[3], p[4]>>, <<p[2], p[4], p[1]>>}

Sides(q) == {s \in {<<q[i], q[(i % Len(q)) + 1]>> : i \in DOMAIN q} : s[1] # s[2]}

\* Two convex figures have no point in common: a side s of one has it on one
\* hand and the other figure on the other.
Disjoint(p, q) ==
    \E f \in {<<p, q>>, <<q, p>>} : \E s \in Sides(f[1]), hand \in {1, 2} :
        /\ \A x \in ToSet(f[1]) : Orientation(s[1], s[2], x) # hand
        /\ \A x \in ToSet(f[2]) : Orientation(s[1], s[2], x) = hand

\* x is inside the convex figure q, not on its border.
StrictlyInside(x, q) ==
    \E hand \in {1, 2} : \A s \in Sides(q) : Orientation(s[1], s[2], x) = hand

\* A triangle meets a polygon with convex rings: its exterior, and it is not
\* within a hole.
Meets(triangle, rings) ==
    /\ ~Disjoint(triangle, rings[1])
    /\ \A i \in 2..Len(rings) : \E x \in ToSet(triangle) : ~StrictlyInside(x, rings[i])

\* A cell is certainly in an area, and certainly not.  A cell known by its
\* position alone may go either way when it is on the border.
InArea(row, triangles) ==
    IF row.coverage = <<>> THEN \E t \in triangles : StrictlyInside(row.point, t)
    ELSE \E polygon \in ToSet(ParseGeometry(row.coverage).polygons), t \in triangles : Meets(t, polygon)

OutOfArea(row, triangles) ==
    IF row.coverage = <<>> THEN \A t \in triangles : Disjoint(<<row.point>>, t)
    ELSE ~InArea(row, triangles)

\* The polygons of an alert reach the cells they should: every active cell of
\* the PLMN whose coverage has a point in common with the area broadcasts
\* the alert and no other does (unless there is no cell at all, and the alert
\* goes PLMN-wide).  The reference is the separation of convex figures by one
\* of their sides; the code counts crossings and compares edges, after two
\* filters by bounding box.  Rings with two distinct vertices such as <<A, B, B>>,
\* which geometry.go and its documentation say are rejected and its code accepts,
\* are among the areas: they reach the cells the line from A to B meets.
AreaIsAlerted ==
    Idle /\ events = 0 => \A m \in active :
        LET triangles == UNION {Triangles(Corners(p)) : p \in ToSet(m.draft.polygons)}
            rows == {r \in scenario.inventory : r.active /\ r.plmn = PLMN /\ CoverageAccepted(r)}
            carrying == {c.eci : c \in {d \in Cells : \E b \in air[d] : b.ids = Ids(m.draft)}}
        IN  /\ \A r \in rows : InArea(r, triangles) => r.eci \in carrying
            /\ m.draft.polygons # <<>> /\ m.target.scope # PLMNWide =>
                 \A r \in scenario.inventory :
                     r.eci \in carrying => r \in rows /\ ~OutOfArea(r, triangles)
            /\ m.target.scope = PLMNWide => \A r \in rows : ~InArea(r, triangles)

\* The text as a handset should show it: the characters' septets, or their
\* code points.
Plain(text) == IF InGsmAlphabet(text) THEN GsmSeptets(text) ELSE [i \in 1..Len(text) |-> text[i].rune]

\* Seven bits are left over in the last octet: they read as one more septet, "@".
Leftover(text) ==
    IF InGsmAlphabet(text) /\ (Len(GsmSeptets(text)) % PerPage) % 8 = 7 THEN <<0>> ELSE <<>>

\* The last octets of a text are those of the filler (see UsedOctets).
EndsLikeFiller(text) ==
    LET septets == GsmSeptets(text)
        last == IF Len(septets) % PerPage = 0 THEN PerPage ELSE Len(septets) % PerPage
    IN  IF InGsmAlphabet(text)
        THEN Last(PackSeptets(SubSeq(septets, Len(septets) - last + 1, Len(septets)))) = Filler
        ELSE Last(text).rune = Filler

\* What a handset shows is the text of the alert: neither paging, packing nor
\* the used-length octet loses, adds or changes a character.  Three exceptions:
\* a text that ends like the filler, the extra "@" of seven spare bits, and an
\* escape pair split by a page break, which is read here as if joined.
TextSurvives ==
    \A c \in Cells : \A b \in air[c] : \A d \in scenario.drafts :
        b.ids = Ids(d) /\ ~EndsLikeFiller(d.text) => b.text = Plain(d.text) \o Leftover(d.text)

\* Words that make an actual alert a test.
SaysTest(info) ==
    \/ \E i \in 1..Len(info.eventCodes) : info.eventCodes[i] = [valueName |-> "SAME", value |-> "RMT"]
    \/ \E i \in 1..Len(info.parameters) : "test" \in info.parameters[i].value

\* The identifiers an operator configures leave tests to be tests: what he maps
\* the two test classes to are test identifiers, and but for state and local
\* tests nothing else is.
ConfigurationKeepsTests ==
    /\ DefaultMessageIdentifier \notin {4380, 4381, 4398}
    /\ \A label \in DOMAIN Overrides :
         /\ label \in {<<"test">>, <<"exercise">>} => Overrides[label] \in {4380, 4381}
         /\ label \notin {<<"test">>, <<"exercise">>, <<"state-local-test">>} =>
              Overrides[label] \notin {4380, 4381, 4398}

\* Tests and exercises are broadcast on the identifiers handsets keep apart,
\* and an alert in earnest that nowhere says test never is.
TestsStayTests ==
    \A c \in Cells : \A b \in air[c] : \A d \in scenario.drafts :
        b.ids = Ids(d) =>
            /\ d.info.status \in {"Test", "Exercise"} => b.ids[1] \in {4380, 4381}
            /\ d.info.status = "Actual" /\ ~SaysTest(d.info) => b.ids[1] \notin {4380, 4381, 4398}

=============================================================================
