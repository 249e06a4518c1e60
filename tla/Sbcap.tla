------------------------------- MODULE Sbcap -------------------------------
(***************************************************************************)
(* The SBcAP codec: the PDU envelope, the information elements the CBC     *)
(* writes and reads, its requests, and the MME's responses and             *)
(* indications.  An encoder yields a PDU (its bits) or None, a decoder a   *)
(* record or None.                                                         *)
(***************************************************************************)
EXTENDS Aper

Initiating == 0
Successful == 1
Unsuccessful == 2

WriteReplaceProcedure == 0
StopProcedure == 1
ErrorProcedure == 2
ScheduledProcedure == 3
RestartProcedure == 5
FailureProcedure == 6

Reject == 0
Ignore == 1

-----------------------------------------------------------------------------
(* The envelope *)

IE(id, criticality, value) == [id |-> id, criticality |-> criticality, value |-> value]

PutIE(w, ie) ==
    PutOpenType(PutConstrainedWholeNumber(PutConstrainedWholeNumber(w, 0, 65535, ie.id),
                                          0, 2, ie.criticality),
                ie.value)

PutIEs(w, ies) == PutEach(PutIE, w, ies)

PutIEContainer(w, ies) == PutIEs(PutConstrainedWholeNumber(w, 0, 65535, Len(ies)), ies)

AsIE(r) == Combine(r, 3, LAMBDA v : IE(v[1], v[2], v[3]))

GetIE(r) ==
    AsIE(GetOpenType(GetConstrainedWholeNumber(GetConstrainedWholeNumber(r, 0, 65535), 0, 2)))

GetIEs(r) == GetList(GetIE, r)

GetIEContainer(r) == GetIEs(GetConstrainedWholeNumber(r, 0, 65535))

EncodeMessageBody(ies) == Align(PutIEContainer(Bits(0, 2), ies))

\* The elements, or None.
DecodeMessageBody(content) == Finish(GetIEContainer(GetZero(GetZero(Reader(content)))))

EncodePDU(choice, procedure, criticality, ies) ==
    LET envelope == PutConstrainedWholeNumber(
                        PutConstrainedWholeNumber(
                            PutConstrainedWholeNumber(Bits(0, 1), 0, 2, choice), 0, 255, procedure),
                        0, 2, criticality)
    IN  Align(PutOpenType(envelope, EncodeMessageBody(ies)))

\* Choice, procedure code, criticality and body of a PDU.
GetEnvelope(r) ==
    GetOpenType(GetConstrainedWholeNumber(
                    GetConstrainedWholeNumber(
                        GetConstrainedWholeNumber(GetZero(r), 0, 2), 0, 255),
                    0, 2))

Decoded(r, ies) ==
    IF r.ok /\ ies # None THEN [choice |-> r.got[1], procedure |-> r.got[2], ies |-> ies] ELSE None

DecodeBody(r) == Decoded(r, IF r.ok THEN DecodeMessageBody(r.got[4]) ELSE None)

DecodePDU(pdu) == DecodeBody(GetEnvelope(Reader(pdu)))

\* The value of the first element with this id, or None.
FindIE(ies, id) ==
    LET found == {i \in 1..Len(ies) : ies[i].id = id}
    IN  IF found = {} THEN None ELSE ies[Min(found)].value

\* The value of an element of a decoded PDU, or None without the PDU too.
ValueOf(decoded, id) == IF decoded = None THEN None ELSE FindIE(decoded.ies, id)

-----------------------------------------------------------------------------
(* Elements *)

Cause == 1
DataCodingScheme == 3
MessageIdentifier == 5
NumberOfBroadcasts == 7
RepetitionPeriod == 10
SerialNumber == 11
WarningAreaList == 15
WarningMessageContent == 16
ConcurrentIndicator == 20
SendIndication == 24
GlobalEnb == 28
RestartedCellList == 30
RestartedTaiList == 31
FailedCellList == 33

Encode16(v) == Bits(v, 16)

Decode16(b) == IF b # None /\ Len(b) = 16 THEN Number(b) ELSE None

Decode8(b) == IF b # None /\ Len(b) = 8 THEN Number(b) ELSE None

EncodeConstrainedInt(lb, ub, v) == Align(PutConstrainedWholeNumber(<<>>, lb, ub, v))

DecodeConstrainedInt(content, lb, ub) == Finish(GetConstrainedWholeNumber(Reader(content), lb, ub))

EncodeWarningMessageContent(data) ==
    PutOctets(Align(PutConstrainedWholeNumber(<<>>, 1, 9600, Len(data) \div 8)), data)

\* As many octets as the number just got.
GetCounted(r) == IF r.ok THEN ReadOctets(r, Last(r.got)) ELSE r

DecodeWarningMessageContent(content) ==
    Finish(GetCounted(AlignReader(GetConstrainedWholeNumber(Reader(content), 1, 9600))))

\* A cell or a tracking area.
Identity(plmn, id) == [plmn |-> plmn, id |-> id]

AsIdentity(r) == Combine(r, 2, LAMBDA v : Identity(v[1], v[2]))

EncodeEUTRANCGI(w, plmn, eci) ==
    IF Len(plmn) = 24 /\ eci < 2^28
    THEN PutBits(Align(PutOctets(Align(PutBits(w, 0, 2)), plmn)), eci, 28)
    ELSE None

DecodeEUTRANCGI(r) ==
    AsIdentity(GetBits(AlignReader(ReadOctets(AlignReader(GetZero(GetZero(r))), 3)), 28))

EncodeTAI(w, plmn, tac) ==
    IF Len(plmn) = 24 THEN PutBits(PutOctets(Align(PutBits(w, 0, 1)), plmn), tac, 16) ELSE None

DecodeTAI(r) == AsIdentity(GetBits(ReadOctets(AlignReader(GetZero(r)), 3), 16))

CellIDList == 0
TrackingAreas == 1

PutId(alternative, w, x) ==
    IF alternative = CellIDList THEN EncodeEUTRANCGI(w, x.plmn, x.id) ELSE EncodeTAI(w, x.plmn, x.id)

PutIds(alternative, w, list) == PutEach(LAMBDA v, x : PutId(alternative, v, x), w, list)

GetId(alternative, r) == IF alternative = CellIDList THEN DecodeEUTRANCGI(r) ELSE DecodeTAI(r)

GetIds(alternative, r) == GetList(LAMBDA q : GetId(alternative, q), r)

\* The list of an area: alternative, count, then each identifier.
EncodeWarningAreaList(alternative, plmn, ids) ==
    LET head == PutConstrainedWholeNumber(
                    PutConstrainedWholeNumber(Bits(0, 1), 0, 2, alternative), 1, 65535, Len(ids))
    IN  Align(PutIds(alternative, head, [i \in 1..Len(ids) |-> Identity(plmn, ids[i])]))

\* The identifiers, after alternative and count.
GetArea(r) ==
    IF r.ok /\ r.got[1] \in {CellIDList, TrackingAreas} THEN GetIds(r.got[1], r) ELSE Fail(r)

AsArea(r) == Combine(r, 2, LAMBDA v : [alternative |-> v[1], ids |-> v[2]])

DecodeWarningAreaList(content) ==
    Finish(AsArea(GetArea(GetConstrainedWholeNumber(
                              GetConstrainedWholeNumber(GetZero(Reader(content)), 0, 2), 1, 65535))))

-----------------------------------------------------------------------------
(* Requests *)

PLMNWide == 1
TrackingAreaWide == 2
CellWide == 3

ValidArea(scope, plmn, ids) ==
    scope \in 1..3 /\ (scope # PLMNWide => Len(plmn) = 24 /\ ids # <<>>)

\* No element for PLMN-wide, one for the others; its value is None for an
\* identifier out of range.
BuildWarningAreaIE(scope, plmn, ids) ==
    CASE scope = PLMNWide -> <<>>
      [] scope = TrackingAreaWide ->
           <<IE(WarningAreaList, Ignore,
                IF \E i \in 1..Len(ids) : ids[i] > 65535 THEN None
                ELSE EncodeWarningAreaList(TrackingAreas, plmn, ids))>>
      [] scope = CellWide ->
           <<IE(WarningAreaList, Ignore, EncodeWarningAreaList(CellIDList, plmn, ids))>>

Correlation(messageID, serial) ==
    <<IE(MessageIdentifier, Reject, Encode16(messageID)), IE(SerialNumber, Reject, Encode16(serial))>>

ValidContents(contents) == Len(contents) \div 8 \in 1..9600

WriteReplaceTarget(messageID, serial, dcs, contents, period, broadcasts, scope, plmn, ids) ==
    IF ~ValidContents(contents) \/ ~ValidArea(scope, plmn, ids) THEN None
    ELSE EncodePDU(Initiating, WriteReplaceProcedure, Reject,
             Correlation(messageID, serial)
             \o BuildWarningAreaIE(scope, plmn, ids)
             \o <<IE(RepetitionPeriod, Reject, EncodeConstrainedInt(0, 4096, period)),
                  IE(NumberOfBroadcasts, Reject, EncodeConstrainedInt(0, 65535, broadcasts)),
                  IE(DataCodingScheme, Ignore, Bits(dcs, 8)),
                  IE(WarningMessageContent, Ignore, EncodeWarningMessageContent(contents)),
                  IE(ConcurrentIndicator, Reject, <<>>),
                  IE(SendIndication, Ignore, <<>>)>>)

StopTarget(messageID, serial, scope, plmn, ids) ==
    IF ~ValidArea(scope, plmn, ids) THEN None
    ELSE EncodePDU(Initiating, StopProcedure, Reject,
             Correlation(messageID, serial) \o BuildWarningAreaIE(scope, plmn, ids))

-----------------------------------------------------------------------------
(* What both ends read *)

\* Outcome class and procedure code, or None.
HeaderOf(d) == IF d = None THEN None ELSE [outcome |-> d.choice + 1, procedure |-> d.procedure]

Header(pdu) == HeaderOf(DecodePDU(pdu))

\* Message identifier and serial number of a PDU of this class, or None.
CorrelationOf(d, choice) ==
    LET messageID == Decode16(ValueOf(d, MessageIdentifier))
        serial == Decode16(ValueOf(d, SerialNumber))
    IN  IF d # None /\ d.choice = choice /\ messageID # None /\ serial # None
        THEN <<messageID, serial>> ELSE None

RequestIDs(pdu) == CorrelationOf(DecodePDU(pdu), Initiating)

ResponseTo(d, procedure) ==
    IF d # None /\ d.procedure = procedure THEN CorrelationOf(d, Successful) ELSE None

ResponseIDs(pdu, procedure) == ResponseTo(DecodePDU(pdu), procedure)

SuccessResponse(procedure, messageID, serial, cause) ==
    IF procedure \notin {WriteReplaceProcedure, StopProcedure} THEN None
    ELSE EncodePDU(Successful, procedure, Reject,
             Append(Correlation(messageID, serial), IE(Cause, Reject, EncodeConstrainedInt(0, 255, cause))))

ErrorIndication(cause) ==
    EncodePDU(Initiating, ErrorProcedure, Ignore,
              <<IE(Cause, Ignore, EncodeConstrainedInt(0, 255, cause))>>)

-----------------------------------------------------------------------------
(* Indications *)

MaxRestartedCells == 256
MaxRestartTAIs == 2048
MaxFailedCells == 256

\* A bit string of more than two octets starts on an octet boundary.
DecodeFixedBitString(r, n) == GetBits(IF (n + 7) \div 8 > 2 THEN AlignReader(r) ELSE r, n)

\* Faulty variant: the bit that tells small values from large is forgotten.
GetNormallySmallBare(r) == GetBits(r, 6)

\* A bit selects six bits, or a length and that many octets.
GetNormallySmall(r) ==
    LET Large(q) == IF q.ok /\ Last(q.got) <= 4
                    THEN Combine(GetBits(q, 8 * Last(q.got)), 2, LAMBDA v : v[2]) ELSE Fail(q)
    IN  IF Has(r, 1) /\ Ahead(r, 1) = <<0>> THEN GetBits(Skip(r, 1), 6)
        ELSE Large(GetBits(GetZero(AlignReader(Skip(r, 1))), 7))

\* Kinds of ENB-ID, and the bits of each.
EnbKinds == [macro |-> 20, home |-> 28, shortMacro |-> 18, longMacro |-> 21]

\* The last of n things got is the identity.
AsENBID(r, n, kind) == Combine(r, n, LAMBDA v : [kind |-> kind, value |-> v[n]])

\* The identity, after the index of its kind.
GetENBID(r, kind) == AsENBID(DecodeFixedBitString(r, EnbKinds[kind]), 2, kind)

\* The same inside the open type of an extension.
GetExtensionENBID(r, kind) ==
    LET value == Finish(DecodeFixedBitString(Reader(Last(r.got)), EnbKinds[kind]))
    IN  IF value = None THEN Fail(r) ELSE AsENBID(Take(r, 0, value), 3, kind)

\* The kind is the number just got, or that ahead of the open type.
GetRootENBID(r) == IF r.ok THEN GetENBID(r, IF Last(r.got) = 0 THEN "macro" ELSE "home") ELSE r

GetExtension(r) ==
    LET index == r.got[Len(r.got) - 1]
    IN  IF r.ok /\ index \in {0, 1} THEN GetExtensionENBID(r, IF index = 0 THEN "shortMacro" ELSE "longMacro")
        ELSE Fail(r)

\* A bit tells the two kinds of the root from the two extensions.
DecodeENBID(r) ==
    IF Has(r, 1) /\ Ahead(r, 1) = <<0>> THEN GetRootENBID(GetConstrainedWholeNumber(Skip(r, 1), 0, 1))
    ELSE GetExtension(GetOpenType(GetNormallySmall(Skip(r, 1))))

AsGlobalENBID(r) == Combine(r, 2, LAMBDA v : [plmn |-> v[1], kind |-> v[2].kind, value |-> v[2].value])

DecodeGlobalENBID(content) ==
    Finish(AsGlobalENBID(DecodeENBID(ReadOctets(AlignReader(GetZero(GetZero(Reader(content)))), 3))))

\* A list of cells; count bounded by the declared size of this list.
DecodeECGIListBounded(content, ub) ==
    Finish(GetIds(CellIDList, GetConstrainedWholeNumber(Reader(content), 1, ub)))

DecodeTAIRestartList(content) ==
    Finish(GetIds(TrackingAreas, GetConstrainedWholeNumber(Reader(content), 1, MaxRestartTAIs)))

\* A mandatory element, decoded; None if it is missing or does not decode.
Mandatory(d, id, Decode(_)) == LET v == ValueOf(d, id) IN IF v = None THEN None ELSE Decode(v)

IsIndication(d, procedure) == d # None /\ d.choice = Initiating /\ d.procedure = procedure

RestartOf(d) ==
    LET cells == Mandatory(d, RestartedCellList, LAMBDA c : DecodeECGIListBounded(c, MaxRestartedCells))
        enb == Mandatory(d, GlobalEnb, DecodeGlobalENBID)
        tais == Mandatory(d, RestartedTaiList, DecodeTAIRestartList)
    IN  IF IsIndication(d, RestartProcedure) /\ cells # None /\ enb # None /\ tais # None
        THEN [enb |-> enb, cells |-> cells, tais |-> tais] ELSE None

DecodeRestartIndication(pdu) == RestartOf(DecodePDU(pdu))

FailureOf(d) ==
    LET cells == Mandatory(d, FailedCellList, LAMBDA c : DecodeECGIListBounded(c, MaxFailedCells))
        enb == Mandatory(d, GlobalEnb, DecodeGlobalENBID)
    IN  IF IsIndication(d, FailureProcedure) /\ cells # None /\ enb # None
        THEN [enb |-> enb, cells |-> cells] ELSE None

DecodeFailureIndication(pdu) == FailureOf(DecodePDU(pdu))

ScheduledOf(d) == IF IsIndication(d, ScheduledProcedure) THEN CorrelationOf(d, Initiating) ELSE None

DecodeWriteReplaceWarningIndication(pdu) == ScheduledOf(DecodePDU(pdu))

=============================================================================
