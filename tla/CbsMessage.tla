----------------------------- MODULE CbsMessage -----------------------------
(***************************************************************************)
(* What package cbs makes of one info block, from its classification to    *)
(* the SBcAP request: message identifier, character coding, pages, page    *)
(* container, target.                                                      *)
(*                                                                         *)
(* A text is a sequence of characters, each with its code point and, if    *)
(* the GSM alphabet has it, its one or two septets.  A page has PageOctets *)
(* octets (82 in the code) and a message at most MaxPages (15).            *)
(***************************************************************************)
EXTENDS Sbcap, Geometry

CONSTANTS
    PageOctets,
    MaxPages,
    DefaultMessageIdentifier,  \* cbs.default_message_identifier
    Overrides,                 \* cbs.message_identifiers: a function on labels
    PLMN,                      \* sbcap.plmn, its digits
    Period, Broadcasts,        \* sbcap.repetition_period, sbcap.broadcasts
    AllowPLMNWide,             \* cbs.allow_plmn_wide
    ParseUint,                 \* strconv: the number a text of a target stands for, or None
    FormatUint(_)              \* strconv: the decimal text of a number

ASSUME PagesAssumption == PageOctets \in Nat \ {0} /\ PageOctets % 2 = 0 /\ MaxPages \in 1..15

\* Sixteen bits are configured; what is no number is None.
ASSUME NumbersAssumption ==
    /\ \A n \in {DefaultMessageIdentifier, Period, Broadcasts} : n \in Nat /\ n < 2^16
    /\ \A label \in DOMAIN Overrides : Overrides[label] \in Nat /\ Overrides[label] < 2^16
    /\ \A text \in DOMAIN ParseUint : ParseUint[text] \in Nat \cup {None}

-----------------------------------------------------------------------------
(* Classification *)

\* What is looked at of an info block; status is its alert's.
InfoBlocks == [status : STRING, eventCodes : Seq([valueName : STRING, value : STRING]),
               parameters : Seq([valueName : STRING, value : SUBSET STRING]),
               severity : STRING, urgency : STRING, certainty : STRING]

\* The labels: WEA categories, and the grid of severity, urgency and certainty,
\* whose identifiers are in that order.
Atis(label) ==
    CASE label = <<"presidential">> -> 4370
      [] label = <<"amber">> -> 4379
      [] label = <<"test">> -> 4380
      [] label = <<"exercise">> -> 4381
      [] label = <<"public-safety">> -> 4396
      [] label = <<"state-local-test">> -> 4398
      [] OTHER -> 4371 + (IF label[1] = "Severe" THEN 4 ELSE 0)
                       + (IF label[2] = "Expected" THEN 2 ELSE 0)
                       + (IF label[3] = "Likely" THEN 1 ELSE 0)

StatusLabel(status) ==
    CASE status = "Exercise" -> <<"exercise">> [] status = "Test" -> <<"test">> [] OTHER -> <<>>

EventLabel(code) ==
    CASE code = [valueName |-> "SAME", value |-> "EAN"] -> <<"presidential">>
      [] code = [valueName |-> "SAME", value |-> "CAE"] -> <<"amber">>
      [] code = [valueName |-> "SAME", value |-> "RMT"] -> <<"test">>
      [] OTHER -> <<>>

\* The value of a parameter is the set of the words it contains.
HandlingLabel(p) ==
    LET Says(word) == p.valueName = "WEAHandling" /\ word \in p.value
    IN  IF Says("presidential") THEN <<"presidential">>
        ELSE IF Says("amber") \/ Says("child abduction") THEN <<"amber">>
        ELSE IF Says("state") /\ Says("test") THEN <<"state-local-test">>
        ELSE IF Says("test") THEN <<"test">>
        ELSE IF Says("public safety") THEN <<"public-safety">> ELSE <<>>

GridLabel(info) ==
    IF /\ info.severity \in {"Extreme", "Severe"}
       /\ info.urgency \in {"Immediate", "Expected"}
       /\ info.certainty \in {"Observed", "Likely"}
    THEN <<info.severity, info.urgency, info.certainty>> ELSE <<>>

FirstLabel(labels) ==
    LET found == {i \in DOMAIN labels : labels[i] # <<>>}
    IN  IF found = {} THEN <<>> ELSE labels[Min(found)]

\* Faulty variant: the status is looked at last.
ClassifyStatusLast(info) ==
    FirstLabel([i \in 1..Len(info.eventCodes) |-> EventLabel(info.eventCodes[i])]
               \o [i \in 1..Len(info.parameters) |-> HandlingLabel(info.parameters[i])]
               \o <<GridLabel(info), StatusLabel(info.status)>>)

\* Status, event codes, WEAHandling, grid: the first that says something.
Classify(info) ==
    FirstLabel(<<StatusLabel(info.status)>>
               \o [i \in 1..Len(info.eventCodes) |-> EventLabel(info.eventCodes[i])]
               \o [i \in 1..Len(info.parameters) |-> HandlingLabel(info.parameters[i])]
               \o <<GridLabel(info)>>)

MessageIdentifierOf(info) ==
    LET label == Classify(info)
    IN  IF label = <<>> THEN DefaultMessageIdentifier
        ELSE IF label \in DOMAIN Overrides THEN Overrides[label] ELSE Atis(label)

-----------------------------------------------------------------------------
(* Encoding *)

Filler == 13

\* Septets of a page of packed text; characters of a page of UCS-2.
PerPage == (8 * PageOctets) \div 7
CharsPerPage == PageOctets \div 2

\* s cut into runs of n, the last one shorter.
Chunks(s, n) ==
    [i \in 1..(Len(s) + n - 1) \div n |-> SubSeq(s, (i - 1) * n + 1, Min({i * n, Len(s)}))]

InGsmAlphabet(text) == text # <<>> /\ \A i \in 1..Len(text) : text[i].gsm # <<>>

GsmSeptets(text) == FlattenSeq([i \in 1..Len(text) |-> text[i].gsm])

\* Septet i goes into octet 7i/8 from bit 7i%8 on, the rest into the next.
PackSeptets(in) ==
    [k \in 1..(7 * Len(in) + 7) \div 8 |->
        MapThenSumSet(LAMBDA i : LET v == in[i + 1] bit == (7 * i) % 8
                                 IN  CASE (7 * i) \div 8 = k - 1 -> (v * 2^bit) % 256
                                       [] (7 * i) \div 8 = k - 2 /\ bit > 1 -> v \div 2^(8 - bit)
                                       [] OTHER -> 0,
                      0..Len(in) - 1)]

GsmPage(septets) ==
    LET data == PackSeptets(septets) IN data \o [i \in 1..PageOctets - Len(data) |-> Filler]

Ucs2Page(chars) ==
    [i \in 1..PageOctets |->
        LET c == (i + 1) \div 2
            rune == IF c <= Len(chars) THEN chars[c].rune ELSE Filler
        IN  IF i % 2 = 1 THEN rune \div 256 ELSE rune % 256]

FinishPages(encoding, dcs, pages) ==
    IF Len(pages) \in 1..MaxPages THEN [encoding |-> encoding, dcs |-> dcs, pages |-> pages] ELSE None

\* A character that sixteen bits cannot stand for.
OutsideUcs2(text) == \E i \in 1..Len(text) : text[i].rune > 65535 \/ text[i].rune \in 55296..57343

\* Pages, data coding scheme and encoding of a text, or None.
Encode(text, dcs) ==
    LET septets == Chunks(GsmSeptets(text), PerPage)
        chars == Chunks(text, CharsPerPage)
    IN  IF Len(text) > MaxPages * PerPage THEN None
        ELSE IF InGsmAlphabet(text)
        THEN FinishPages("gsm7", dcs, [i \in 1..Len(septets) |-> GsmPage(septets[i])])
        ELSE IF OutsideUcs2(text) THEN None
        ELSE FinishPages("ucs2", 17, [i \in 1..Len(chars) |-> Ucs2Page(chars[i])])

-----------------------------------------------------------------------------
(* The target *)

PolygonAccepted(p) == Len(p) >= 3 /\ ParseGeometry(PolygonToGeoJSON(p)) # NoGeometry

\* The cells in the polygons of an info block, as decimal texts.
ShapeCells(rows, polygons) ==
    SetToSeq({FormatUint(eci) : eci \in UNION {SelectionPreview(rows, PolygonToGeoJSON(p), PLMN) :
                                               p \in ToSet(polygons)}})

\* What of s is in S, in its order.  (A SelectSeq, as proofs can use it.)
Those(s, S) ==
    LET kept[i \in 0..Len(s)] ==
            IF i = 0 THEN <<>> ELSE IF s[i] \in S THEN Append(kept[i - 1], s[i]) ELSE kept[i - 1]
    IN  kept[Len(s)]

MergeUnique(a, b) == a \o Those(b, ToSet(b) \ ToSet(a))

\* Cells named or inside a polygon, or tracking areas, or the whole PLMN; None
\* if that is refused.
TargetOf(rows, d) ==
    LET cells == MergeUnique(d.cells, ShapeCells(rows, d.polygons))
    IN  IF \E p \in ToSet(d.polygons) : ~PolygonAccepted(p) THEN None
        ELSE CASE cells # <<>> /\ d.tais # <<>> -> None
               [] cells # <<>> /\ d.tais = <<>> -> [scope |-> CellWide, ids |-> cells]
               [] cells = <<>> /\ d.tais # <<>> -> [scope |-> TrackingAreaWide, ids |-> d.tais]
               [] OTHER -> IF AllowPLMNWide THEN [scope |-> PLMNWide, ids |-> <<>>] ELSE None

-----------------------------------------------------------------------------
(* The SBcAP request *)

\* Faulty variant: one octet short.
UsedOctetsShort(page, encoding) ==
    Max({0} \cup {i - 1 : i \in {j \in 1..PageOctets : page[j] # Filler}})

\* The octets of the last page up to its filler.
UsedOctets(page, encoding) ==
    IF encoding = "ucs2"
    THEN Max({0} \cup {i \in 1..PageOctets : i % 2 = 0 /\ (page[i - 1] # 0 \/ page[i] # Filler)})
    ELSE Max({0} \cup {i \in 1..PageOctets : page[i] # Filler})

\* The page count, then each page with its used length.
Contents(e) ==
    <<Len(e.pages)>> \o FlattenSeq(
        [i \in 1..Len(e.pages) |->
            Append(e.pages[i], IF i < Len(e.pages) THEN PageOctets ELSE UsedOctets(e.pages[i], e.encoding))])

\* MCC and MNC digits, two to an octet, low nibble first; a two-digit MNC is filled up.
PlmnTBCD(d) ==
    IF Len(d) \in {5, 6}
    THEN Octets(<<d[1] + 16 * d[2], d[3] + 16 * (IF Len(d) = 6 THEN d[4] ELSE 15),
                  d[Len(d) - 1] + 16 * d[Len(d)]>>)
    ELSE None

\* The numbers an area lists; None if one of its texts is not a number.
TargetWire(target) ==
    LET values == IF target.scope = PLMNWide THEN <<>> ELSE target.ids
    IN  IF \E i \in 1..Len(values) : ParseUint[values[i]] = None THEN None
        ELSE [i \in 1..Len(values) |-> ParseUint[values[i]]]

SBcAPWriteReplace(m) ==
    IF PlmnTBCD(PLMN) = None \/ TargetWire(m.target) = None THEN None
    ELSE WriteReplaceTarget(m.messageID, m.serial, m.content.dcs, Octets(Contents(m.content)),
                            Period, Broadcasts, m.target.scope, PlmnTBCD(PLMN), TargetWire(m.target))

SBcAPStop(m) ==
    IF PlmnTBCD(PLMN) = None \/ TargetWire(m.target) = None THEN None
    ELSE StopTarget(m.messageID, m.serial, m.target.scope, PlmnTBCD(PLMN), TargetWire(m.target))

=============================================================================
