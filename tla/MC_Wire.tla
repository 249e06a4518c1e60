------------------------------ MODULE MC_Wire ------------------------------
(***************************************************************************)
(* Wire with pages of eight octets, two to a message: a network with cells *)
(* and tracking areas at the ends of their ranges, an eNB of every kind    *)
(* and one of another PLMN with a cell identity of ours; texts of every    *)
(* length, with every pair of characters at their end; info blocks of      *)
(* every class; an area of many cells; and every triangle and every simple *)
(* quadrangle on a grid, over cells of all kinds of coverage.              *)
(***************************************************************************)
EXTENDS Wire

MCPlmn == <<3, 1, 1, 4, 3, 5>>
OtherPlmn == <<0, 0, 1, 0, 1>>

\* The texts of targets: a number in decimal or hexadecimal, or no number.
Dec(n) == <<"decimal", n>>
Hex(n) == <<"hexadecimal", n>>
Word == <<"word", 0>>

Many == 100..117
TargetTexts == {Dec(n) : n \in (0..17) \cup {65535, 65553} \cup Many} \cup {Hex(n) : n \in {17, 2^28 - 1, 2^28}}
               \cup {Word}
MCParseUint == [t \in TargetTexts |-> IF t = Word THEN None ELSE t[2]]

MCOverrides == <<"public-safety">> :> 4397

\* The PDUs of sbcap/testdata, as the reference encoder wrote them.
StopCellWide == Octets(
    <<0, 1, 0, 37, 0, 0, 3, 0, 5, 0, 2, 17, 18, 0, 11, 0, 2, 128, 0, 0, 15, 64, 18, 0, 0, 1,
      0, 19, 65, 83, 1, 56, 128, 16, 19, 65, 83, 1, 56, 128, 32>>)
PwsRestart == Octets(
    <<0, 5, 64, 40, 0, 0, 3, 0, 30, 0, 9, 0, 0, 19, 65, 83, 1, 56, 128, 16, 0, 28, 0, 8, 0,
      19, 65, 83, 0, 1, 56, 128, 0, 31, 0, 8, 0, 0, 0, 19, 65, 83, 0, 100>>)

ASSUME GoldenVectors ==
    /\ StopTarget(4370, 32768, CellWide, PlmnTBCD(MCPlmn), <<1280001, 1280002>>) = StopCellWide
    /\ DecodeRestartIndication(PwsRestart) =
         [enb |-> [plmn |-> PlmnTBCD(MCPlmn), kind |-> "macro", value |-> 5000],
          cells |-> <<[plmn |-> PlmnTBCD(MCPlmn), id |-> 1280001]>>,
          tais |-> <<[plmn |-> PlmnTBCD(MCPlmn), id |-> 100]>>]

ASSUME KeepsTests == ConfigurationKeepsTests

-----------------------------------------------------------------------------

Info(status, codes, parameters, grid) ==
    [status |-> status, eventCodes |-> codes, parameters |-> parameters,
     severity |-> grid[1], urgency |-> grid[2], certainty |-> grid[3]]

Grid == <<"Severe", "Expected", "Likely">>
Plainly == Info("Actual", <<>>, <<>>, Grid)

Char(septets, rune) == [gsm |-> septets, rune |-> rune]
Letter == Char(<<97>>, 97)          \* a
Chars == {Letter, Char(<<6>>, 249), Char(<<13>>, 13), Char(<<27, 101>>, 8364)}  \* a, u grave, CR, euro
Cyrillic == Char(<<>>, 1072)
Emoji == Char(<<>>, 128512)

Draft(info, serial, text, scope, ids) ==
    [info |-> info, serial |-> serial, text |-> text, dcs |-> 1, polygons |-> <<>>,
     cells |-> IF scope = CellWide THEN ids ELSE <<>>,
     tais |-> IF scope = TrackingAreaWide THEN ids ELSE <<>>]

Cell(plmn, eci, tac) == [plmn |-> PlmnTBCD(plmn), eci |-> eci, tac |-> tac]
Enb(plmn, kind, value, cells) == [plmn |-> PlmnTBCD(plmn), kind |-> kind, value |-> value, cells |-> cells]

Scenario(drafts, enbs, bound) == [drafts |-> drafts, inventory |-> {}, enbs |-> enbs, events |-> bound]

Network == {
    Enb(MCPlmn, "macro", 5000, <<Cell(MCPlmn, 0, 0), Cell(MCPlmn, 17, 65535)>>),
    Enb(MCPlmn, "longMacro", 2^21 - 1, <<Cell(MCPlmn, 2^28 - 1, 0)>>),
    Enb(OtherPlmn, "home", 2^28 - 1, <<Cell(OtherPlmn, 17, 65535)>>)}

ByCell == Scenario(
    {Draft(Plainly, 16, <<Letter>>, CellWide, <<Dec(0), Hex(17), Hex(2^28 - 1)>>),
     Draft(Plainly, 32, <<Letter>>, CellWide, <<Dec(17)>>),
     Draft(Plainly, 48, <<Letter>>, CellWide, <<Dec(17), Hex(2^28)>>),
     Draft(Plainly, 64, <<Letter>>, CellWide, <<Dec(17), Word>>)},
    Network, 2)

ByArea == Scenario(
    {Draft(Plainly, 65535, <<Letter>>, TrackingAreaWide, <<Dec(0), Dec(65535)>>),
     Draft(Plainly, 32, <<Letter>>, TrackingAreaWide, <<Dec(65553)>>),
     Draft(Plainly, 0, <<Letter>>, PLMNWide, <<>>)},
    Network, 2)

Small == {Enb(MCPlmn, "shortMacro", 2^18 - 1, <<Cell(MCPlmn, 17, 17)>>)}

\* n characters c, the last two from Chars.
GsmTexts == {[i \in 1..n |-> CASE i = n -> x [] i = n - 1 -> y [] OTHER -> Letter] :
                n \in 0..19, x \in Chars, y \in Chars}
Ucs2Texts == {[i \in 1..n |-> CASE i = n -> x [] i = 1 /\ i # n -> Cyrillic [] OTHER -> Letter] :
                n \in 1..9, x \in {Letter, Cyrillic, Emoji, Char(<<13>>, 13)}}

TextScenarios == {Scenario({Draft(Plainly, 16, t, PLMNWide, <<>>)}, Small, 0) : t \in GsmTexts \cup Ucs2Texts}

Same(value) == [valueName |-> "SAME", value |-> value]
Handling(words) == [valueName |-> "WEAHandling", value |-> words]

Infos == {Info(status, codes, parameters, grid) :
    status \in {"Actual", "Exercise", "Test"},
    codes \in {<<>>, <<Same("EAN")>>, <<[valueName |-> "NWS", value |-> "RMT"], Same("CAE")>>, <<Same("RMT"), Same("EAN")>>},
    parameters \in {<<>>, <<[valueName |-> "EAS-ORG", value |-> {}], Handling({"public safety"})>>,
                    <<Handling({"presidential", "test"})>>, <<Handling({"state", "test"})>>, <<Handling({"child abduction"})>>},
    grid \in {Grid, <<"Minor", "Future", "Possible">>}}

InfoScenarios == {Scenario({Draft(i, 16, <<Letter>>, PLMNWide, <<>>)}, Small, 0) : i \in Infos}

\* Requests and indications of more than 127 octets.
Large == Scenario({Draft(Plainly, 16, <<Letter>>, CellWide, [i \in 1..18 |-> Dec(i + 99)])},
                  {Enb(MCPlmn, "macro", 0, [i \in 1..18 |-> Cell(MCPlmn, i + 99, 17)])}, 1)

Short == Scenario({Draft(Plainly, 16, <<Letter>>, CellWide, <<Dec(17)>>)}, Small, 1)

-----------------------------------------------------------------------------
(* Areas *)

Polygon(rings) == [type |-> "Polygon", coordinates |-> rings]
MultiPolygon(polygons) == [type |-> "MultiPolygon", coordinates |-> polygons]
Square(from, to) == <<<<from, from>>, <<to, from>>, <<to, to>>, <<from, to>>>>

Row(plmn, eci, on, point, coverage) ==
    [plmn |-> plmn, eci |-> eci, active |-> on, point |-> point, coverage |-> coverage]

\* Coverage: a triangle, closed; a square with a hole; two polygons; a narrow
\* strip; a far corner; a position only; then a row that is refused, one of
\* another PLMN and one that is out of service.
MCInventory == {
    Row(MCPlmn, 1, TRUE, <<>>, Polygon(<<<<<<1, 0>>, <<3, 1>>, <<1, 1>>, <<1, 0>>>>>>)),
    Row(MCPlmn, 2, TRUE, <<9, 9>>, Polygon(<<Square(-2, 6), Square(-1, 5)>>)),
    Row(MCPlmn, 3, TRUE, <<>>, MultiPolygon(<<<<Square(0, 1)>>, <<<<<<4, 3>>, <<3, 4>>, <<4, 4>>>>>>>>)),
    Row(MCPlmn, 4, TRUE, <<>>, Polygon(<<<<<<-1, 1>>, <<5, 2>>, <<-1, 2>>>>>>)),
    Row(MCPlmn, 5, TRUE, <<>>, Polygon(<<Square(4, 6)>>)),
    Row(MCPlmn, 6, TRUE, <<2, 1>>, <<>>),
    Row(MCPlmn, 7, TRUE, <<>>, Polygon(<<<<<<0, 0>>, <<4, 4>>, <<0, 0>>>>>>)),
    Row(OtherPlmn, 8, TRUE, <<2, 2>>, <<>>),
    Row(MCPlmn, 9, FALSE, <<2, 2>>, <<>>)}

AreaNetwork == {Enb(MCPlmn, "home", 0, [i \in 1..9 |-> Cell(MCPlmn, i, 17)])}

\* Positions as CAP has them; a polygon begins with its least corner.
Corner == {<<lat, lon>> : lat \in {0, 2, 4}, lon \in {0, 2, 4}}
After(p) == {q \in Corner : 5 * p[1] + p[2] < 5 * q[1] + q[2]}

Simple(p) ==
    \/ {Orientation(p[1], p[3], p[2]), Orientation(p[1], p[3], p[4])} = {1, 2}
    \/ {Orientation(p[2], p[4], p[3]), Orientation(p[2], p[4], p[1])} = {1, 2}

Areas ==
    UNION {{<<a, b, c>> : b \in After(a), c \in After(a)} : a \in Corner}
    \cup {p \in UNION {{<<a, b, c, d>> : b \in After(a), c \in After(a), d \in After(a)} : a \in Corner} :
            p[4] \in After(p[2]) /\ Simple(p)}
    \cup {<<<<0, 0>>, <<0, 1>>, <<1, 0>>, <<0, 0>>>>, <<<<1, 0>>, <<91, 0>>, <<1, 2>>>>, <<<<1, 1>>, <<1, 2>>, <<1, 1>>>>}

AreaScenarios == {
    [drafts |-> {[Draft(Plainly, 16, <<Letter>>, PLMNWide, <<>>) EXCEPT !.polygons = <<area>>]},
     inventory |-> MCInventory, enbs |-> AreaNetwork, events |-> 0] : area \in Areas}

MCScenarios == {ByCell, ByArea, Large, Short} \cup TextScenarios \cup InfoScenarios \cup AreaScenarios
=============================================================================
