------------------------------ MODULE Geometry ------------------------------
(***************************************************************************)
(* The geometry of package inventory: what is accepted as an area, and     *)
(* when two areas, or an area and a point, meet.                           *)
(*                                                                         *)
(* A position is <<longitude, latitude>>.  Coordinates are integers, so    *)
(* that comparisons are exact; the code's rounding is not modelled.  What  *)
(* is refused is NoGeometry.                                               *)
(***************************************************************************)
EXTENDS Integers, Sequences, SequencesExt

Lon(p) == p[1]
Lat(p) == p[2]

NoGeometry == [type |-> "", polygons |-> <<>>]

-----------------------------------------------------------------------------
(* Parsing *)

Closed(positions) ==
    IF positions[1] # Last(positions) THEN Append(positions, positions[1]) ELSE positions

RingAccepted(positions) ==
    /\ Len(positions) >= 3
    /\ \A i \in DOMAIN positions : Lon(positions[i]) \in -180..180 /\ Lat(positions[i]) \in -90..90
    /\ Len(Closed(positions)) >= 4

\* The rings of a polygon, closed; none if one of them is refused.
BuildRings(coords) ==
    IF \A i \in DOMAIN coords : RingAccepted(coords[i])
    THEN [i \in DOMAIN coords |-> Closed(coords[i])] ELSE <<>>

\* A Polygon or a MultiPolygon: [type, coordinates].
ParseGeometry(raw) ==
    LET given == CASE raw.type = "Polygon" -> <<raw.coordinates>>
                   [] raw.type = "MultiPolygon" -> raw.coordinates
                   [] OTHER -> <<>>
        built == [i \in DOMAIN given |-> BuildRings(given[i])]
    IN  IF built = <<>> \/ \E i \in DOMAIN built : built[i] = <<>> THEN NoGeometry
        ELSE [type |-> raw.type, polygons |-> built]

MarshalCanonical(g) ==
    [type |-> g.type,
     coordinates |-> IF g.type = "Polygon" THEN g.polygons[1] ELSE g.polygons]

\* The positions of all rings.
Positions(g) ==
    UNION {UNION {ToSet(poly[i]) : i \in DOMAIN poly} : poly \in ToSet(g.polygons)}

Bounds(g) ==
    LET lons == {Lon(p) : p \in Positions(g)}
        lats == {Lat(p) : p \in Positions(g)}
    IN  [minLon |-> Min(lons), maxLon |-> Max(lons), minLat |-> Min(lats), maxLat |-> Max(lats)]

-----------------------------------------------------------------------------
(* Containment *)

Edges(ring) == {<<i, ring[i], ring[i + 1]>> : i \in 1..Len(ring) - 1}

\* The edges a ray from p to the east crosses; one end of an edge counts, the
\* other does not.
RayCrossings(ring, p) ==
    {e \in Edges(ring) :
        LET a == e[2]
            b == e[3]
            rise == Lat(b) - Lat(a)
            ahead == (Lat(p) - Lat(a)) * (Lon(b) - Lon(a)) - (Lon(p) - Lon(a)) * rise
        IN  /\ (Lat(a) > Lat(p)) # (Lat(b) > Lat(p))
            /\ IF rise > 0 THEN ahead > 0 ELSE ahead < 0}

\* The even-odd rule over all rings, so that holes count.
PointInPolygonRings(rings, p) ==
    FoldLeft(LAMBDA n, ring : n + Cardinality(RayCrossings(ring, p)), 0, rings) % 2 = 1

ContainsPoint(g, p) == \E i \in DOMAIN g.polygons : PointInPolygonRings(g.polygons[i], p)

-----------------------------------------------------------------------------
(* Intersection *)

BoundsOverlap(a, b) ==
    /\ a.minLon <= b.maxLon /\ a.maxLon >= b.minLon
    /\ a.minLat <= b.maxLat /\ a.maxLat >= b.minLat

\* 0: collinear, 1: c is to the left of ab, 2: to the right.
Orientation(a, b, c) ==
    LET val == (Lon(b) - Lon(a)) * (Lat(c) - Lat(a)) - (Lat(b) - Lat(a)) * (Lon(c) - Lon(a))
    IN  CASE val > 0 -> 1 [] val < 0 -> 2 [] OTHER -> 0

OnSegment(a, b, c) ==
    /\ Lon(b) \in Min({Lon(a), Lon(c)})..Max({Lon(a), Lon(c)})
    /\ Lat(b) \in Min({Lat(a), Lat(c)})..Max({Lat(a), Lat(c)})

SegmentsIntersect(p1, q1, p2, q2) ==
    LET o1 == Orientation(p1, q1, p2)
        o2 == Orientation(p1, q1, q2)
        o3 == Orientation(p2, q2, p1)
        o4 == Orientation(p2, q2, q1)
    IN  \/ o1 # o2 /\ o3 # o4
        \/ o1 = 0 /\ OnSegment(p1, p2, q1)
        \/ o2 = 0 /\ OnSegment(p1, q2, q1)
        \/ o3 = 0 /\ OnSegment(p2, p1, q2)
        \/ o4 = 0 /\ OnSegment(p2, q1, q2)

\* Faulty variant: only the vertices are looked at.
PolygonsIntersectByVertex(polyA, polyB) ==
    \/ \E p \in ToSet(polyA[1]) : PointInPolygonRings(polyB, p)
    \/ \E p \in ToSet(polyB[1]) : PointInPolygonRings(polyA, p)

\* A vertex of one in the other, or two edges that meet.
PolygonsIntersect(polyA, polyB) ==
    \/ \E p \in ToSet(polyA[1]) : PointInPolygonRings(polyB, p)
    \/ \E p \in ToSet(polyB[1]) : PointInPolygonRings(polyA, p)
    \/ \E ringA \in ToSet(polyA), ringB \in ToSet(polyB) :
         \E e \in Edges(ringA), f \in Edges(ringB) : SegmentsIntersect(e[2], e[3], f[2], f[3])

Intersects(a, b) ==
    /\ BoundsOverlap(Bounds(a), Bounds(b))
    /\ \E i \in DOMAIN a.polygons, j \in DOMAIN b.polygons :
         PolygonsIntersect(a.polygons[i], b.polygons[j])

-----------------------------------------------------------------------------
(* Selection of cells: [plmn, eci, active, point, coverage], point <<>> and *)
(* coverage <<>> if there is none.                                          *)

\* A row is stored with its coverage in normal form and its bounding box; one
\* whose coverage is refused is not stored.
CoverageAccepted(row) == row.coverage # <<>> => ParseGeometry(row.coverage) # NoGeometry

Stored(row) ==
    IF row.coverage = <<>> THEN [cell |-> row, box |-> <<>>]
    ELSE LET g == ParseGeometry(row.coverage)
         IN  [cell |-> [row EXCEPT !.coverage = MarshalCanonical(g)], box |-> Bounds(g)]

PointBox(p) == [minLon |-> Lon(p), maxLon |-> Lon(p), minLat |-> Lat(p), maxLat |-> Lat(p)]

FindBoundingBoxCandidates(rows, bounds, plmn) ==
    {r \in rows :
        /\ r.cell.active /\ r.cell.plmn = plmn
        /\ \/ r.box # <<>> /\ BoundsOverlap(r.box, bounds)
           \/ r.box = <<>> /\ r.cell.point # <<>> /\ BoundsOverlap(PointBox(r.cell.point), bounds)}

\* The matcher: by coverage if there is one, else by position.
Evaluate(area, cell) ==
    IF cell.coverage # <<>> THEN Intersects(area, ParseGeometry(cell.coverage))
    ELSE cell.point # <<>> /\ ContainsPoint(area, cell.point)

\* The cells of a PLMN selected for an area.
SelectionPreview(rows, raw, plmn) ==
    LET area == ParseGeometry(raw)
    IN  {r.cell.eci : r \in {c \in FindBoundingBoxCandidates(rows, Bounds(area), plmn) : Evaluate(area, c.cell)}}

-----------------------------------------------------------------------------
(* CAP *)

\* CAP's latitude,longitude pairs, at least three, as a GeoJSON Polygon.
PolygonToGeoJSON(polygon) ==
    [type |-> "Polygon",
     coordinates |-> <<Closed([i \in DOMAIN polygon |-> <<polygon[i][2], polygon[i][1]>>])>>]

=============================================================================
