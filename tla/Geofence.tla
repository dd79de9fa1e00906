------------------------------ MODULE Geofence ------------------------------
(***************************************************************************)
(* The geofence of the policy (C1): which polygons are accepted as         *)
(* forbidden areas, and when a point lies strictly outside of one.  Points *)
(* are lattice points in integer arithmetic, as in the code; the bounds of *)
(* WGS-84 are a box of lattice points.                                     *)
(***************************************************************************)
EXTENDS Integers, Sequences, FiniteSetsExt

CONSTANTS
  MaxVertices,  \* MAX_POLYGON_VERTICES
  LatBox,       \* latitudes are in -LatBox .. LatBox: 90 degrees
  LonBox        \* longitudes are in -LonBox .. LonBox: 180 degrees

ASSUME GeofenceAssumption == MaxVertices \in Nat /\ LatBox \in Nat /\ LonBox \in Nat

Point == [lat : Int, lon : Int]
PointAt(lat, lon) == [lat |-> lat, lon |-> lon]
InBounds(p) == p.lat \in -LatBox .. LatBox /\ p.lon \in -LonBox .. LonBox

\* The vertex after the i-th, cyclically, and the edge that starts there.
After(vs, i) == vs[(i % Len(vs)) + 1]

-----------------------------------------------------------------------------

Orientation(a, b, p) ==
  (b.lon - a.lon) * (p.lat - a.lat) - (b.lat - a.lat) * (p.lon - a.lon)

PointOnSegment(a, b, p) ==
  /\ Orientation(a, b, p) = 0
  /\ p.lon >= Min({a.lon, b.lon}) /\ p.lon <= Max({a.lon, b.lon})
  /\ p.lat >= Min({a.lat, b.lat}) /\ p.lat <= Max({a.lat, b.lat})

\* Mutant: the end of the second segment is not tested.
SegmentsIntersectOpen(a, b, c, d) ==
  \/ PointOnSegment(a, b, c) \/ PointOnSegment(c, d, a) \/ PointOnSegment(c, d, b)
  \/ /\ (Orientation(a, b, c) > 0) # (Orientation(a, b, d) > 0)
     /\ (Orientation(c, d, a) > 0) # (Orientation(c, d, b) > 0)

SegmentsIntersect(a, b, c, d) ==
  LET abc == Orientation(a, b, c)
      abd == Orientation(a, b, d)
      cda == Orientation(c, d, a)
      cdb == Orientation(c, d, b)
  IN \/ abc = 0 /\ PointOnSegment(a, b, c)
     \/ abd = 0 /\ PointOnSegment(a, b, d)
     \/ cda = 0 /\ PointOnSegment(c, d, a)
     \/ cdb = 0 /\ PointOnSegment(c, d, b)
     \/ (abc > 0) # (abd > 0) /\ (cda > 0) # (cdb > 0)

Adjacent(first, second, len) ==
  first + 1 = second \/ (first = 1 /\ second = len)

DoubleArea(vs) ==
  LET area[i \in 0 .. Len(vs)] ==
        IF i = 0 THEN 0
        ELSE area[i - 1] + (vs[i].lon * After(vs, i).lat - After(vs, i).lon * vs[i].lat)
  IN area[Len(vs)]

NoDuplicateNeighbours(vs) == \A i \in 1 .. Len(vs) : vs[i] # After(vs, i)

NoCrossing(vs) ==
  \A i, j \in 1 .. Len(vs) :
    i < j /\ ~Adjacent(i, j, Len(vs))
      => ~SegmentsIntersect(vs[i], After(vs, i), vs[j], After(vs, j))

ValidPolygon(vs) ==
  /\ Len(vs) \in 3 .. MaxVertices
  /\ \A i \in 1 .. Len(vs) : InBounds(vs[i])
  /\ DoubleArea(vs) # 0
  /\ NoDuplicateNeighbours(vs)
  /\ NoCrossing(vs)

-----------------------------------------------------------------------------

OnBoundary(vs, p) ==
  \E i \in 1 .. Len(vs) : PointOnSegment(vs[i], After(vs, i), p)

\* Mutant: a vertex at the height of the point counts for both its edges.
CrossesRightClosed(a, b, p) ==
  /\ (a.lat >= p.lat) # (b.lat > p.lat)
  /\ IF b.lat > a.lat THEN Orientation(a, b, p) > 0
                      ELSE Orientation(a, b, p) < 0

\* Whether the edge from a to b crosses the ray from p to the right.
CrossesRight(a, b, p) ==
  /\ (a.lat > p.lat) # (b.lat > p.lat)
  /\ IF b.lat > a.lat THEN Orientation(a, b, p) > 0
                      ELSE Orientation(a, b, p) < 0

StrictlyOutside(vs, p) ==
  /\ ~OnBoundary(vs, p)
  /\ Quantify(1 .. Len(vs), LAMBDA i : CrossesRight(vs[i], After(vs, i), p))
       % 2 = 0

=============================================================================
