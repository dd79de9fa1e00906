---------------------------- MODULE GeofenceWalk ----------------------------
(***************************************************************************)
(* The geofence asked for the points of a walk in steps to neighbouring    *)
(* lattice points.  Where the walk crosses the polygon the answer must     *)
(* change and nowhere else, and far away it is "outside": this says what   *)
(* inside means without counting crossings of a ray.                       *)
(***************************************************************************)
EXTENDS Geofence

CONSTANTS
  Polygons,  \* the polygons offered
  Span       \* the walk stays in -Span .. Span, beyond all vertices

ASSUME WalkAssumption ==
  /\ Polygons \subseteq Seq(Point) /\ Span \in Nat
  /\ \A vs \in Polygons : \A i \in 1 .. Len(vs) : vs[i].lat > -Span

VARIABLES
  polygon,  \* the polygon offered
  valid,    \* the answer of validate_polygon
  spot,     \* where the walk is
  outside   \* the answer of is_strictly_outside there

walkVars == <<polygon, valid, spot, outside>>

WalkInit ==
  /\ polygon \in Polygons
  /\ valid = ValidPolygon(polygon)
  /\ spot = PointAt(-Span, -Span)
  /\ outside = StrictlyOutside(polygon, spot)

WalkStep ==
  /\ valid
  /\ \E dlat, dlon \in -1 .. 1 :
       /\ spot.lat + dlat \in -Span .. Span /\ spot.lon + dlon \in -Span .. Span
       /\ spot' = PointAt(spot.lat + dlat, spot.lon + dlon)
  /\ outside' = StrictlyOutside(polygon, spot')
  /\ UNCHANGED <<polygon, valid>>

WalkSpec == WalkInit /\ [][WalkStep]_walkVars

-----------------------------------------------------------------------------

\* The edges that the segment from p to q meets.
Meets(p, q) ==
  {i \in 1 .. Len(polygon) :
     SegmentsIntersect(p, q, polygon[i], After(polygon, i))}

\* Edges that only touch, or lie along, the segment are not crossed: a vertex
\* is on it.
ThroughVertex(p, q) ==
  \E i \in 1 .. Len(polygon) : PointOnSegment(p, q, polygon[i])

StepFollows ==
  LET clear == ~OnBoundary(polygon, spot) /\ ~OnBoundary(polygon, spot')
  IN /\ OnBoundary(polygon, spot') => ~outside'
     /\ spot = PointAt(-Span, -Span) => outside
     /\ (clear /\ ~ThroughVertex(spot, spot'))
          => ((outside # outside')
                <=> (Cardinality(Meets(spot, spot')) % 2 = 1))

\* Between two points that are not on the boundary, the answer of
\* is_strictly_outside changes exactly when the way between them crosses an
\* odd number of edges; on the boundary the answer is never "outside", and
\* it is "outside" at the far corner, whatever the polygon.
FollowsBoundary == [][StepFollows]_walkVars

\* What validate_polygon says does not depend on the vertex a polygon starts
\* with, nor on its direction, and neither does is_strictly_outside.
OrderFree ==
  LET n == Len(polygon)
      turned == [i \in 1 .. n |-> After(polygon, i)]
      reversed == [i \in 1 .. n |-> polygon[n + 1 - i]]
  IN \A vs \in {turned, reversed} :
       /\ ValidPolygon(vs) = valid
       /\ valid => StrictlyOutside(vs, spot) = outside

=============================================================================
