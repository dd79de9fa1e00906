----------------------------- MODULE GeofenceAir -----------------------------
(***************************************************************************)
(* Circuit C1 of the E1 benchmark: the trace that c1_serial_trace_and_pis  *)
(* writes for a lot, and the constraints C1SerialAir puts on its rows.     *)
(*                                                                         *)
(* An event takes two rows for every edge of the padded polygon.  The row  *)
(* of phase 0 absorbs one word of the event and tests the edge, the row of *)
(* phase 1 absorbs the edge's first vertex.  A sponge is the sequence of   *)
(* what it has absorbed since its tag.  A product of field elements that   *)
(* must be zero is a disjunction, a decomposition into bits a range, and   *)
(* the columns that only help to express a comparison are left out.        *)
(***************************************************************************)
EXTENDS Geofence, LotAirs

CONSTANTS
  MinLotEvents, MaxLotEvents,  \* 8 and 64: the lengths C1 takes
  LatEdge, LonEdge,            \* 10 and 11: the words of an event's point
  OrientBits, CompareBits      \* the widths of the range checks on a row

ASSUME LotLengthAssumption == MinLotEvents \in Nat \ {0}

ASSUME EventWordAssumption == LatEdge # LonEdge /\ 0 \notin {LatEdge, LonEdge}

\* The widths hold what two points of the box can differ by and, since a
\* triangle takes at most half of the box, every orientation: in millionths of
\* a degree 2^29 exceeds 360, and 2^56 the product of 360 and 180.
ASSUME WidthAssumption ==
  /\ OrientBits \in Nat /\ CompareBits \in Nat
  /\ 2 * LatBox < TwoTo[CompareBits] /\ 2 * LonBox < TwoTo[CompareBits]
  /\ (2 * LatBox) * (2 * LonBox) < TwoTo[OrientBits]

\* SimplePolygon::new, which unlike the policy accepts any area.
SimplePolygon(vs) ==
  /\ Len(vs) \in 3 .. MaxVertices
  /\ \A i \in 1 .. Len(vs) : InBounds(vs[i])
  /\ NoDuplicateNeighbours(vs)
  /\ NoCrossing(vs)

C1Padded(vs) ==
  [i \in 1 .. MaxVertices |-> IF i <= Len(vs) THEN vs[i] ELSE vs[Len(vs)]]

\* c1_event_words: the event's id stands for all words but the point's.
EventWord(e, edge) ==
  CASE edge = LatEdge -> e.point.lat
    [] edge = LonEdge -> e.point.lon
    [] edge = 0 -> e.id
    [] OTHER -> 0

\* c1_crosses_right: the sign of the orientation agrees with the direction.
C1CrossesRight(p, a, b) ==
  /\ (a.lat > p.lat) # (b.lat > p.lat)
  /\ (Orientation(a, b, p) > 0) = (b.lat > p.lat)

C1Height(events) == NextPowerOfTwo(events) * MaxVertices * 2

C1Witness(lot) ==
  /\ Len(lot.events) \in MinLotEvents .. MaxLotEvents
  /\ \A i \in 1 .. Len(lot.events) : InBounds(lot.events[i].point)

\* What s_fill_aux writes of the place of a row, its point and its edge.
C1Aux(vs, p, phase, edge) ==
  [phase |-> phase, edge |-> edge, last |-> edge + 1 = MaxVertices,
   point |-> p, a |-> vs[edge + 1], b |-> After(vs, edge + 1), first |-> vs[1]]

\* A row, as the loop over the rows writes it: its auxiliary columns, the words
\* absorbed so far and the parity of the crossings.
C1Row(lot, row) ==
  LET n == Len(lot.events)
      vs == C1Padded(lot.polygon)
      pair == row \div 2
      edge == pair % MaxVertices
      phase == row % 2
      EventOf(k) == lot.events[Min({k \div MaxVertices, n - 1}) + 1]
      Word(k) == IF k < n * MaxVertices THEN EventWord(EventOf(k), k % MaxVertices)
                                        ELSE 0
      p == EventOf(pair).point
      batch == [k \in 1 .. (row + 1) \div 2 |-> Word(k - 1)]
      poly == SubSeq(vs, 1, edge)
      Crosses(k) == C1CrossesRight(p, vs[k + 1], After(vs, k + 1))
      aux == C1Aux(vs, p, phase, edge)
  IN [phase |-> aux.phase, edge |-> aux.edge, last |-> aux.last,
      point |-> aux.point, a |-> aux.a, b |-> aux.b, first |-> aux.first,
      real |-> pair < n * MaxVertices,
      remaining |-> n * MaxVertices - Min({pair, n * MaxVertices}),
      word |-> Word(pair), batch |-> batch, poly |-> poly,
      output |-> IF phase = 0 THEN Append(batch, Word(pair))
                              ELSE Append(poly, vs[edge + 1]),
      cross |-> phase = 0 /\ Crosses(edge),
      parity |-> Quantify(0 .. edge - Bit(phase = 0), Crosses) % 2]

C1Trace(lot) == [row \in 1 .. C1Height(Len(lot.events)) |-> C1Row(lot, row - 1)]

\* The public inputs: what the polygon and the events are bound to.
C1Publics(lot) ==
  [polygon |-> C1Padded(lot.polygon),
   events |-> LET last == C1Row(lot, C1Height(Len(lot.events)) - 1) IN last.batch,
   count |-> Len(lot.events)]

-----------------------------------------------------------------------------

\* Mutant: an orientation of zero is not constrained.
C1NeverTouches(r) == FALSE

\* The point is on the edge, as the constraint on a zero orientation has it.
C1Touches(r) ==
  LET closed(x, y, z) == (x > z) # (y > z) \/ x = z \/ y = z
  IN /\ Orientation(r.a, r.b, r.point) = 0
     /\ closed(r.a.lat, r.b.lat, r.point.lat)
     /\ r.b.lat = r.a.lat \/ closed(r.a.lon, r.b.lon, r.point.lon)

\* The range checks: the magnitude of the orientation, and for each comparison
\* with the point the difference, less one where the vertex is greater.
C1InRange(r) ==
  LET gap(v, p) == IF v > p THEN v - p - 1 ELSE p - v
      orient == Orientation(r.a, r.b, r.point)
  IN /\ Max({orient, -orient}) < TwoTo[OrientBits]
     /\ \A v \in {r.a, r.b} :
          /\ gap(v.lat, r.point.lat) < TwoTo[CompareBits]
          /\ gap(v.lon, r.point.lon) < TwoTo[CompareBits]

C1EveryRow(r, pis) ==
  /\ C1InRange(r)
  /\ r.last => r.edge = MaxVertices - 1
  /\ r.phase = 0 =>
       /\ r.cross = C1CrossesRight(r.point, r.a, r.b)
       /\ ~C1Touches(r)
       /\ r.edge = 0 => r.poly = <<>> /\ r.parity = 0
       /\ r.real /\ r.edge = LatEdge => r.word = r.point.lat
       /\ r.real /\ r.edge = LonEdge => r.word = r.point.lon
       /\ r.output = Append(r.batch, r.word)
  /\ r.phase = 1 =>
       /\ r.output = Append(r.poly, r.a)
       /\ r.last => r.b = r.first /\ r.output = pis.polygon /\ r.parity = 0

C1FirstRow(r, pis) ==
  /\ r.phase = 0 /\ r.edge = 0 /\ r.real /\ r.parity = 0
  /\ r.remaining = pis.count * MaxVertices
  /\ r.batch = <<>> /\ r.poly = <<>>
  /\ r.first = r.a

\* From a row of phase 0 to the row of phase 1 of the same edge.
C1ToSecondPhase(r, n) ==
  /\ <<n.edge, n.real, n.remaining>> = <<r.edge, r.real, r.remaining>>
  /\ n.batch = r.output /\ n.poly = r.poly
  /\ <<n.point, n.a>> = <<r.point, r.a>>
  /\ n.parity = (r.parity + Bit(r.cross)) % 2

\* From a row of phase 1 to the next edge, or the first edge of an event.
C1ToNextEdge(r, n) ==
  /\ n.edge = r.edge + 1 - Bit(r.last) * MaxVertices
  /\ n.real => r.real
  /\ n.remaining = r.remaining - Bit(r.real)
  /\ n.batch = r.batch
  /\ IF r.last THEN n.poly = <<>> /\ n.parity = 0
     ELSE /\ n.poly = r.output /\ n.parity = r.parity
          /\ <<n.point, n.a>> = <<r.point, r.b>>

C1Transition(r, n) ==
  /\ n.phase = 1 - r.phase
  /\ n.first = r.first
  /\ IF r.phase = 0 THEN C1ToSecondPhase(r, n) ELSE C1ToNextEdge(r, n)

C1LastRow(r, pis) ==
  /\ r.phase = 1 /\ r.last /\ r.parity = 0
  /\ r.remaining = Bit(r.real)
  /\ r.batch = pis.events

=============================================================================
