----------------------------- MODULE MCE1Prover -----------------------------
(***************************************************************************)
(* C1 over polygons with and without padding, with a notch and with edges  *)
(* along parallels, and points in, on and around them, for lots of two and *)
(* three events (of at most four: three pad the trace).  C3 up to the      *)
(* least height and beyond it, C2 on trees of two heights with every seed, *)
(* C5 on a tree of four places in which two lots share one.                *)
(*                                                                         *)
(* A behaviour is the proof of a job, a walk of GeofenceWalk, or LotCuts   *)
(* with the real sizes, up to one shipment and a half-lot of all of them.  *)
(* The walks settle what NoFalseProof takes for granted: StrictlyOutside   *)
(* means outside.  They are around triangles and quadrilaterals on a       *)
(* lattice of three by three, good ones and bad ones (all of them up to    *)
(* the symmetry of the lattice, but for quadrilaterals in its centre), and *)
(* around polygons with a notch.                                           *)
(***************************************************************************)
EXTENDS E1Prover, LotCuts, GeofenceWalk

Grid == {PointAt(lat, lon) : lat, lon \in -2 .. 2}

C1Polygons ==
  {<<PointAt(-1, -1), PointAt(1, 0), PointAt(0, 1)>>,
   <<PointAt(-1, 0), PointAt(0, -1), PointAt(1, 0), PointAt(0, 1)>>,
   <<PointAt(-1, -1), PointAt(-1, 1), PointAt(1, 1), PointAt(1, -1)>>,
   <<PointAt(-2, -2), PointAt(2, -2), PointAt(2, 2), PointAt(0, 0), PointAt(-2, 2)>>,
   <<PointAt(-2, -1), PointAt(2, -2), PointAt(1, 2), PointAt(0, 0), PointAt(-1, 2)>>}

C1Lots ==
  {[polygon |-> vs, events |-> <<[id |-> 7, point |-> p], [id |-> 8, point |-> q]>>] :
     vs \in C1Polygons, p \in Grid, q \in {PointAt(-2, 2), PointAt(2, -2), PointAt(0, 0), PointAt(1, 2)}}
  \cup
  {[polygon |-> vs, events |-> <<[id |-> 7, point |-> p], [id |-> 8, point |-> PointAt(-2, 0)],
                                 [id |-> 9, point |-> q]>>] :
     vs \in C1Polygons, p \in {PointAt(0, -2), PointAt(2, 2)}, q \in Grid}
  \cup {[polygon |-> <<PointAt(-1, -1), PointAt(1, 0), PointAt(0, 1)>>,
         events |-> <<[id |-> 7, point |-> PointAt(2, 2)]>>]}

C1Jobs ==
  [circuit : {"C1"}, lot : C1Lots, tamper : {"none"}]
    \cup [circuit : {"C1"}, lot : {CHOOSE lot \in C1Lots : AllOutside(lot) /\ Len(lot.events) = 2},
          tamper : Tampers["C1"]]

C2Jobs ==
  {j \in [circuit : {"C2"}, depth : {1, 2}, events : 1 .. 4, seed : 1 .. 4,
            lot : {[id |-> 1, facts |-> <<"f", "f", "g", "f">>]},
            tamper : {"none"} \cup Tampers["C2"]] : j.events <= TwoTo[j.depth] \/ j.tamper = "none"}

C3Jobs ==
  [circuit : {"C3"}, events : 1 .. 5, tamper : {"none"},
            lot : [readings : {<<1, 2, 3, 0, 1>>, <<3, 3, 3, 3, 3>>, <<0, 4, 1, 1, 1>>,
                               <<1, 1, 1, 1, 4>>},
                   timestamps : {<<1, 2, 3, 4, 5>>, <<1, 5, 6, 7, 8>>, <<1, 6, 7, 8, 9>>,
                                 <<1, 2, 2, 3, 4>>, <<3, 4, 5, 6, 1>>}]]

C4Jobs ==
  [circuit : {"C4"}, lot : {[actor |-> 1, secret |-> <<"s">>, role |-> <<"r">>]},
   tamper : {"none"} \cup Tampers["C4"]]

C5Lot(i) == [id |-> i, secret |-> <<"s">>]

C5Jobs ==
  {j \in [circuit : {"C5"}, lot : {C5Lot(i) : i \in 1 .. 4},
            prior : {{}} \cup {{C5Lot(i)} : i \in 1 .. 4},
            tamper : {"none"} \cup Tampers["C5"]] : j.tamper = "none" \/ j.prior = {}}

MCJobs == C1Jobs \cup C2Jobs \cup C3Jobs \cup C4Jobs \cup C5Jobs

\* The first and the last lot share the place 1.
MCNullifierIndex == <<5, 2, 12, 13>>

-----------------------------------------------------------------------------

Lattice == {PointAt(lat, lon) : lat, lon \in -1 .. 1}

MCPolygons ==
  {<<a, b, c>> : a, b, c \in Lattice}
    \cup {<<PointAt(-1, -1), b, c, d>> : b, c, d \in Lattice}
    \cup {<<PointAt(0, -1), b, c, d>> : b, c, d \in Lattice}
    \cup {<<PointAt(-1, -1), PointAt(1, -1), PointAt(1, 1), PointAt(0, 0), PointAt(-1, 1)>>,
          <<PointAt(-1, -1), PointAt(1, 0), PointAt(-1, 1), PointAt(0, 0)>>,
          <<PointAt(0, -1), PointAt(1, 0), PointAt(0, 1), PointAt(-1, 0)>>,
          <<PointAt(-1, 0), PointAt(1, 1), PointAt(0, 0), PointAt(1, -1)>>}

NoWalk == polygon = <<>> /\ valid = FALSE /\ spot = PointAt(0, 0) /\ outside = FALSE
NoJob == job = "none" /\ phase = "idle" /\ trace = <<>> /\ pis = <<>> /\ next = 1

MCArrivals == 0 .. 140

NoPlan == plan = Planned(0, 0, <<>>)

MCInit ==
  \/ ProverInit /\ NoWalk /\ NoPlan
  \/ NoJob /\ WalkInit /\ NoPlan
  \/ NoJob /\ NoWalk /\ CutsInit

MCNext ==
  \/ ProverNext /\ UNCHANGED <<walkVars, plan>>
  \/ WalkStep /\ UNCHANGED <<proverVars, plan>>
  \/ CutsNext /\ UNCHANGED <<proverVars, walkVars>>

MCSpec == MCInit /\ [][MCNext]_<<proverVars, walkVars, plan>>

=============================================================================
