---------------------------- MODULE MCEpochAnchor ----------------------------
(***************************************************************************)
(* EpochAnchor on two lots, each of which could be keyed twice, and three  *)
(* epochs.  The batches hold the cases the guards tell apart: a lot        *)
(* submitted again in a later epoch, the longest and the shortest batch    *)
(* allowed and one too short, a batch inside the second polygon, a digest  *)
(* that is zero, a bad signature.                                          *)
(***************************************************************************)
EXTENDS EpochAnchor

CONSTANTS l1, l2, k1, k2, deployer, stranger

MCLots == {l1, l2}
MCKeys == {k1, k2}
MCPolygons == {"p1", "p2"}

Batch(digest, lot, epoch, count, outside, signed) ==
  [digest |-> digest, lot |-> lot, epoch |-> epoch, count |-> count,
   timely |-> TRUE, outside |-> outside, signed |-> signed]

MCBatches ==
  {Batch("a", l1, 1, 8, MCPolygons, TRUE),
   Batch("b", l1, 2, 64, MCPolygons, TRUE),
   Batch("c", l2, 2, 8, {"p1"}, TRUE),
   Batch("d", l2, 3, 8, MCPolygons, TRUE),
   Batch("e", l1, 3, 7, MCPolygons, TRUE),
   Batch("f", l2, 1, 8, MCPolygons, FALSE),
   Batch("zero", l2, 1, 9, MCPolygons, TRUE)}

\* Three approved-or-not pairs: all credentials under the first polygon, only
\* those of the first key under the second, and a later re-keyed registry.
MCPolicies ==
  {[cert |-> MCLots \X MCKeys, polygon |-> "p1"],
   [cert |-> MCLots \X {k1}, polygon |-> "p2"],
   [cert |-> {<<l2, k2>>}, polygon |-> "p2"]}

MCInitialRoot == {<<l1, k2>>}

=============================================================================
