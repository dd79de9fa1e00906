---------------------------- MODULE MCVeCroToken ----------------------------
(***************************************************************************)
(* VeCroTokenAdaptedAnchor on two lots with two keys each: two batches of  *)
(* one lot in one epoch, the same lot in the next epoch, and a second root *)
(* pair for one key only.                                                  *)
(***************************************************************************)
EXTENDS VeCroTokenAdaptedAnchor

CONSTANTS l1, l2, k1, k2

Batch(digest, lot, epoch, count) ==
  [digest |-> digest, lot |-> lot, epoch |-> epoch, count |-> count,
   timely |-> TRUE, outside |-> Polygons, signed |-> TRUE]

MCBatches ==
  {Batch("a", l1, 1, 8), Batch("b", l1, 1, 64), Batch("c", l1, 2, 9),
   Batch("d", l2, 1, 8), Batch("e", l2, 2, 65)}

MCPolicies ==
  {[cert |-> Lots \X Keys, polygon |-> "p1"],
   [cert |-> Lots \X {k1}, polygon |-> "p2"]}

=============================================================================
