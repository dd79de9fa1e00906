----------------------- MODULE MCEpochAggregateAnchor -----------------------
(***************************************************************************)
(* EpochAggregateAnchor on three lots, two epochs and two policies, with   *)
(* the proofs of an older build of each program lying around: a leaf that  *)
(* checked no signature, and an aggregate that counts one lot for two.     *)
(***************************************************************************)
EXTENDS EpochAggregateAnchor

CONSTANTS l1, l2, l3, k1

Batch(digest, lot, epoch, count, signed) ==
  [digest |-> digest, lot |-> lot, epoch |-> epoch, count |-> count,
   timely |-> TRUE, outside |-> Polygons, signed |-> signed]

MCBatches ==
  {Batch("a", l1, 1, 8, TRUE), Batch("b", l2, 1, 64, TRUE),
   Batch("c", l2, 2, 9, TRUE), Batch("d", l1, 2, 8, TRUE),
   Batch("e", l3, 2, 8, FALSE), Batch("f", l3, 1, 10, TRUE)}

MCPolicies ==
  {[cert |-> Lots \X Keys, polygon |-> "p1"],
   [cert |-> {l2} \X Keys, polygon |-> "p2"]}

MCPolicy == CHOOSE p \in Policies : p.polygon = "p1"

\* The older leaf program took the unsigned batch of lot l3.
UnsignedLeaf ==
  [epoch |-> 2, old |-> {}, new |-> {<<l3, k1>>}, digest |-> "e",
   policy |-> MCPolicy, nullifier |-> <<l3, k1>>, role |-> 4,
   threshold |-> 900, count |-> 8, valid |-> TRUE]

\* The older epoch program let a lot count twice.
MiscountedAggregate(leafVk, aggregateVk) ==
  [epoch |-> 1, old |-> {}, new |-> {<<l1, k1>>},
   commitment |-> [build |-> "old"], lots |-> 2, events |-> 16, valid |-> TRUE,
   leafVk |-> leafVk, aggregateVk |-> aggregateVk, policy |-> MCPolicy]

MCForeignProofs ==
  {[vk |-> "oldLeaf", kind |-> "leaf", values |-> UnsignedLeaf],
   [vk |-> "oldEpoch", kind |-> "aggregate",
    values |-> MiscountedAggregate("leaf", "oldEpoch")],
   [vk |-> "oldEpoch", kind |-> "aggregate",
    values |-> MiscountedAggregate("leaf", "epoch")]}

=============================================================================
