---------------------------- MODULE MCIssuedLots ----------------------------
(***************************************************************************)
(* IssuedLots on three lots, a catalog of two and two keys.  The requests  *)
(* ask for a lot under either key, for both keys at once, for two lots in  *)
(* one slot, at a bad point, and for more lots than the catalog holds.     *)
(***************************************************************************)
EXTENDS IssuedLots

Slot(index, lot, key) == [index |-> index, lot |-> lot, key |-> key, valid |-> TRUE]

Request(credentials) == [credentials |-> credentials, polygon |-> "p1"]

MCRequests ==
  {Request(<<Slot(0, "l1", "k1")>>),
   Request(<<Slot(0, "l1", "k2")>>),
   Request(<<Slot(0, "l2", "k1"), Slot(1, "l3", "k1")>>),
   Request(<<Slot(0, "l2", "k1"), Slot(1, "l2", "k2")>>),
   Request(<<Slot(5, "l1", "k1"), Slot(5, "l2", "k1")>>),
   Request(<<[Slot(0, "l3", "k2") EXCEPT !.valid = FALSE]>>)}

MCPolicies == {SnapshotOf(r) : r \in MCRequests}

Batch(digest, lot, epoch) ==
  [digest |-> digest, lot |-> lot, epoch |-> epoch, count |-> 8,
   timely |-> TRUE, outside |-> Polygons, signed |-> TRUE]

MCBatches == {Batch("a", "l1", 1), Batch("b", "l1", 2), Batch("c", "l2", 2)}

=============================================================================
