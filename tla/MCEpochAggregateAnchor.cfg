CONSTANTS
  l1 = l1
  l2 = l2
  l3 = l3
  k1 = k1
  Lots = {l1, l2, l3}
  Keys = {k1}
  Epochs = {1, 2}
  Polygons = {"p1", "p2"}
  Digests = {"a", "b", "c", "d", "e", "f"}
  Batches <- MCBatches
  Policies <- MCPolicies
  Accounts = {"deployer", "stranger"}
  Owner = "deployer"
  InitialRoot = {}
  MaxFanIn = 3
  U64Max = 128
  LeafVk = "leaf"
  AggregateVk = "epoch"
  ForeignProofs <- MCForeignProofs
  MaxAggregates = 2
SPECIFICATION Spec
INVARIANTS TypeOK CountsExact LeavesGenuine
PROPERTIES AnchoredOnlyWhileAllowed ImplementsLedger
