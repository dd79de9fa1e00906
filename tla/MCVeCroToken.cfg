CONSTANTS
  l1 = l1
  l2 = l2
  k1 = k1
  k2 = k2
  Lots = {l1, l2}
  Keys = {k1, k2}
  Epochs = {1, 2}
  Polygons = {"p1", "p2"}
  Digests = {"a", "b", "c", "d", "e"}
  Batches <- MCBatches
  Policies <- MCPolicies
  Accounts = {"deployer", "stranger"}
  Owner = "deployer"
  InitialRoot = {}
SPECIFICATION Spec
INVARIANTS BatchesOnce
PROPERTIES ImplementsLedger
