CONSTANTS
  Lots = {"l1", "l2", "l3"}
  Keys = {"k1", "k2"}
  Epochs = {1, 2}
  Polygons = {"p1"}
  Digests = {"zero", "a", "b", "c"}
  Batches <- MCBatches
  Policies <- MCPolicies
  Accounts = {"deployer", "stranger"}
  Owner = "deployer"
  InitialRoot = {}
  ZeroDigest = "zero"
  Requests <- MCRequests
  MaxEntries = 2
SPECIFICATION IssuedSpec
INVARIANTS IssuedAgree BackedBySnapshot Restorable LotsAnchoredOnce
