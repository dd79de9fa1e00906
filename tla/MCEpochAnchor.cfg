CONSTANTS
  l1 = l1
  l2 = l2
  k1 = k1
  k2 = k2
  deployer = deployer
  stranger = stranger
  Lots = {l1, l2}
  Keys = {k1, k2}
  Epochs = {1, 2, 3}
  Polygons = {"p1", "p2"}
  Digests = {"zero", "a", "b", "c", "d", "e", "f"}
  Batches <- MCBatches
  Policies <- MCPolicies
  Accounts = {deployer, stranger}
  Owner = deployer
  InitialRoot <- MCInitialRoot
  ZeroDigest = "zero"
SPECIFICATION Spec
INVARIANTS EpochsOnce
PROPERTIES ImplementsLedger
