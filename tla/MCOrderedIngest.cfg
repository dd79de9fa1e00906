CONSTANTS
  Total = 5
  EpochEnds = {1, 4}
  ShipmentEnds = {0, 1, 4}
  FabricWorkers = 3
  Window = 4
  Capacity = 1
  Configs <- MCConfigs
SPECIFICATION FairSpec
INVARIANTS OnFabric AheadBound HonestStatus
PROPERTIES QuietAfterReport ImplementsStream
