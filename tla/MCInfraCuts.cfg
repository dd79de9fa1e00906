CONSTANTS
  Total = 3
  EpochEnds = {0, 2}
  ShipmentEnds = {0, 2}
  FabricWorkers = 2
  Window = 2
  Capacity = 1
  Configs <- MCPaced
SPECIFICATION Spec
INVARIANT InfraCutsAreCensored
