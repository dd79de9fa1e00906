CONSTANTS
  MinLotEvents = 2
  MaxLotEvents = 4
  CertificateDepth = 2
  NullifierDepth = 2
  MaxFanIn = 2
  MaxLevels = 3
  LastPresetEvent = 1
  Credentials <- MCCredentials
  Polygon = "polygon"
  PolygonNonce = "nonce"
  NullifierIndex <- MCNullifierIndex
  Tasks <- MCTasks
  LeafKey = "leaf"
  AggregateKey = "epoch"
  TrustedLeafKey = "leaf"
  TrustedAggregateKey = "epoch"
  Policies <- MCPolicies
  MaxInBlock = 2
  MaxReorgs = 1
  MaxSent = 5
  Host = "host"
  Other = "other"
  Clients = {"host", "other"}
  Presets <- MCPresets
  Altered <- MCAltered
  ForeignParts <- MCForeignParts
SPECIFICATION Spec
INVARIANTS RootsAreTree HostInStep ReplyTrue PathsAuthenticate AcceptedIsTrue HonestAccepted
CHECK_DEADLOCK FALSE
