CONSTANTS
  MaxVertices = 5
  LatBox = 2
  LonBox = 2
  MinLotEvents = 2
  MaxLotEvents = 3
  LatEdge = 1
  LonEdge = 3
  OrientBits = 5
  CompareBits = 3
  Threshold = 3
  RangeBits = 2
  MinRows = 4
  SparseDepth = 2
  NullifierIndex <- MCNullifierIndex
  Jobs <- MCJobs
  MinEvents = 8
  MaxEvents = 64
  Shipments = {16, 32, 64, 128}
  Arrivals <- MCArrivals
  Polygons <- MCPolygons
  Span = 2
SPECIFICATION MCSpec
INVARIANTS EveryOutsideLotProved
CHECK_DEADLOCK FALSE
