CONSTANTS
  Requests = {r1, r2}
  Ids = {1, 2}
  Events <- MCEvents
  Submissions <- MCSubmissions
  Peers = {"peer0.org1", "peer0.org2"}
  GatewayPeer = "peer0.org1"
SPECIFICATION FairSpec
INVARIANTS AckedStays
PROPERTIES PostsEnd ImplementsStore
\* Nobody must post another event.
CHECK_DEADLOCK FALSE
