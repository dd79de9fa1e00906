----------------------------- MODULE EventStore -----------------------------
(***************************************************************************)
(* What the Fabric side promises the benchmarks, without peers, blocks and *)
(* gateway: a map that gives an event id to the first request whose        *)
(* transaction gets in, for ever, and acknowledges no other request.       *)
(***************************************************************************)
CONSTANTS Ids, Requests

VARIABLES
  holder,  \* event id -> {the request that recorded it}, {} before
  acked    \* the acknowledged requests

Init == holder = [id \in Ids |-> {}] /\ acked = {}

Record(id, request) ==
  /\ holder[id] = {}
  /\ holder' = [holder EXCEPT ![id] = {request}]
  /\ UNCHANGED acked

Acknowledge(id, request) ==
  /\ request \in holder[id] \ acked
  /\ acked' = acked \cup {request}
  /\ UNCHANGED holder

Next ==
  \E id \in Ids, request \in Requests : Record(id, request) \/ Acknowledge(id, request)

Spec == Init /\ [][Next]_<<holder, acked>>

=============================================================================
