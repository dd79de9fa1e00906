--------------------------- MODULE MCFabricLedger ---------------------------
(***************************************************************************)
(* FabricLedger with three requests on two event ids and two peers.  Two   *)
(* different events share an id, as an event of another run does, and one  *)
(* body has a digest of another event.                                     *)
(***************************************************************************)
EXTENDS FabricLedger

MCEvents == {[id |-> 1, data |-> "a"], [id |-> 1, data |-> "b"], [id |-> 2, data |-> "a"]}

MCSubmissions ==
  {[event |-> event, digest |-> event] : event \in MCEvents} \cup
  {[event |-> [id |-> 1, data |-> "a"], digest |-> [id |-> 2, data |-> "a"]]}

=============================================================================
