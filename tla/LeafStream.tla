----------------------------- MODULE LeafStream -----------------------------
(***************************************************************************)
(* What the E4 ingest promises its consumer, without workers, windows and  *)
(* channels: the scheduled messages one at a time in their order, until    *)
(* the run ends with a status; and that the run does end.  The status is   *)
(* ok only after the whole schedule.                                       *)
(***************************************************************************)
EXTENDS LeafSchedule

VARIABLES handled, status

Init == handled = <<>> /\ status = "running"

Handle(message) ==
  /\ status = "running"
  /\ InOrder(Append(handled, message))
  /\ handled' = Append(handled, message)
  /\ UNCHANGED status

Finish(outcome) ==
  /\ status = "running"
  /\ outcome = "ok" => Complete(handled)
  /\ status' = outcome
  /\ UNCHANGED handled

Next ==
  \/ \E message \in Messages : Handle(message)
  \/ \E outcome \in {"ok", "saturated", "censored"} : Finish(outcome)

Spec == Init /\ [][Next]_<<handled, status>> /\ <>(status # "running")

=============================================================================
