---------------------------- MODULE OrderedIngest ----------------------------
(***************************************************************************)
(* The pipeline of one E4/E3 run, bin/e4_real_cell.rs: worker threads post *)
(* the leaves' events to Fabric in parallel, a collector thread (produce)  *)
(* puts the acknowledged leaves back in order, and the consumer (run,      *)
(* run_baseline) proves and anchors them.  They share a stop flag, a       *)
(* window counter, an unbounded channel (results) and a bounded one        *)
(* (queue).                                                                *)
(*                                                                         *)
(* A step is what a thread does up to its next access to shared state.     *)
(* The deadline is a clock that may pass it at any moment; posting the     *)
(* events of a leaf, proving it and anchoring it are steps that succeed or *)
(* fail.                                                                   *)
(***************************************************************************)
EXTENDS LeafSchedule, FiniteSets

CONSTANTS
  FabricWorkers,  \* FABRIC_WORKERS
  Window,         \* 64 in wait_for_window
  Capacity,       \* 32 of sync_channel
  Configs,        \* the command lines considered: records of
                  \*   mode: "proposed", "vecro" or "baseline"
                  \*   deadline: whether --wall-time-s is given
                  \*   accelerated: a smoke run, whose events are not paced
  ShipmentEnds    \* the leaves with shipment_end

ASSUME IngestAssumption ==
  /\ FabricWorkers \in Nat \ {0} /\ Window \in Nat \ {0} /\ Capacity \in Nat \ {0}
  /\ Configs \subseteq [mode : {"proposed", "vecro", "baseline"},
                         deadline : BOOLEAN, accelerated : BOOLEAN]
  /\ EpochEnds \subseteq ShipmentEnds /\ ShipmentEnds \subseteq LeafIndexes

\* FABRIC_WORKERS.min(total): leaf i belongs to worker i % NumWorkers.
NumWorkers == IF FabricWorkers <= Total THEN FabricWorkers ELSE Total
WorkerIds == 0 .. NumWorkers - 1

VARIABLES
  config,     \* the command line
  stop,       \* AtomicBool
  expired,    \* Instant::now() >= deadline
  released,   \* AtomicUsize
  pc,         \* where each worker is
  at,         \* the leaf it is at
  results,    \* channel of the workers' results
  collector,  \* where the collector is
  ready,      \* acknowledged leaves waiting for their turn
  next,       \* the leaf whose turn it is
  failed,     \* the collector's failure is set
  produced,   \* what produce returned
  queue,      \* channel of messages to the consumer
  consumer,   \* where the consumer is
  message,    \* the message it works on
  handled,    \* the messages it finished, in order
  pending,    \* leaves proved but not committed
  committed,  \* leaves committed
  epochs,     \* epochs_completed
  reason,     \* reason.is_some()
  saturated,  \* the consumer's flag
  status,     \* the status reported, or "running"
  \* For the properties only:
  posted,     \* leaves whose events are all on Fabric
  faults,     \* failures that happened: "fabric", "anchoring", "order"
  cutBy       \* what ended the run first: a failure, "wall" or "none"

workerVars == <<pc, at, posted>>
collectorVars == <<collector, ready, next, released, failed, produced>>
consumerVars == <<consumer, message, handled, pending, committed, epochs,
                  reason, saturated, status>>
stopVars == <<config, stop, faults, cutBy>>
vars == <<stopVars, expired, workerVars, results, collectorVars, queue,
          consumerVars>>

NoMessage == [kind |-> "none", index |-> 0]

Init ==
  /\ config \in Configs
  /\ stop = FALSE /\ expired = FALSE /\ faults = {} /\ cutBy = "none"
  /\ pc = [w \in WorkerIds |-> "window"]
  /\ at = [w \in WorkerIds |-> w]
  /\ posted = {}
  /\ results = <<>>
  /\ collector = "receive" /\ ready = {} /\ next = 0 /\ released = 0
  /\ failed = FALSE /\ produced = "running"
  /\ queue = <<>>
  /\ consumer = "receive" /\ message = NoMessage /\ handled = <<>>
  /\ pending = 0 /\ committed = 0 /\ epochs = 0
  /\ reason = FALSE /\ saturated = FALSE /\ status = "running"

\* stop.store(true).  A run is cut by what sets the flag first, and by the wall
\* time if that has passed by then.
StopFor(cause) ==
  /\ stop' = TRUE
  /\ cutBy' = IF stop THEN cutBy ELSE IF expired THEN "wall" ELSE cause
  /\ UNCHANGED config

RaiseStop == StopFor("none") /\ UNCHANGED faults
RaiseStopAt(fault) == StopFor(fault) /\ faults' = faults \cup {fault}

\* The deadline passes.
Expire ==
  /\ config.deadline /\ ~ expired /\ status = "running"
  /\ expired' = TRUE
  /\ UNCHANGED <<stopVars, workerVars, results, collectorVars, queue,
                 consumerVars>>

-----------------------------------------------------------------------------
\* The workers.

WorkerAlone == UNCHANGED <<expired, collectorVars, queue, consumerVars>>

Goto(w, place) == pc' = [pc EXCEPT ![w] = place]

\* Mutant: the window is one leaf too wide.
WiderWindowOpen(w) == at[w] <= released + Window
\* The test of wait_for_window's loop.
WindowOpen(w) == at[w] < released + Window

TestWindow(w) ==
  /\ pc[w] = "window"
  /\ Goto(w, IF WindowOpen(w) THEN "due" ELSE "waiting")
  /\ UNCHANGED <<stopVars, at, posted, results>>
  /\ WorkerAlone

\* Mutant: a waiting worker looks at nothing but the window.
WaitForWindowOnly(w) ==
  /\ pc[w] = "waiting"
  /\ Goto(w, "window")
  /\ UNCHANGED <<stopVars, at, posted, results>>
  /\ WorkerAlone

\* Its body: give up, or sleep and test again.
Wait(w) ==
  /\ pc[w] = "waiting"
  /\ IF stop \/ expired
       THEN Goto(w, "done") /\ RaiseStop
       ELSE Goto(w, "window") /\ UNCHANGED stopVars
  /\ UNCHANGED <<at, posted, results>>
  /\ WorkerAlone

\* Before each event a paced run looks at the flag and the deadline.  If it gives
\* up, the closure returns Ok as if all events were posted; CheckPosted sees the
\* flag.  The last event of the leaf stands for all of them.
Pace(w) ==
  /\ pc[w] = "due"
  /\ IF ~ config.accelerated /\ (stop \/ expired)
       THEN Goto(w, "posted") /\ RaiseStop
       ELSE Goto(w, "posting") /\ UNCHANGED stopVars
  /\ UNCHANGED <<at, posted, results>>
  /\ WorkerAlone

\* Every event of the leaf is acknowledged and read back.
Post(w) ==
  /\ pc[w] = "posting"
  /\ Goto(w, "posted")
  /\ posted' = posted \cup {at[w]}
  /\ UNCHANGED <<stopVars, at, results>>
  /\ WorkerAlone

\* A post or a read-back fails: the flag is set before the error is sent.
PostFails(w) ==
  /\ pc[w] = "posting"
  /\ Goto(w, "failed")
  /\ RaiseStopAt("fabric")
  /\ UNCHANGED <<at, posted, results>>
  /\ WorkerAlone

\* The receiver of the results lives until the collector leaves its loop.
Collecting == collector \in {"receive", "deliver", "end"}

SendResult(w, ok) ==
  results' = IF Collecting THEN Append(results, [index |-> at[w], ok |-> ok])
                           ELSE results

SendError(w) ==
  /\ pc[w] = "failed"
  /\ SendResult(w, FALSE)
  /\ Goto(w, "done")
  /\ UNCHANGED <<stopVars, at, posted>>
  /\ WorkerAlone

\* Mutant: no check after the leaf's events.
SkipCheckPosted(w) ==
  /\ pc[w] = "posted"
  /\ Goto(w, "sending")
  /\ UNCHANGED <<stopVars, at, posted, results>>
  /\ WorkerAlone

\* The check after the leaf's events.
CheckPosted(w) ==
  /\ pc[w] = "posted"
  /\ IF stop \/ expired
       THEN Goto(w, "done") /\ RaiseStop
       ELSE Goto(w, "sending") /\ UNCHANGED stopVars
  /\ UNCHANGED <<at, posted, results>>
  /\ WorkerAlone

\* The leaf is sent, and the worker's next assignment taken up.
SendLeaf(w) ==
  /\ pc[w] = "sending"
  /\ SendResult(w, TRUE)
  /\ IF Collecting /\ at[w] + NumWorkers < Total
       THEN Goto(w, "window") /\ at' = [at EXCEPT ![w] = @ + NumWorkers]
       ELSE Goto(w, "done") /\ UNCHANGED at
  /\ UNCHANGED <<stopVars, posted>>
  /\ WorkerAlone

Worker(w) ==
  \/ TestWindow(w) \/ Wait(w) \/ Pace(w) \/ Post(w) \/ PostFails(w)
  \/ SendError(w) \/ CheckPosted(w) \/ SendLeaf(w)

-----------------------------------------------------------------------------
\* The collector.

CollectorAlone == UNCHANGED <<expired, workerVars, consumerVars>>

WorkersDone == \A w \in WorkerIds : pc[w] = "done"

\* A result is received.  The first error is kept and ends the loop.
Collect ==
  /\ collector = "receive" /\ results # <<>>
  /\ results' = Tail(results)
  /\ IF Head(results).ok
       THEN /\ ready' = ready \cup {Head(results).index}
            /\ collector' = "deliver"
            /\ UNCHANGED <<failed, stopVars>>
       ELSE /\ failed' = TRUE
            /\ collector' = "join"
            /\ RaiseStop
            /\ UNCHANGED ready
  /\ UNCHANGED <<next, released, produced, queue>>
  /\ CollectorAlone

\* Mutant: an empty channel is taken for a closed one.
CollectEndsWhenEmpty ==
  /\ collector = "receive" /\ results = <<>>
  /\ collector' = "join"
  /\ RaiseStop
  /\ UNCHANGED <<ready, next, released, failed, produced, results, queue>>
  /\ CollectorAlone

\* Every sender is gone.
CollectEnds ==
  /\ collector = "receive" /\ results = <<>> /\ WorkersDone
  /\ collector' = "join"
  /\ RaiseStop
  /\ UNCHANGED <<ready, next, released, failed, produced, results, queue>>
  /\ CollectorAlone

\* The receiver of the queue lives until the consumer leaves its loop.
QueueOpen == consumer \in {"receive", "work"}

\* A blocking send to the consumer went through.
Send(m) ==
  /\ QueueOpen /\ Len(queue) < Capacity
  /\ queue' = Append(queue, m)

\* It failed, because the receiver was dropped: both loops are left.
SendFails ==
  /\ collector \in {"deliver", "end"}
  /\ collector = "deliver" => next \in ready
  /\ ~ QueueOpen
  /\ collector' = "join"
  /\ RaiseStop
  /\ UNCHANGED <<ready, next, released, failed, produced, results, queue>>
  /\ CollectorAlone

\* next += 1; released.store(next).
Release == next' = next + 1 /\ released' = next + 1

\* epoch_ends.get(&next)
LastOfEpoch(i) == i \in EpochEnds

\* The next leaf is there: it goes to the consumer, and an EpochEnd after it if
\* it is the last of its epoch.
DeliverLeaf ==
  /\ collector = "deliver" /\ next \in ready
  /\ Send(Leaf(next))
  /\ ready' = ready \ {next}
  /\ IF LastOfEpoch(next)
       THEN collector' = "end" /\ UNCHANGED <<next, released>>
       ELSE Release /\ UNCHANGED collector
  /\ UNCHANGED <<stopVars, failed, produced, results>>
  /\ CollectorAlone

DeliverEpochEnd ==
  /\ collector = "end"
  /\ Send(EpochEnd(next))
  /\ Release
  /\ collector' = "deliver"
  /\ UNCHANGED <<stopVars, ready, failed, produced, results>>
  /\ CollectorAlone

\* No leaf is due: stop, or wait for the next result.
Delivered ==
  /\ collector = "deliver" /\ next \notin ready
  /\ collector' = IF stop THEN "join" ELSE "receive"
  /\ UNCHANGED <<stopVars, ready, next, released, failed, produced, results,
                 queue>>
  /\ CollectorAlone

\* Mutant: produce returns without joining its workers.
ReturnUnjoined ==
  /\ collector = "join"
  /\ collector' = "returned"
  /\ produced' = IF failed \/ (next < Total /\ ~ expired) THEN "error" ELSE "ok"
  /\ UNCHANGED <<stopVars, ready, next, released, failed, results, queue>>
  /\ CollectorAlone

\* The workers are joined and produce returns, which closes the queue.
Return ==
  /\ collector = "join" /\ WorkersDone
  /\ collector' = "returned"
  /\ produced' = IF failed \/ (next < Total /\ ~ expired) THEN "error" ELSE "ok"
  /\ UNCHANGED <<stopVars, ready, next, released, failed, results, queue>>
  /\ CollectorAlone

Collector ==
  \/ Collect \/ CollectEnds \/ SendFails \/ DeliverLeaf \/ DeliverEpochEnd
  \/ Delivered \/ Return

-----------------------------------------------------------------------------
\* The consumer.

ConsumerAlone == UNCHANGED <<expired, workerVars, results, collectorVars>>

\* break, then stop.store(true) and drop(receiver), with what is in the queue.
LeaveLoop == consumer' = "join" /\ queue' = <<>>

\* A message is received, and not looked at if the deadline has passed.
Receive ==
  /\ consumer = "receive" /\ queue # <<>>
  /\ IF expired
       THEN /\ saturated' = TRUE
            /\ LeaveLoop
            /\ RaiseStop
            /\ UNCHANGED message
       ELSE /\ message' = Head(queue)
            /\ queue' = Tail(queue)
            /\ consumer' = "work"
            /\ UNCHANGED <<saturated, stopVars>>
  /\ UNCHANGED <<handled, pending, committed, epochs, reason, status>>
  /\ ConsumerAlone

\* The producer has returned and the queue is empty.
ReceiveEnds ==
  /\ consumer = "receive" /\ queue = <<>> /\ collector = "returned"
  /\ LeaveLoop
  /\ RaiseStop
  /\ UNCHANGED <<message, handled, pending, committed, epochs, reason,
                 saturated, status>>
  /\ ConsumerAlone

\* A leaf is committed with its epoch's aggregate, with its own token, or with
\* its shipment.
HandleLeaf ==
  /\ message.kind = "leaf"
  /\ IF config.mode = "vecro" \/ (config.mode = "baseline" /\ message.index \in ShipmentEnds)
       THEN committed' = committed + pending + 1 /\ pending' = 0
       ELSE pending' = pending + 1 /\ UNCHANGED committed
  /\ UNCHANGED epochs

\* An aggregate needs a leaf; a baseline epoch may not end within a shipment.
EpochClosable ==
  CASE config.mode = "proposed" -> pending > 0
    [] config.mode = "vecro" -> TRUE
    [] config.mode = "baseline" -> pending = 0

HandleEpochEnd ==
  /\ message.kind = "epochEnd"
  /\ EpochClosable
  /\ committed' = committed + pending
  /\ pending' = 0
  /\ epochs' = epochs + 1

Handle ==
  /\ consumer = "work"
  /\ HandleLeaf \/ HandleEpochEnd
  /\ handled' = Append(handled, message)
  /\ message' = NoMessage
  /\ consumer' = "receive"
  /\ UNCHANGED <<reason, saturated, status, stopVars, queue>>
  /\ ConsumerAlone

\* Proving, anchoring or a check after it fails; or the epoch cannot be closed
\* after the leaves that came.
HandleFails ==
  /\ consumer = "work"
  /\ reason' = TRUE
  /\ message' = NoMessage
  /\ LeaveLoop
  /\ RaiseStopAt(IF message.kind = "epochEnd" /\ ~ EpochClosable
                   THEN "order" ELSE "anchoring")
  /\ UNCHANGED <<handled, pending, committed, epochs, saturated, status>>
  /\ ConsumerAlone

\* The receiver is gone, the producer is joined and the status reported.
Report ==
  /\ consumer = "join" /\ collector = "returned"
  /\ reason' = (reason \/ produced = "error")
  /\ saturated' = (saturated \/ expired)
  /\ status' =
       IF /\ ~ reason' /\ ~ saturated'
          /\ epochs = Cardinality(EpochEnds) /\ committed = Total
         THEN "ok"
         ELSE IF ~ reason' /\ saturated' THEN "saturated" ELSE "censored"
  /\ consumer' = "done"
  /\ UNCHANGED <<message, handled, pending, committed, epochs, stopVars, queue>>
  /\ ConsumerAlone

Consumer == Receive \/ ReceiveEnds \/ Handle \/ HandleFails \/ Report

-----------------------------------------------------------------------------

\* main returns.
Finished == status # "running" /\ UNCHANGED vars

Next ==
  \/ Expire
  \/ \E w \in WorkerIds : Worker(w)
  \/ Collector
  \/ Consumer
  \/ Finished

\* Threads are scheduled, and posting, proving and anchoring come to an end.
Fairness ==
  /\ \A w \in WorkerIds : WF_vars(Worker(w))
  /\ WF_vars(Collector)
  /\ WF_vars(Consumer)

Spec == Init /\ [][Next]_vars
FairSpec == Spec /\ Fairness

-----------------------------------------------------------------------------

\* What the consumer has handled, works on and has still to receive.
Stream ==
  handled \o (IF consumer = "work" THEN <<message>> ELSE <<>>) \o queue

TypeOK ==
  /\ stop \in BOOLEAN /\ expired \in BOOLEAN
  /\ released \in 0 .. Total /\ next \in 0 .. Total
  /\ pc \in [WorkerIds -> {"window", "waiting", "due", "posting", "posted",
                            "failed", "sending", "done"}]
  /\ at \in [WorkerIds -> LeafIndexes]
  /\ posted \subseteq LeafIndexes /\ ready \subseteq LeafIndexes
  /\ results \in Seq([index : LeafIndexes, ok : BOOLEAN])
  /\ collector \in {"receive", "deliver", "end", "join", "returned"}
  /\ failed \in BOOLEAN /\ produced \in {"running", "error", "ok"}
  /\ queue \in Seq(Messages) /\ Len(queue) <= Capacity
  /\ consumer \in {"receive", "work", "join", "done"}
  /\ message \in Messages \cup {NoMessage}
  /\ handled \in Seq(Messages)
  /\ pending \in Nat /\ committed \in Nat /\ epochs \in Nat
  /\ reason \in BOOLEAN /\ saturated \in BOOLEAN
  /\ status \in {"running", "ok", "saturated", "censored"}
  /\ faults \subseteq {"fabric", "anchoring", "order"}
  /\ cutBy \in {"none", "wall", "fabric", "anchoring", "order"}

\* What the consumer gets is on Fabric, event by event: a leaf a worker gave up
\* on in the middle is never handed on.
OnFabric ==
  \A i \in DOMAIN Stream : Stream[i].kind = "leaf" => Stream[i].index \in posted

\* The window bounds how far Fabric gets ahead, and with it what the collector
\* buffers, although neither the channel nor the map has a limit.
AheadBound ==
  /\ \A i \in posted : i < next + Window
  /\ Cardinality(ready) + Len(results) <= Window

\* The status says what happened: ok only of a run without failures that
\* committed every leaf, saturated only after the deadline, censored only after
\* a failure.  So a run nothing goes wrong with is ok, and no epoch is ever
\* found unfit to be closed.
HonestStatus ==
  /\ "order" \notin faults
  /\ status = "ok" => Complete(handled) /\ committed = Total /\ faults = {}
  /\ status = "saturated" => expired
  /\ status = "censored" => faults # {}

\* Nothing is posted to Fabric behind the back of a run that has reported.
QuietAfterReport == [][status # "running" => posted' = posted]_vars

\* The run as its consumer sees it.
Seen == INSTANCE LeafStream

\* Every run is the schedule in order, and ends: no thread waits for ever on the
\* window, a full queue, a receiver that is gone or a thread to join.
ImplementsStream == Seen!Spec

\* scripts/e4_run.py: "Other infra cuts -> 'censored'."
InfraCutsAreCensored ==
  status # "running" /\ cutBy = "fabric" => status = "censored"

=============================================================================
