----------------------------- MODULE E2Pipeline -----------------------------
(***************************************************************************)
(* bin/e2_real_benchmark.rs and its queue.rs: one seed of the E2 run.  A   *)
(* producer thread posts the events of each lot to Fabric, reads them back *)
(* and offers the lot to a bounded queue until a deadline; the main thread *)
(* proves and anchors what it receives, and writes a row for every planned *)
(* lot and a terminal record.                                              *)
(*                                                                         *)
(* A step ends at the next access to shared state (stop flag, queue,       *)
(* counters, Fabric, chain) that the other thread could tell apart.        *)
(* Pacing only delays a producer that checks the flag anyway.              *)
(***************************************************************************)
EXTENDS Integers, Sequences, FiniteSets, FiniteSetsExt

CONSTANTS
  NumLots,       \* lots of the schedule
  EventsPerLot,  \* events of a lot
  Capacity       \* --queue-capacity, at least 1

ASSUME E2Assumption ==
  /\ NumLots \in Nat
  /\ EventsPerLot \in Nat \ {0}
  /\ Capacity \in Nat \ {0}

Lots == 1 .. NumLots
Events == 1 .. EventsPerLot
Schedule == [lot \in Lots |-> lot]

VARIABLES
  stop,        \* AtomicBool
  queue,       \* the sync_channel
  stats,       \* Mutex<SeedCounters>, what the properties need of it
  producer,    \* where the producer thread is
  outcome,     \* its ProducerOutcome
  consumer,    \* where the main thread is
  nullifiers,  \* its SparseNullifierMap, as the lots inserted
  failure,     \* its first failure, if any
  rows,        \* the lot records written
  terminal,    \* the status of the seed_terminal record
  ledger,      \* events on Fabric
  chain        \* the lots the contract has anchored, in order

mainVars == <<consumer, nullifiers, failure, rows, terminal, chain>>
producerVars == <<producer, outcome, ledger>>
vars == <<stop, queue, stats, producer, outcome, consumer, nullifiers, failure,
          rows, terminal, ledger, chain>>

NoStage == "none"

Init ==
  /\ stop = FALSE
  /\ queue = <<>>
  /\ stats = [offered |-> 0, offeredEvents |-> 0, committed |-> 0,
              readback |-> 0, queued |-> 0, received |-> 0, proved |-> 0,
              anchored |-> 0, saturated |-> 0, depth |-> 0]
  /\ producer = [pc |-> "lot", lot |-> 1, event |-> 1]
  /\ outcome = [failures |-> [lot \in Lots |-> NoStage], committed |-> {},
                failed |-> FALSE]
  /\ consumer = [pc |-> "receive", lot |-> 0, stage |-> NoStage]
  /\ nullifiers = {}
  /\ failure = FALSE
  /\ rows = <<>>
  /\ terminal = "none"
  /\ ledger = {}
  /\ chain = <<>>

-----------------------------------------------------------------------------
(* The producer, spawn_fabric_producer.  At "lot" it takes the next lot, at  *)
(* "event" it is about to post the next event, at "post" the post is under   *)
(* way, then "readback", the loop of send_before_deadline with "send" before *)
(* and "full" after a try_send that found no room, and "count".              *)

At(pc) == producer.pc = pc
Goto(pc) == producer' = [producer EXCEPT !.pc = pc]
Finish == Goto("done")
NextLot == producer' = [pc |-> "lot", lot |-> producer.lot + 1, event |-> 1]
Count(counter) == stats' = [stats EXCEPT ![counter] = @ + 1]

\* outcome.failures.insert(lot, stage), for a failure or for a lot just dropped.
Fails(stage) ==
  outcome' = [outcome EXCEPT !.failures[producer.lot] = stage, !.failed = TRUE]
Drops(stage) == outcome' = [outcome EXCEPT !.failures[producer.lot] = stage]

\* 'lots: the next lot is offered unless the run stops or no lot is left.
OfferLot ==
  /\ At("lot")
  /\ IF stop \/ producer.lot > NumLots
     THEN Finish /\ UNCHANGED stats
     ELSE Goto("event") /\ Count("offered")
  /\ UNCHANGED <<stop, queue, outcome, ledger, mainVars>>

\* Pacing ends or is ended by the flag, which is checked before each event.
OfferEvent ==
  /\ At("event")
  /\ IF stop
     THEN Finish /\ UNCHANGED stats
     ELSE Goto("post") /\ Count("offeredEvents")
  /\ UNCHANGED <<stop, queue, outcome, ledger, mainVars>>

\* post_event is acknowledged; after the last event the lot is committed.
Post ==
  /\ At("post")
  /\ ledger' = ledger \cup {<<producer.lot, producer.event>>}
  /\ IF producer.event < EventsPerLot
     THEN /\ producer' = [producer EXCEPT !.pc = "event", !.event = @ + 1]
          /\ UNCHANGED <<stats, outcome>>
     ELSE /\ Goto("readback")
          /\ Count("committed")
          /\ outcome' = [outcome EXCEPT !.committed = @ \cup {producer.lot}]
  /\ UNCHANGED <<stop, queue, mainVars>>

\* post_event fails; the event may have reached the ledger all the same.
PostFails ==
  /\ At("post")
  /\ ledger' \in {ledger, ledger \cup {<<producer.lot, producer.event>>}}
  /\ Fails("fabric")
  /\ Finish
  /\ UNCHANGED <<stop, queue, stats, mainVars>>

\* read_committed_event of every event of the lot, or of those before one that
\* fails.
ReadBack ==
  /\ At("readback")
  /\ Goto("send")
  /\ Count("readback")
  /\ UNCHANGED <<stop, queue, outcome, ledger, mainVars>>

ReadBackFails ==
  /\ At("readback")
  /\ Fails("fabric_readback")
  /\ Finish
  /\ UNCHANGED <<stop, queue, stats, ledger, mainVars>>

\* The receiver lives until the main thread leaves the seed.
Connected == consumer.pc \notin {"dropped", "exited"}

Enqueue ==
  /\ queue' = Append(queue, producer.lot)
  /\ Goto("count")
  /\ UNCHANGED outcome

\* Mutant: a plain blocking send, which polls for room and for nothing else.
SendWhenRoom ==
  \/ /\ At("send")
     /\ IF Len(queue) < Capacity
        THEN Enqueue
        ELSE Goto("full") /\ UNCHANGED <<queue, outcome>>
     /\ UNCHANGED <<stop, stats, ledger, mainVars>>
  \/ /\ At("full")
     /\ Goto("send")
     /\ UNCHANGED <<stop, queue, stats, outcome, ledger, mainVars>>

\* send_before_deadline: stopped or disconnected it gives the lot up and ends
\* the producer; with room it sends; without, it looks at the deadline, sleeps
\* and tries again or drops the lot as saturated.
SendBeforeDeadline ==
  \/ /\ At("send")
     /\ IF stop \/ ~ Connected
        THEN Drops("queue_stopped") /\ Finish /\ UNCHANGED <<queue>>
        ELSE IF Len(queue) < Capacity
        THEN Enqueue
        ELSE Goto("full") /\ UNCHANGED <<queue, outcome>>
     /\ UNCHANGED <<stop, stats, ledger, mainVars>>
  \/ /\ At("full")
     /\ Goto("send")
     /\ UNCHANGED <<stop, queue, stats, outcome, ledger, mainVars>>
  \/ /\ At("full")
     /\ stats' = [stats EXCEPT !.saturated = @ + 1, !.depth = Capacity]
     /\ Drops("queue_saturated")
     /\ NextLot
     /\ UNCHANGED <<stop, queue, ledger, mainVars>>

\* What the counters make of the queue's length, saturating_sub and min.
Depth(sent, received) == Min({Max({sent - received, 0}), Capacity})

\* The lot sent is counted, after it was sent.
CountQueued ==
  /\ At("count")
  /\ LET sent == stats.queued + 1
     IN  stats' = [stats EXCEPT !.queued = sent,
                     !.depth = Max({@, Depth(sent, stats.received)})]
  /\ NextLot
  /\ UNCHANGED <<stop, queue, outcome, ledger, mainVars>>

Producer ==
  \/ OfferLot \/ OfferEvent \/ Post \/ PostFails \/ ReadBack \/ ReadBackFails
  \/ SendBeforeDeadline \/ CountQueued

-----------------------------------------------------------------------------
(* The main thread: the loop over the receiver, then stop, join and report.  *)

Main(pc) == consumer.pc = pc
MainGoto(pc) == consumer' = [consumer EXCEPT !.pc = pc]
Record(lot, status, stage) == [lot |-> lot, status |-> status, stage |-> stage]

\* receiver.iter(): the next lot, or the end once the producer is gone.
Receive ==
  /\ Main("receive")
  /\ \/ /\ queue # <<>>
        /\ queue' = Tail(queue)
        /\ consumer' = [pc |-> "received", lot |-> Head(queue), stage |-> NoStage]
     \/ /\ queue = <<>> /\ At("done")
        /\ MainGoto("ended")
        /\ UNCHANGED queue
  /\ UNCHANGED <<stop, stats, nullifiers, failure, rows, terminal, chain, producerVars>>

CountReceived ==
  /\ Main("received")
  /\ MainGoto("prove")
  /\ Count("received")
  /\ UNCHANGED <<stop, queue, nullifiers, failure, rows, terminal, chain, producerVars>>

\* The row of a lot that failed at a stage is to be written.
FailsAt(stage) == consumer' = [consumer EXCEPT !.pc = "write", !.stage = stage]

\* Witness and proof on the root of the nullifier map.
Prove ==
  /\ Main("prove")
  /\ \/ MainGoto("anchor") /\ Count("proved")
     \/ FailsAt("prove") /\ UNCHANGED stats
  /\ UNCHANGED <<stop, queue, nullifiers, failure, rows, terminal, chain, producerVars>>

\* The contract takes a leaf that starts at its root.
Extends(map) == map = {chain[i] : i \in DOMAIN chain}

\* anchor.anchor: the receipt is checked, the nullifier inserted and the lot
\* counted.
Anchor ==
  /\ Main("anchor")
  /\ Extends(nullifiers)
  /\ chain' = Append(chain, consumer.lot)
  /\ nullifiers' = nullifiers \cup {consumer.lot}
  /\ Count("anchored")
  /\ MainGoto("write")
  /\ UNCHANGED <<stop, queue, failure, rows, terminal, producerVars>>

\* No receipt comes back, or not the right one; the contract may have anchored
\* the lot all the same.
AnchorFails ==
  /\ Main("anchor")
  /\ \/ UNCHANGED chain
     \/ Extends(nullifiers) /\ chain' = Append(chain, consumer.lot)
  /\ FailsAt("anchor")
  /\ UNCHANGED <<stop, queue, stats, nullifiers, failure, rows, terminal, producerVars>>

\* Mutant: a failed lot does not end the loop.
WriteRowOn ==
  /\ Main("write")
  /\ rows' = Append(rows, Record(consumer.lot,
                IF consumer.stage = NoStage THEN "ok" ELSE "failed", consumer.stage))
  /\ MainGoto("receive")
  /\ failure' = (failure \/ consumer.stage # NoStage)
  /\ UNCHANGED <<stop, queue, stats, nullifiers, terminal, chain, producerVars>>

\* The row is written; a failure stops the run.
WriteRow ==
  /\ Main("write")
  /\ rows' = Append(rows, Record(consumer.lot,
                IF consumer.stage = NoStage THEN "ok" ELSE "failed", consumer.stage))
  /\ IF consumer.stage = NoStage
     THEN MainGoto("receive") /\ UNCHANGED <<failure, stop>>
     ELSE MainGoto("ended") /\ failure' = TRUE /\ stop' = TRUE
  /\ UNCHANGED <<queue, stats, nullifiers, terminal, chain, producerVars>>

\* A row or the terminal record cannot be written: the seed is left, the receiver
\* dropped and then StopProducerOnDrop.
WriteFails ==
  /\ consumer.pc \in {"write", "report"}
  /\ MainGoto("dropped")
  /\ UNCHANGED <<stop, queue, stats, nullifiers, failure, rows, terminal, chain, producerVars>>

StopOnDrop ==
  /\ Main("dropped")
  /\ MainGoto("exited")
  /\ stop' = TRUE
  /\ UNCHANGED <<queue, stats, nullifiers, failure, rows, terminal, chain, producerVars>>

EndLoop ==
  /\ Main("ended")
  /\ MainGoto("join")
  /\ stop' = TRUE
  /\ UNCHANGED <<queue, stats, nullifiers, failure, rows, terminal, chain, producerVars>>

\* The row of a planned lot the loop has not recorded.
Unfinished(lot) ==
  LET committed == lot \in outcome.committed
  IN  Record(lot, IF committed THEN "failed" ELSE "not_offered",
             IF outcome.failures[lot] # NoStage THEN outcome.failures[lot]
             ELSE IF committed THEN "consumer_stopped" ELSE "producer_stopped")

Recorded == {rows[i].lot : i \in DOMAIN rows}

Complete ==
  /\ NumLots > 0
  /\ stats.anchored = NumLots
  /\ stats.offeredEvents = NumLots * EventsPerLot
  /\ stats.saturated = 0
  /\ ~ failure

\* Mutant: the report is written without joining the producer.
ReportUnjoined ==
  /\ Main("join")
  /\ failure' = (failure \/ outcome.failed)
  /\ MainGoto("report")
  /\ UNCHANGED <<stop, queue, stats, nullifiers, rows, terminal, chain, producerVars>>

\* Mutant: only the main thread's own failure is reported.
ReportOwnFailure ==
  /\ Main("join") /\ At("done")
  /\ MainGoto("report")
  /\ UNCHANGED <<stop, queue, stats, nullifiers, failure, rows, terminal, chain, producerVars>>

\* The producer is joined and its failure taken over.
Join ==
  /\ Main("join") /\ At("done")
  /\ failure' = (failure \/ outcome.failed)
  /\ MainGoto("report")
  /\ UNCHANGED <<stop, queue, stats, nullifiers, rows, terminal, chain, producerVars>>

\* The next lot of lot_info without a row gets one.
WriteUnfinished ==
  /\ Main("report")
  /\ \E lot \in Lots \ Recorded :
       /\ \A other \in Lots \ Recorded : lot <= other
       /\ rows' = Append(rows, Unfinished(lot))
  /\ UNCHANGED <<stop, queue, stats, consumer, nullifiers, failure, terminal, chain,
                 producerVars>>

\* All lots have one, and the terminal record is written.
WriteTerminal ==
  /\ Main("report")
  /\ Lots \subseteq Recorded
  /\ terminal' = IF Complete THEN "complete" ELSE IF failure THEN "failed" ELSE "partial"
  /\ MainGoto("done")
  /\ UNCHANGED <<stop, queue, stats, nullifiers, failure, rows, chain, producerVars>>

Consumer ==
  \/ Receive \/ CountReceived \/ Prove \/ Anchor \/ AnchorFails
  \/ WriteRow \/ WriteFails \/ StopOnDrop \/ EndLoop
  \/ Join \/ WriteUnfinished \/ WriteTerminal

\* The end of the seed.
Finished ==
  /\ At("done") /\ consumer.pc \in {"done", "exited"}
  /\ UNCHANGED vars

Next == Producer \/ Consumer \/ Finished

\* Both are threads; requests time out, proofs end, the deadline comes.
Fairness == WF_vars(Producer) /\ WF_vars(Consumer)

Spec == Init /\ [][Next]_vars /\ Fairness

-----------------------------------------------------------------------------

\* What a row says of its lot: how it went and at which stage it failed.
Stages ==
  {NoStage, "prove", "anchor", "fabric", "fabric_readback", "queue_stopped",
   "queue_saturated", "consumer_stopped", "producer_stopped"}
Row == [lot : Lots, status : {"ok", "failed", "not_offered"}, stage : Stages]

TypeOK ==
  /\ stop \in BOOLEAN
  /\ queue \in Seq(Lots) /\ Len(queue) <= Capacity
  /\ \A counter \in DOMAIN stats : stats[counter] \in Nat
  /\ producer.lot \in 1 .. NumLots + 1 /\ producer.event \in Events
  /\ outcome.committed \subseteq Lots
  /\ consumer.lot \in Lots \cup {0}
  /\ nullifiers \subseteq Lots
  /\ chain \in Seq(Lots)
  /\ ledger \subseteq Lots \X Events
  /\ rows \in Seq(Row)
  /\ terminal \in {"none", "complete", "partial", "failed"}

OkRows == {i \in DOMAIN rows : rows[i].status = "ok"}

\* The errors scripts/e2_real_analyze.py raises for a seed's records: a repeated
\* lot, counts that contradict the rows, progress counters that grow from one
\* stage to the next, a queue deeper than its capacity.
AuditOk ==
  /\ \A i, j \in DOMAIN rows : i # j => rows[i].lot # rows[j].lot
  /\ \A i \in DOMAIN rows : rows[i].status # "ok" => rows[i].stage # NoStage
  /\ stats.anchored = Cardinality(OkRows)
  /\ stats.saturated = Cardinality({i \in DOMAIN rows : rows[i].stage = "queue_saturated"})
  /\ LET progress == <<NumLots, stats.offered, stats.committed, stats.readback,
                       stats.queued, stats.received, stats.proved, stats.anchored>>
     IN  \A i \in 1 .. Len(progress) - 1 : progress[i] >= progress[i + 1]
  /\ stats.depth <= Capacity

\* Its reasons not to take a seed for formal evidence.
AuditFindsComplete ==
  /\ Len(rows) = NumLots
  /\ terminal = "complete"
  /\ ~ failure
  /\ \A i \in DOMAIN rows : rows[i].status = "ok"
  /\ stats.offeredEvents = NumLots * EventsPerLot
  /\ stats.offered = NumLots

\* However the run ends, its records pass the audit, with a row for every lot.
AuditAccepts ==
  terminal # "none" => AuditOk /\ Len(rows) = NumLots

\* The terminal status says what happened.  Complete: all lots are on chain in
\* order and formal evidence.  Partial: nothing went wrong but the queue, and
\* all lots it did not drop are there.  Failed: some lot was lost otherwise.
TerminalTrue ==
  /\ terminal = "complete" => AuditFindsComplete /\ chain = Schedule
  /\ terminal = "partial" /\ NumLots > 0 =>
       /\ stats.saturated > 0
       /\ \A i \in DOMAIN rows : rows[i].status = "ok" \/ rows[i].stage = "queue_saturated"
  /\ terminal = "failed" =>
       \E i \in DOMAIN rows : rows[i].status # "ok" /\ rows[i].stage # "queue_saturated"

\* Lots are anchored in the order of the schedule, each with its row in the same
\* place.  The rows are never more than one lot behind the chain: the one in
\* work, or the one whose receipt was lost, with which the run ends.  Every event
\* of an anchored lot is on Fabric.
ChainInStep ==
  /\ \A i \in DOMAIN chain : {chain[i]} \X Events \subseteq ledger
  /\ \A i, j \in DOMAIN chain : i < j => chain[i] < chain[j]
  /\ \A i \in OkRows : i \in DOMAIN chain /\ rows[i].lot = chain[i]
  /\ \A i \in DOMAIN chain \ OkRows : i = Len(chain) /\ chain[i] = consumer.lot

\* The seed ends, with the producer gone: no thread waits for ever for room, for
\* a lot or for the other.
Ends == <>(At("done") /\ consumer.pc \in {"done", "exited"})

=============================================================================
