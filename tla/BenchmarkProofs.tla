--------------------------- MODULE BenchmarkProofs ---------------------------
(***************************************************************************)
(* Proofs about the two benchmarks.                                        *)
(*                                                                         *)
(* E2Pipeline, for any number of lots, of events and any capacity of the   *)
(* queue: the seed's records pass the audit, its status is true, and its   *)
(* rows keep step with the chain.                                          *)
(*                                                                         *)
(* E1Runner, for all lot sizes, numbers of seeds, circuits and numbers of  *)
(* workers: the wrapper of a lot covers its five circuits, the panic hook  *)
(* is put back, a successful run has written the whole grid, and the       *)
(* output is the beginning of one run's grid.                              *)
(*                                                                         *)
(* E1Prover, for any lots, sizes and depths: a proof is of a true          *)
(* statement with its own witness and public inputs, and every true        *)
(* statement is proved, but for points of C1 level with an edge.           *)
(***************************************************************************)
EXTENDS E2Pipeline, E1Runner, E1Prover, FiniteSetTheorems, SequenceTheorems, TLAPS

\* The stages of a lot that failed in the loop, of one the producer lost, and of
\* all it has to say of a lot.
LoopStages == {"prove", "anchor"}
LostStages == {"fabric", "fabric_readback"}
ProducerStages == LostStages \cup {NoStage, "queue_stopped", "queue_saturated"}

ProducerPlaces ==
  {"lot", "event", "post", "readback", "send", "full", "count", "done"}
LoopPlaces == {"receive", "received", "prove", "anchor", "write"}
LeftPlaces == {"dropped", "exited"}
MainPlaces == LoopPlaces \cup LeftPlaces \cup {"ended", "join", "report", "done"}

Counters == {"offered", "offeredEvents", "committed", "readback", "queued",
             "received", "proved", "anchored", "saturated", "depth"}

TypeInv ==
  /\ stop \in BOOLEAN
  /\ queue \in Seq(Lots)
  /\ stats \in [Counters -> Nat]
  /\ producer \in [pc : ProducerPlaces, lot : 1 .. NumLots + 1, event : Events]
  /\ outcome \in [failures : [Lots -> ProducerStages], committed : SUBSET Lots,
                  failed : BOOLEAN]
  /\ consumer \in [pc : MainPlaces, lot : Lots \cup {0}, stage : LoopStages \cup {NoStage}]
  /\ nullifiers \subseteq Lots
  /\ failure \in BOOLEAN
  /\ rows \in Seq(Row)
  /\ terminal \in {"none", "complete", "partial", "failed"}
  /\ ledger \subseteq Lots \X Events
  /\ chain \in Seq(Lots)

\* A lot is in the producer's hands from its first event to the count.
InHand == ~ At("lot") /\ ~ At("done")

\* The lots the producer is through with: those before its current one, and that
\* one when all that is left is the count.
Sent == {lot \in Lots : lot < producer.lot \/ (lot = producer.lot /\ At("count"))}

\* What the producer did before its current lot, and for it: the events of the
\* lots behind it are on Fabric.
OnFabricInv ==
  /\ InHand => producer.lot \in Lots
  /\ producer.pc \in {"lot", "event", "post"} =>
       \A event \in Events : event < producer.event => <<producer.lot, event>> \in ledger
  /\ At("lot") => producer.event = 1
  /\ \A lot \in outcome.committed : {lot} \X Events \subseteq ledger
  /\ \A lot \in Lots : lot < producer.lot => lot \in outcome.committed
  /\ producer.pc \in {"readback", "send", "full", "count"} =>
       producer.lot \in outcome.committed

\* Of the lots behind the producer only saturated ones have failed; a failure of
\* Fabric is the last thing that happens to it, at the lot where it stopped.
FailuresInv ==
  /\ \A lot \in Lots : lot > producer.lot => outcome.failures[lot] = NoStage
  /\ InHand => outcome.failures[producer.lot] = NoStage
  /\ \A lot \in Lots : lot < producer.lot =>
       outcome.failures[lot] \in {NoStage, "queue_saturated"}
  /\ At("lot") /\ producer.lot \in Lots => outcome.failures[producer.lot] = NoStage
  /\ At("done") /\ producer.lot \in Lots =>
       outcome.failures[producer.lot] # "queue_saturated"
  /\ outcome.failed =>
       /\ At("done") /\ producer.lot \in Lots
       /\ outcome.failures[producer.lot] \in LostStages

Saturated == {lot \in Lots : outcome.failures[lot] = "queue_saturated"}

\* Where the producer's counters stand: each lot behind it was offered,
\* committed, read back, and then queued or dropped.
OfferedInv ==
  /\ producer.lot - 1 <= stats.readback
  /\ stats.readback <= stats.committed
  /\ stats.committed <= stats.offered
  /\ stats.offered <= NumLots
  /\ stats.queued + stats.saturated = producer.lot - 1
  /\ At("lot") => stats.offered = producer.lot - 1
  /\ producer.pc \in {"lot", "event", "post"} => stats.committed = producer.lot - 1
  /\ producer.pc \in {"lot", "event", "post", "readback"} =>
       stats.readback = producer.lot - 1
  /\ producer.pc \in {"send", "full", "count"} => stats.readback = producer.lot
  /\ InHand => stats.offered = producer.lot
  /\ producer.pc \in {"readback", "send", "full", "count"} =>
       stats.committed = producer.lot
  /\ stats.saturated = Cardinality(Saturated)
  /\ stats.depth <= Capacity

\* The events of the lots behind the producer, and of its current one.
EventsInv ==
  LET before == (producer.lot - 1) * EventsPerLot
  IN  /\ At("lot") => stats.offeredEvents = before
      /\ At("event") => stats.offeredEvents = before + producer.event - 1
      /\ At("post") => stats.offeredEvents = before + producer.event
      /\ producer.pc \in {"readback", "send", "full", "count"} =>
           stats.offeredEvents = before + EventsPerLot
      /\ At("done") /\ producer.lot = NumLots + 1 => stats.offeredEvents = before

ProducerInv == OnFabricInv /\ FailuresInv /\ OfferedInv /\ EventsInv

\* Lots the main thread took out of the queue.
Taken == stats.received + (IF Main("received") THEN 1 ELSE 0)

\* What is between the threads: the queue holds, in order, what was sent and not
\* taken, and nothing is further in the schedule than the dropped lots explain.
QueueInv ==
  /\ stats.queued + (IF At("count") THEN 1 ELSE 0) = Taken + Len(queue)
  /\ Len(queue) <= Capacity
  /\ \A i, j \in DOMAIN queue : i < j => queue[i] < queue[j]
  /\ \A i \in DOMAIN queue :
       /\ consumer.lot < queue[i]
       /\ queue[i] \in Sent
       /\ queue[i] <= Taken + i + stats.saturated
       /\ outcome.failures[queue[i]] = NoStage
  /\ consumer.lot \in Lots =>
       consumer.lot \in Sent /\ outcome.failures[consumer.lot] = NoStage
  /\ consumer.pc \in {"received", "prove", "anchor", "write"} => consumer.lot \in Lots
  /\ consumer.lot <= Taken + stats.saturated

\* How the main thread's counters follow each other.
WorkInv ==
  /\ stats.anchored <= stats.proved
  /\ stats.proved <= stats.received
  /\ Main("prove") => stats.proved < stats.received
  /\ Main("anchor") => stats.anchored < stats.proved

\* Lots are anchored in order, and none further in the chain than in the
\* schedule, or further back than the dropped lots explain.
ChainInv ==
  /\ \A i, j \in DOMAIN chain : i < j => chain[i] < chain[j]
  /\ \A i \in DOMAIN chain :
       /\ i <= chain[i] /\ chain[i] <= i + stats.saturated
       /\ chain[i] <= consumer.lot
       /\ consumer.pc \in {"received", "prove", "anchor"} => chain[i] < consumer.lot

\* A row in the place of each anchored lot, but for the last.
InStep ==
  /\ \A i \in OkRows : i \in DOMAIN chain /\ rows[i].lot = chain[i]
  /\ \A i \in DOMAIN chain \ OkRows : i = Len(chain) /\ chain[i] = consumer.lot

\* In the loop all rows are good, and the chain is ahead by the lot being written
\* if it is at all.
LoopInv ==
  consumer.pc \in LoopPlaces =>
    /\ OkRows = DOMAIN rows
    /\ \A i \in DOMAIN rows : Main("receive") \/ rows[i].lot < consumer.lot
    /\ consumer.pc \in {"receive", "received"} => stats.received = Len(rows)
    /\ consumer.pc \in {"prove", "anchor", "write"} => stats.received = Len(rows) + 1
    /\ ~ Main("write") => consumer.stage = NoStage /\ Len(chain) = Len(rows)
    /\ Main("write") /\ consumer.stage = NoStage =>
         Len(chain) = Len(rows) + 1 /\ chain[Len(chain)] = consumer.lot
    /\ stats.anchored = IF Main("write") /\ consumer.stage = NoStage
                        THEN Len(rows) + 1 ELSE Len(rows)

\* Afterwards the good rows are still the first ones, one for each lot anchored.
AfterInv ==
  consumer.pc \notin LoopPlaces \cup LeftPlaces => OkRows = 1 .. stats.anchored

\* No lot has two rows, and a row says of its lot what happened to it: before
\* the report no lot with a row has failed in the producer.
RowsInv ==
  /\ \A i, j \in DOMAIN rows : i # j => rows[i].lot # rows[j].lot
  /\ consumer.pc \in LoopPlaces \cup {"ended", "join"} =>
       \A i \in DOMAIN rows : rows[i].lot <= consumer.lot
  /\ consumer.pc \notin LeftPlaces =>
       \A i \in DOMAIN rows :
         /\ rows[i].status = "ok" <=> rows[i].stage = NoStage
         /\ outcome.failures[rows[i].lot] = NoStage => rows[i].stage # "queue_saturated"
         /\ outcome.failures[rows[i].lot] # NoStage =>
              rows[i].stage = outcome.failures[rows[i].lot]

\* A lot failed in the loop and has its row.
LoopFailed == \E i \in DOMAIN rows : rows[i].stage \in LoopStages

\* When the flags are up and what they mean; the terminal record.
FlagsInv ==
  /\ consumer.pc \in LoopPlaces => ~ stop /\ ~ failure
  /\ Main("ended") => stop = failure
  /\ consumer.pc \in {"ended", "join"} /\ failure => LoopFailed
  /\ consumer.pc \in {"report", "done"} =>
       /\ At("done")
       /\ failure => LoopFailed \/ outcome.failed
       /\ outcome.failed => failure
  /\ terminal # "none" => Main("done")
  /\ Main("done") =>
       /\ Lots \subseteq Recorded
       /\ terminal = IF Complete THEN "complete" ELSE IF failure THEN "failed" ELSE "partial"

\* Nothing has gone wrong but the queue.
Lossless == ~ failure /\ ~ outcome.failed /\ consumer.pc \notin LeftPlaces

InWork(lot) ==
  consumer.lot = lot /\ consumer.pc \in {"received", "prove", "anchor", "write"}

\* Then no lot that was sent is lost, and both threads come to the end.
LosslessInv ==
  Lossless =>
    /\ At("done") => producer.lot = NumLots + 1
    /\ consumer.pc \in {"ended", "join", "report", "done"} => At("done") /\ queue = <<>>
    /\ \A lot \in Sent :
         \/ lot \in Saturated
         \/ \E i \in DOMAIN queue : queue[i] = lot
         \/ InWork(lot)
         \/ \E i \in OkRows : rows[i].lot = lot
    /\ \A i \in DOMAIN rows : rows[i].status = "ok" \/ rows[i].stage = "queue_saturated"

MainInv ==
  /\ QueueInv /\ WorkInv /\ ChainInv /\ InStep /\ LoopInv /\ AfterInv
  /\ RowsInv /\ FlagsInv /\ LosslessInv

\* The inductive invariant.
IInv == TypeInv /\ ProducerInv /\ MainInv

-----------------------------------------------------------------------------
(* Arithmetic and bookkeeping.                                               *)

\* What the assumptions say of the lots, the events and the queue.
LEMMA Constants ==
  /\ NumLots \in Nat /\ EventsPerLot \in Nat /\ EventsPerLot >= 1
  /\ Capacity \in Nat /\ Capacity >= 1
  /\ Lots = 1 .. NumLots /\ Events = 1 .. EventsPerLot
BY E2Assumption DEF Lots, Events

\* The larger of two numbers.
LEMMA MaxOfTwo ==
  ASSUME NEW a \in Int, NEW b \in Int
  PROVE  Max({a, b}) = IF a >= b THEN a ELSE b
<1> DEFINE m == IF a >= b THEN a ELSE b
<1>1. m \in {a, b} /\ \A x \in {a, b} : m >= x
  OBVIOUS
<1>2. \A x \in {a, b} : (\A y \in {a, b} : x >= y) => x = m
  OBVIOUS
<1> QED
  BY <1>1, <1>2 DEF Max

\* The smaller of two numbers.
LEMMA MinOfTwo ==
  ASSUME NEW a \in Int, NEW b \in Int
  PROVE  Min({a, b}) = IF a <= b THEN a ELSE b
<1> DEFINE m == IF a <= b THEN a ELSE b
<1>1. m \in {a, b} /\ \A x \in {a, b} : m <= x
  OBVIOUS
<1>2. \A x \in {a, b} : (\A y \in {a, b} : x <= y) => x = m
  OBVIOUS
<1> QED
  BY <1>1, <1>2 DEF Min

\* The depth counted is never above the capacity.
LEMMA DepthFits ==
  ASSUME NEW sent \in Nat, NEW received \in Nat, NEW depth \in Nat, depth <= Capacity
  PROVE  /\ Max({depth, Depth(sent, received)}) \in Nat
         /\ Max({depth, Depth(sent, received)}) <= Capacity
<1> DEFINE positive == Max({sent - received, 0})
           now == Depth(sent, received)
<1>1. positive \in Nat
  <2>1. positive = IF sent - received >= 0 THEN sent - received ELSE 0
    BY MaxOfTwo
  <2> QED
    BY <2>1
<1>2. now = Min({positive, Capacity})
  BY DEF Depth
<1> HIDE DEF positive, now
<1>3. now \in Nat /\ now <= Capacity
  BY <1>1, <1>2, MinOfTwo, Constants
<1>4. Max({depth, now}) = IF depth >= now THEN depth ELSE now
  BY <1>3, MaxOfTwo
<1> QED
  BY <1>3, <1>4 DEF now

\* One counter is one more, the others are as they were.
LEMMA CountFacts ==
  ASSUME stats \in [Counters -> Nat], NEW counter \in Counters, Count(counter)
  PROVE  /\ stats' \in [Counters -> Nat]
         /\ stats'[counter] = stats[counter] + 1
         /\ \A other \in Counters : other # counter => stats'[other] = stats[other]
BY DEF Count

\* A field of the counters is a number.
LEMMA CounterFields ==
  ASSUME stats \in [Counters -> Nat]
  PROVE  /\ stats.offered \in Nat /\ stats.offeredEvents \in Nat
         /\ stats.committed \in Nat /\ stats.readback \in Nat
         /\ stats.queued \in Nat /\ stats.received \in Nat
         /\ stats.proved \in Nat /\ stats.anchored \in Nat
         /\ stats.saturated \in Nat /\ stats.depth \in Nat
BY DEF Counters

\* A seed starts with nothing offered, posted, queued or anchored.
LEMMA Initially == Init => IInv
<1> SUFFICES ASSUME Init PROVE IInv
  OBVIOUS
<1> USE Constants
<1>1. TypeInv
  <2>1. stats \in [Counters -> Nat]
    BY DEF Init, Counters
  <2>2. producer \in [pc : ProducerPlaces, lot : 1 .. NumLots + 1, event : Events]
    BY DEF Init, ProducerPlaces
  <2>3. outcome \in [failures : [Lots -> ProducerStages], committed : SUBSET Lots,
                     failed : BOOLEAN]
    BY DEF Init, ProducerStages
  <2>4. consumer \in [pc : MainPlaces, lot : Lots \cup {0},
                      stage : LoopStages \cup {NoStage}]
    BY DEF Init, MainPlaces, LoopPlaces
  <2>5. queue \in Seq(Lots) /\ rows \in Seq(Row) /\ chain \in Seq(Lots)
    BY DEF Init
  <2> QED
    BY <2>1, <2>2, <2>3, <2>4, <2>5 DEF Init, TypeInv
<1>2. OnFabricInv
  BY DEF Init, OnFabricInv, At, InHand
<1>3. FailuresInv
  BY DEF Init, FailuresInv, At, InHand
<1>4. OfferedInv
  <2>1. Saturated = {}
    BY DEF Init, Saturated, NoStage
  <2>2. Cardinality(Saturated) = 0
    BY <2>1, FS_EmptySet
  <2> QED
    BY <2>2 DEF Init, OfferedInv, At, InHand
<1>5. EventsInv
  BY DEF Init, EventsInv, At
<1>6. rows = <<>> /\ chain = <<>> /\ queue = <<>> /\ OkRows = {}
  BY DEF Init, OkRows
<1>7. QueueInv
  BY <1>6 DEF Init, QueueInv, Taken, At, Main, Sent
<1>8. WorkInv /\ ChainInv /\ InStep /\ LoopInv /\ AfterInv
  BY <1>6 DEF Init, WorkInv, ChainInv, InStep, LoopInv, AfterInv, Main, LoopPlaces
<1>9. RowsInv /\ FlagsInv
  BY <1>6 DEF Init, RowsInv, FlagsInv, Main
<1>10. LosslessInv
  <2>1. Sent = {}
    BY DEF Init, Sent, At
  <2>2. Init => ~ At("done") /\ consumer.pc = "receive"
    BY DEF Init, At
  <2> QED
    BY <1>6, <2>1, <2>2 DEF LosslessInv
<1> QED
  BY <1>1, <1>2, <1>3, <1>4, <1>5, <1>7, <1>8, <1>9, <1>10
     DEF IInv, ProducerInv, MainInv

-----------------------------------------------------------------------------
(* The types.                                                                *)

\* Each step keeps the types: a thread's place, its current lot and event.
LEMMA TypeStep ==
  ASSUME IInv, Next
  PROVE  TypeInv'
<1>0. TypeInv /\ OnFabricInv /\ FailuresInv
  BY DEF IInv, ProducerInv
<1> DEFINE Numbers == /\ stats.queued \in Nat /\ stats.received \in Nat
                      /\ stats.saturated \in Nat /\ stats.depth \in Nat
<1>a. stats \in [Counters -> Nat]
  BY <1>0 DEF TypeInv
<1>b. Numbers
  BY <1>a, CounterFields
<1>c. queue \in Seq(Lots) /\ chain \in Seq(Lots)
  BY <1>0 DEF TypeInv
<1> HIDE DEF Numbers
<1>1. ASSUME NEW pc \in ProducerPlaces, Goto(pc)
      PROVE  producer' \in [pc : ProducerPlaces, lot : 1 .. NumLots + 1, event : Events]
  BY <1>0, <1>1 DEF Goto, TypeInv
<1>2. ASSUME NextLot, InHand
      PROVE  producer' \in [pc : ProducerPlaces, lot : 1 .. NumLots + 1, event : Events]
  <2>1. producer.lot + 1 \in 1 .. NumLots + 1 /\ 1 \in Events /\ "lot" \in ProducerPlaces
    BY <1>0, <1>2, Constants DEF OnFabricInv, ProducerPlaces
  <2> QED
    BY <1>2, <2>1 DEF NextLot
<1>3. ASSUME NEW stage \in ProducerStages, InHand, Fails(stage) \/ Drops(stage)
      PROVE  outcome' \in [failures : [Lots -> ProducerStages], committed : SUBSET Lots,
                           failed : BOOLEAN]
  <2>1. producer.lot \in Lots
    BY <1>0, <1>3 DEF OnFabricInv
  <2> DEFINE failures == [outcome.failures EXCEPT ![producer.lot] = stage]
  <2>2. failures \in [Lots -> ProducerStages]
    BY <1>0, <2>1 DEF TypeInv
  <2>3. \/ outcome' = [outcome EXCEPT !.failures = failures, !.failed = TRUE]
        \/ outcome' = [outcome EXCEPT !.failures = failures]
    BY <1>3 DEF Fails, Drops
  <2> HIDE DEF failures
  <2> QED
    BY <1>0, <2>2, <2>3 DEF TypeInv
<1>4. ASSUME NEW pc \in MainPlaces, MainGoto(pc)
      PROVE  consumer' \in [pc : MainPlaces, lot : Lots \cup {0},
                            stage : LoopStages \cup {NoStage}]
  BY <1>0, <1>4 DEF MainGoto, TypeInv
<1>5. ASSUME NEW stage \in LoopStages, FailsAt(stage)
      PROVE  consumer' \in [pc : MainPlaces, lot : Lots \cup {0},
                            stage : LoopStages \cup {NoStage}]
  BY <1>0, <1>5 DEF FailsAt, TypeInv, MainPlaces, LoopPlaces
<1>6. CASE OfferLot
  BY <1>0, <1>1, <1>6, CountFacts
     DEF OfferLot, Finish, TypeInv, mainVars, Counters, ProducerPlaces
<1>7. CASE OfferEvent
  BY <1>0, <1>1, <1>7, CountFacts
     DEF OfferEvent, Finish, TypeInv, mainVars, Counters, ProducerPlaces
<1>8. CASE Post
  <2>1. producer.lot \in Lots
    BY <1>0, <1>8 DEF Post, OnFabricInv, InHand, At
  <2>2. ledger' \subseteq Lots \X Events
    BY <1>0, <1>8, <2>1 DEF Post, TypeInv
  <2>3. CASE producer.event < EventsPerLot
    <3>1. producer' \in [pc : ProducerPlaces, lot : 1 .. NumLots + 1, event : Events]
      <4>1. producer.event + 1 \in Events
        BY <1>0, <2>3, Constants DEF TypeInv
      <4>2. producer' = [producer EXCEPT !.pc = "event", !.event = producer.event + 1]
        BY <1>8, <2>3 DEF Post
      <4>3. producer \in [pc : ProducerPlaces, lot : 1 .. NumLots + 1, event : Events]
        BY <1>0 DEF TypeInv
      <4>4. "event" \in ProducerPlaces
        BY DEF ProducerPlaces
      <4> QED
        BY ONLY <4>1, <4>2, <4>3, <4>4
    <3> QED
      BY <1>0, <1>8, <2>2, <2>3, <3>1 DEF Post, TypeInv, mainVars
  <2>4. CASE ~ (producer.event < EventsPerLot)
    <3>1. outcome' \in [failures : [Lots -> ProducerStages], committed : SUBSET Lots,
                        failed : BOOLEAN]
      <4>1. outcome' = [outcome EXCEPT !.committed = outcome.committed \cup {producer.lot}]
        BY <1>8, <2>4 DEF Post
      <4> QED
        BY <1>0, <2>1, <4>1 DEF TypeInv
    <3> QED
      BY <1>0, <1>1, <1>8, <2>2, <2>4, <3>1, CountFacts
         DEF Post, TypeInv, mainVars, ProducerPlaces, Counters
  <2> QED
    BY <2>3, <2>4
<1>9. CASE PostFails
  <2>1. InHand /\ producer.lot \in Lots
    BY <1>0, <1>9 DEF PostFails, OnFabricInv, InHand, At
  <2>2. ledger' \subseteq Lots \X Events
    BY <1>0, <1>9, <2>1 DEF PostFails, TypeInv
  <2>3. outcome' \in [failures : [Lots -> ProducerStages], committed : SUBSET Lots,
                      failed : BOOLEAN]
    BY <1>3, <1>9, <2>1 DEF PostFails, ProducerStages, LostStages
  <2> QED
    BY <1>0, <1>1, <1>9, <2>2, <2>3 DEF PostFails, Finish, TypeInv, mainVars, ProducerPlaces
<1>10. CASE ReadBack
  BY <1>0, <1>1, <1>10, CountFacts
     DEF ReadBack, TypeInv, mainVars, Counters, ProducerPlaces
<1>11. CASE ReadBackFails
  <2>1. InHand
    BY <1>11 DEF ReadBackFails, InHand, At
  <2>3. outcome' \in [failures : [Lots -> ProducerStages], committed : SUBSET Lots,
                      failed : BOOLEAN]
    BY <1>3, <1>11, <2>1 DEF ReadBackFails, ProducerStages, LostStages
  <2> QED
    BY <1>0, <1>1, <1>11, <2>3 DEF ReadBackFails, Finish, TypeInv, mainVars, ProducerPlaces
<1>12. CASE SendBeforeDeadline
  <2>1. InHand /\ producer.lot \in Lots
    BY <1>0, <1>12 DEF SendBeforeDeadline, OnFabricInv, InHand, At
  <2>2. ASSUME NEW stage \in {"queue_stopped", "queue_saturated"}, Drops(stage)
        PROVE  outcome' \in [failures : [Lots -> ProducerStages], committed : SUBSET Lots,
                             failed : BOOLEAN]
    BY <1>3, <2>1, <2>2 DEF ProducerStages
  <2>3. CASE At("send")
    <3>1. queue' = queue \/ queue' = Append(queue, producer.lot)
      BY <1>12, <2>3 DEF SendBeforeDeadline, Enqueue, At
    <3>2. outcome' \in [failures : [Lots -> ProducerStages], committed : SUBSET Lots,
                        failed : BOOLEAN]
      BY <1>0, <1>12, <2>2, <2>3 DEF SendBeforeDeadline, Enqueue, At, TypeInv
    <3>3. producer' \in [pc : ProducerPlaces, lot : 1 .. NumLots + 1, event : Events]
      BY <1>1, <1>12, <2>3
         DEF SendBeforeDeadline, Enqueue, At, Finish, ProducerPlaces
    <3>4. queue' \in Seq(Lots)
      BY <1>c, <2>1, <3>1
    <3>5. UNCHANGED <<stop, stats, ledger, mainVars>>
      BY <1>12, <2>3 DEF SendBeforeDeadline, At
    <3> QED
      BY <1>0, <3>2, <3>3, <3>4, <3>5 DEF TypeInv, mainVars
  <2>4. CASE At("full") /\ Goto("send") /\ UNCHANGED <<stop, queue, stats, outcome, ledger, mainVars>>
    BY <1>0, <1>1, <2>4 DEF TypeInv, mainVars, ProducerPlaces
  <2>5. CASE /\ At("full")
             /\ stats' = [stats EXCEPT !.saturated = @ + 1, !.depth = Capacity]
             /\ Drops("queue_saturated")
             /\ NextLot
             /\ UNCHANGED <<stop, queue, ledger, mainVars>>
    <3>1. stats' \in [Counters -> Nat]
      <4>1. stats.saturated + 1 \in Nat /\ Capacity \in Nat
        BY <1>b, Constants DEF Numbers
      <4> QED
        BY <1>0, <2>5, <4>1 DEF TypeInv
    <3> QED
      BY <1>0, <1>2, <2>1, <2>2, <2>5, <3>1 DEF TypeInv, mainVars
  <2> QED
    BY <1>12, <2>3, <2>4, <2>5 DEF SendBeforeDeadline
<1>13. CASE CountQueued
  <2>1. InHand
    BY <1>13 DEF CountQueued, InHand, At
  <2>2. stats' \in [Counters -> Nat]
    <3> DEFINE depth == Max({stats.depth, Depth(stats.queued + 1, stats.received)})
    <3>1. depth \in Nat
      <4>1. OfferedInv
        BY DEF IInv, ProducerInv
      <4> QED
        <5>1. /\ stats.queued + 1 \in Nat /\ stats.received \in Nat
              /\ stats.depth \in Nat /\ stats.depth <= Capacity
          BY <1>b, <4>1 DEF Numbers, OfferedInv
        <5> QED
          BY <5>1, DepthFits
    <3> HIDE DEF depth
    <3>2. stats' = [stats EXCEPT !.queued = stats.queued + 1, !.depth = depth]
      BY <1>13 DEF CountQueued, depth
    <3> QED
      <4>1. stats.queued + 1 \in Nat
        BY <1>b DEF Numbers
      <4> QED
        BY <1>0, <3>1, <3>2, <4>1 DEF TypeInv
  <2> QED
    BY <1>0, <1>2, <1>13, <2>1, <2>2 DEF CountQueued, TypeInv, mainVars
<1>14. CASE Receive
  <2>1. CASE queue # <<>> /\ queue' = Tail(queue)
             /\ consumer' = [pc |-> "received", lot |-> Head(queue), stage |-> NoStage]
    <3>1. queue' \in Seq(Lots) /\ Head(queue) \in Lots
      BY <1>0, <2>1 DEF TypeInv
    <3>2. consumer' \in [pc : MainPlaces, lot : Lots \cup {0},
                         stage : LoopStages \cup {NoStage}]
      BY <2>1, <3>1 DEF MainPlaces, LoopPlaces
    <3> QED
      BY <1>0, <1>14, <3>1, <3>2 DEF Receive, TypeInv, producerVars
  <2>2. CASE MainGoto("ended") /\ UNCHANGED queue
    BY <1>0, <1>4, <1>14, <2>2 DEF Receive, TypeInv, producerVars, MainPlaces
  <2> QED
    BY <1>14, <2>1, <2>2 DEF Receive
<1>15. CASE CountReceived
  BY <1>0, <1>4, <1>15, CountFacts
     DEF CountReceived, TypeInv, producerVars, Counters, MainPlaces, LoopPlaces
<1>16. CASE Prove
  BY <1>0, <1>4, <1>5, <1>16, CountFacts
     DEF Prove, TypeInv, producerVars, Counters, MainPlaces, LoopPlaces, LoopStages
<1>17. CASE Anchor
  <2>1. consumer.lot \in Lots
    BY <1>17 DEF Anchor, IInv, MainInv, QueueInv, Main
  <2>2. chain' \in Seq(Lots) /\ nullifiers' \subseteq Lots
    BY <1>0, <1>17, <2>1 DEF Anchor, TypeInv
  <2>3. stats' \in [Counters -> Nat]
    BY <1>0, <1>17, CountFacts DEF Anchor, TypeInv, Counters
  <2>4. consumer' \in [pc : MainPlaces, lot : Lots \cup {0},
                       stage : LoopStages \cup {NoStage}]
    BY <1>4, <1>17 DEF Anchor, MainPlaces, LoopPlaces
  <2> QED
    BY <1>0, <1>17, <2>2, <2>3, <2>4 DEF Anchor, TypeInv, producerVars
<1>18. CASE AnchorFails
  <2>1. consumer.lot \in Lots
    BY <1>18 DEF AnchorFails, IInv, MainInv, QueueInv, Main
  <2>2. chain' \in Seq(Lots)
    BY <1>c, <1>18, <2>1 DEF AnchorFails
  <2> QED
    BY <1>0, <1>5, <1>18, <2>2 DEF AnchorFails, TypeInv, producerVars, LoopStages
<1>19. CASE WriteRow
  <2>1. consumer.lot \in Lots
    BY <1>19 DEF WriteRow, IInv, MainInv, QueueInv, Main
  <2> DEFINE row == Record(consumer.lot,
                IF consumer.stage = NoStage THEN "ok" ELSE "failed", consumer.stage)
  <2>2. row \in Row
    BY <1>0, <2>1 DEF Record, Row, TypeInv, Stages, LoopStages, ProducerStages
  <2> HIDE DEF row
  <2>3. rows' \in Seq(Row)
    <3>1. rows' = Append(rows, row)
      BY <1>19 DEF WriteRow, row
    <3> HIDE DEF Row
    <3> QED
      BY <1>0, <2>2, <3>1 DEF TypeInv
  <2>4. consumer' \in [pc : MainPlaces, lot : Lots \cup {0},
                       stage : LoopStages \cup {NoStage}]
    BY <1>4, <1>19 DEF WriteRow, MainPlaces, LoopPlaces
  <2> QED
    BY <1>0, <1>19, <2>3, <2>4 DEF WriteRow, TypeInv, producerVars
<1>20. CASE WriteFails
  BY <1>0, <1>4, <1>20 DEF WriteFails, TypeInv, producerVars, MainPlaces, LeftPlaces
<1>21. CASE StopOnDrop
  BY <1>0, <1>4, <1>21 DEF StopOnDrop, TypeInv, producerVars, MainPlaces, LeftPlaces
<1>22. CASE EndLoop
  BY <1>0, <1>4, <1>22 DEF EndLoop, TypeInv, producerVars, MainPlaces
<1>23. CASE Join
  BY <1>0, <1>4, <1>23 DEF Join, TypeInv, producerVars, MainPlaces
<1>24. CASE WriteUnfinished
  <2>1. PICK lot \in Lots : rows' = Append(rows, Unfinished(lot))
    BY <1>24 DEF WriteUnfinished
  <2>2. Unfinished(lot) \in Row
    BY <1>0 DEF Unfinished, Record, Row, TypeInv, Stages, ProducerStages, LostStages
  <2>3. rows' \in Seq(Row)
    <3> HIDE DEF Row
    <3> QED
      BY <1>0, <2>1, <2>2 DEF TypeInv
  <2> QED
    BY <1>0, <1>24, <2>3 DEF WriteUnfinished, TypeInv, producerVars
<1>25. CASE WriteTerminal
  BY <1>0, <1>4, <1>25 DEF WriteTerminal, TypeInv, producerVars, MainPlaces
<1>26. CASE Finished
  BY <1>0, <1>26 DEF Finished, vars, TypeInv
<1> QED
  BY <1>6, <1>7, <1>8, <1>9, <1>10, <1>11, <1>12, <1>13, <1>14, <1>15, <1>16, <1>17,
     <1>18, <1>19, <1>20, <1>21, <1>22, <1>23, <1>24, <1>25, <1>26
     DEF Next, Producer, Consumer

-----------------------------------------------------------------------------
(* What the steps do to the records, field by field.                         *)

\* The producer moves to another place with the lot and the event it has.
LEMMA GotoFacts ==
  ASSUME TypeInv, NEW pc, Goto(pc)
  PROVE  /\ producer'.pc = pc
         /\ producer'.lot = producer.lot
         /\ producer'.event = producer.event
BY DEF TypeInv, Goto

\* The producer turns to the first event of its next lot.
LEMMA NextLotFacts ==
  ASSUME NextLot
  PROVE  producer'.pc = "lot" /\ producer'.lot = producer.lot + 1 /\ producer'.event = 1
BY DEF NextLot

\* A failure or a drop is noted at the current lot only.
LEMMA NoteFacts ==
  ASSUME TypeInv, producer.lot \in Lots, NEW stage \in ProducerStages,
         Fails(stage) \/ Drops(stage)
  PROVE  /\ outcome'.committed = outcome.committed
         /\ outcome'.failures[producer.lot] = stage
         /\ \A lot \in Lots : lot # producer.lot =>
              outcome'.failures[lot] = outcome.failures[lot]
         /\ Fails(stage) => outcome'.failed
         /\ ~ Fails(stage) => outcome'.failed = outcome.failed
<1> DEFINE failures == [outcome.failures EXCEPT ![producer.lot] = stage]
<1>1. /\ failures[producer.lot] = stage
      /\ \A lot \in Lots : lot # producer.lot => failures[lot] = outcome.failures[lot]
  BY DEF TypeInv
<1>2. Fails(stage) => outcome' = [outcome EXCEPT !.failures = failures, !.failed = TRUE]
  BY DEF Fails
<1>3. ~ Fails(stage) => outcome' = [outcome EXCEPT !.failures = failures]
  BY DEF Drops
<1> HIDE DEF failures
<1>4. outcome'.committed = outcome.committed /\ outcome'.failures = failures
  BY <1>2, <1>3 DEF TypeInv
<1>5. Fails(stage) => outcome'.failed
  BY <1>2 DEF TypeInv
<1>6. ~ Fails(stage) => outcome'.failed = outcome.failed
  BY <1>3 DEF TypeInv
<1> QED
  BY <1>1, <1>4, <1>5, <1>6

\* The counters of the producer, and what it sees of them.
ProducerCounters ==
  <<stats.offered, stats.offeredEvents, stats.committed, stats.readback,
    stats.queued, stats.saturated, stats.depth>>

MainCounters == <<stats.received, stats.proved, stats.anchored>>

\* The main thread leaves alone what the producer has.
LEMMA MainKeeps ==
  ASSUME TypeInv, Consumer
  PROVE  UNCHANGED <<producer, outcome, ledger, ProducerCounters>>
<1> USE DEF producerVars
<1>0. stats \in [Counters -> Nat]
  BY DEF TypeInv
<1>1. ASSUME NEW counter \in {"received", "proved", "anchored"}, Count(counter)
      PROVE  UNCHANGED ProducerCounters
  BY <1>0, <1>1, CountFacts DEF ProducerCounters, Counters
<1>2. stats' = stats => UNCHANGED ProducerCounters
  BY DEF ProducerCounters
<1>3. CASE Receive
  BY <1>2, <1>3 DEF Receive
<1>4. CASE CountReceived
  BY <1>1, <1>4 DEF CountReceived
<1>5. CASE Prove
  BY <1>1, <1>2, <1>5 DEF Prove
<1>6. CASE Anchor
  BY <1>1, <1>6 DEF Anchor
<1>7. CASE AnchorFails \/ WriteRow \/ WriteFails \/ StopOnDrop \/ EndLoop
  BY <1>2, <1>7 DEF AnchorFails, WriteRow, WriteFails, StopOnDrop, EndLoop
<1>8. CASE Join \/ WriteUnfinished \/ WriteTerminal
  BY <1>2, <1>8 DEF Join, WriteUnfinished, WriteTerminal
<1> QED
  BY <1>3, <1>4, <1>5, <1>6, <1>7, <1>8 DEF Consumer

\* The producer leaves alone what the main thread has.
LEMMA ProducerKeeps ==
  ASSUME TypeInv, Producer
  PROVE  UNCHANGED <<stop, mainVars, MainCounters>>
<1>0. stats \in [Counters -> Nat]
  BY DEF TypeInv
<1>1. ASSUME NEW counter \in {"offered", "offeredEvents", "committed", "readback"},
             Count(counter)
      PROVE  UNCHANGED MainCounters
  BY <1>0, <1>1, CountFacts DEF MainCounters, Counters
<1>2. stats' = stats => UNCHANGED MainCounters
  BY DEF MainCounters
<1>3. CASE OfferLot \/ OfferEvent
  BY <1>1, <1>2, <1>3 DEF OfferLot, OfferEvent
<1>4. CASE Post \/ PostFails
  BY <1>1, <1>2, <1>4 DEF Post, PostFails
<1>5. CASE ReadBack \/ ReadBackFails
  BY <1>1, <1>2, <1>5 DEF ReadBack, ReadBackFails
<1>6. CASE SendBeforeDeadline
  <2>1. UNCHANGED <<stop, mainVars>>
    BY <1>6 DEF SendBeforeDeadline
  <2>2. stats' = stats \/ stats' = [stats EXCEPT !.saturated = @ + 1, !.depth = Capacity]
    BY <1>6 DEF SendBeforeDeadline
  <2> QED
    BY <1>0, <1>2, <2>1, <2>2 DEF MainCounters, Counters
<1>7. CASE CountQueued
  <2>1. UNCHANGED <<stop, mainVars>>
    BY <1>7 DEF CountQueued
  <2>2. PICK sent, depth : stats' = [stats EXCEPT !.queued = sent, !.depth = depth]
    BY <1>7 DEF CountQueued
  <2> QED
    BY <1>0, <2>1, <2>2 DEF MainCounters, Counters
<1> QED
  BY <1>3, <1>4, <1>5, <1>6, <1>7 DEF Producer

-----------------------------------------------------------------------------
(* The producer's invariant.                                                 *)

\* A step of the producer puts the events of its own lot on Fabric only.
LEMMA OnFabricStep ==
  ASSUME IInv, Producer
  PROVE  OnFabricInv'
<1>0. TypeInv /\ OnFabricInv /\ InHand \in BOOLEAN
  BY DEF IInv, ProducerInv, InHand
<1>a. /\ producer.pc \in ProducerPlaces /\ producer.lot \in 1 .. NumLots + 1
      /\ producer.event \in Events
      /\ outcome.committed \subseteq Lots
  BY <1>0 DEF TypeInv
<1> USE DEF InHand, At, OnFabricInv
<1>1. CASE OfferLot
  BY <1>0, <1>a, <1>1, GotoFacts, Constants DEF OfferLot, Finish
<1>2. CASE OfferEvent
  BY <1>0, <1>a, <1>2, GotoFacts DEF OfferEvent, Finish
<1>3. CASE Post
  <2>1. producer.pc = "post" /\ producer.lot \in Lots
    BY <1>0, <1>3 DEF Post
  <2>2. ledger' = ledger \cup {<<producer.lot, producer.event>>}
    BY <1>3 DEF Post
  <2>3. CASE producer.event < EventsPerLot
    <3>1. /\ producer'.pc = "event" /\ producer'.lot = producer.lot
          /\ producer'.event = producer.event + 1
          /\ outcome' = outcome
      BY <1>0, <1>3, <2>3 DEF Post, TypeInv
    <3> QED
      BY <1>0, <1>a, <2>1, <2>2, <3>1, Constants
  <2>4. CASE ~ (producer.event < EventsPerLot)
    <3>1. /\ producer'.pc = "readback" /\ producer'.lot = producer.lot
      BY <1>0, <1>3, <2>4, GotoFacts DEF Post
    <3>2. outcome'.committed = outcome.committed \cup {producer.lot}
      BY <1>0, <1>3, <2>4 DEF Post, TypeInv
    <3>3. {producer.lot} \X Events \subseteq ledger'
      BY <1>0, <1>a, <2>1, <2>2, <2>4, Constants
    <3> QED
      BY <1>0, <2>1, <2>2, <3>1, <3>2, <3>3
  <2> QED
    BY <2>3, <2>4
<1>4. CASE PostFails
  <2>1. /\ producer'.pc = "done" /\ producer'.lot = producer.lot
        /\ outcome'.committed = outcome.committed
        /\ ledger \subseteq ledger'
    BY <1>0, <1>4, GotoFacts, NoteFacts
       DEF PostFails, Finish, ProducerStages, LostStages
  <2> QED
    BY <1>0, <2>1
<1>5. CASE ReadBack
  BY <1>0, <1>5, GotoFacts DEF ReadBack
<1>6. CASE ReadBackFails
  <2>1. /\ producer'.pc = "done" /\ producer'.lot = producer.lot
        /\ outcome'.committed = outcome.committed
        /\ ledger' = ledger
    BY <1>0, <1>6, GotoFacts, NoteFacts
       DEF ReadBackFails, Finish, ProducerStages, LostStages
  <2> QED
    BY <1>0, <2>1
<1>7. CASE SendBeforeDeadline
  <2>1. producer.pc \in {"send", "full"} /\ producer.lot \in Lots /\ ledger' = ledger
    BY <1>0, <1>7 DEF SendBeforeDeadline
  <2>2. outcome'.committed = outcome.committed
    BY <1>0, <1>7, <2>1, NoteFacts DEF SendBeforeDeadline, Enqueue, ProducerStages
  <2>3. \/ producer'.pc \in {"send", "full", "count", "done"} /\ producer'.lot = producer.lot
        \/ producer'.pc = "lot" /\ producer'.lot = producer.lot + 1 /\ producer'.event = 1
    BY <1>0, <1>7, GotoFacts, NextLotFacts DEF SendBeforeDeadline, Enqueue, Finish
  <2> QED
    BY <1>0, <1>a, <2>1, <2>2, <2>3, Constants
<1>8. CASE CountQueued
  BY <1>0, <1>a, <1>8, NextLotFacts, Constants DEF CountQueued
<1> QED
  BY <1>1, <1>2, <1>3, <1>4, <1>5, <1>6, <1>7, <1>8 DEF Producer

\* A step of the producer notes a failure at its own lot only.
LEMMA FailuresStep ==
  ASSUME IInv, Producer
  PROVE  FailuresInv'
<1>0. TypeInv /\ FailuresInv /\ OnFabricInv
  BY DEF IInv, ProducerInv
<1>a. producer.pc \in ProducerPlaces /\ producer.lot \in 1 .. NumLots + 1
  BY <1>0 DEF TypeInv
<1>b. InHand => producer.lot \in Lots
  BY <1>0 DEF OnFabricInv
<1> USE DEF InHand, At, FailuresInv
<1>c. ~ At("done") => outcome.failed = FALSE
  BY <1>0 DEF TypeInv
<1>1. CASE OfferLot
  BY <1>0, <1>a, <1>1, GotoFacts, Constants DEF OfferLot, Finish, NoStage
<1>2. CASE OfferEvent
  BY <1>0, <1>a, <1>b, <1>2, GotoFacts DEF OfferEvent, Finish, NoStage
<1>3. CASE Post
  <2>1. /\ producer'.pc \in {"event", "readback"} /\ producer'.lot = producer.lot
        /\ outcome'.failures = outcome.failures
        /\ outcome'.failed = outcome.failed
    <3>1. CASE producer.event < EventsPerLot
      BY <1>0, <1>3, <3>1, ZenonT(40) DEF Post, TypeInv
    <3>2. CASE ~ (producer.event < EventsPerLot)
      <4>1. Goto("readback")
        BY <1>3, <3>2 DEF Post
      <4>2. outcome' = [outcome EXCEPT !.committed = outcome.committed \cup {producer.lot}]
        BY <1>3, <3>2 DEF Post
      <4>3. outcome'.failures = outcome.failures /\ outcome'.failed = outcome.failed
        BY <1>0, <4>2 DEF TypeInv
      <4> QED
        BY <1>0, <4>1, <4>3, GotoFacts
    <3> QED
      BY <3>1, <3>2
  <2> QED
    BY <1>0, <1>a, <1>c, <1>3, <2>1 DEF Post
<1>4. CASE PostFails \/ ReadBackFails
  <2>0. producer.lot \in Lots
    BY <1>b, <1>4 DEF PostFails, ReadBackFails
  <2>1. /\ producer'.pc = "done" /\ producer'.lot = producer.lot
        /\ outcome'.failures[producer.lot] \in LostStages
        /\ \A lot \in Lots : lot # producer.lot =>
             outcome'.failures[lot] = outcome.failures[lot]
    BY <1>0, <2>0, <1>4, GotoFacts, NoteFacts
       DEF PostFails, ReadBackFails, Finish, ProducerStages, LostStages
  <2> QED
    BY <1>0, <1>a, <2>0, <2>1, Constants DEF LostStages
<1>5. CASE ReadBack
  BY <1>0, <1>a, <1>b, <1>5, GotoFacts DEF ReadBack
<1>6. CASE SendBeforeDeadline
  <2>1. producer.pc \in {"send", "full"} /\ producer.lot \in Lots
    BY <1>b, <1>6 DEF SendBeforeDeadline
  <2>2. CASE Drops("queue_stopped") /\ Finish
    <3>1. /\ producer'.pc = "done" /\ producer'.lot = producer.lot
          /\ outcome'.failures[producer.lot] = "queue_stopped"
          /\ \A lot \in Lots : lot # producer.lot =>
               outcome'.failures[lot] = outcome.failures[lot]
          /\ outcome'.failed = outcome.failed
      BY <1>0, <2>1, <2>2, GotoFacts, NoteFacts DEF Finish, ProducerStages, Fails, Drops, TypeInv
    <3> QED
      BY <1>0, <1>a, <1>c, <2>1, <3>1, Constants
  <2>3. CASE /\ outcome' = outcome
             /\ producer'.pc \in {"count", "full", "send"} /\ producer'.lot = producer.lot
    BY <1>0, <1>a, <2>1, <2>3
  <2>4. CASE Drops("queue_saturated") /\ NextLot
    <3>1. /\ producer'.pc = "lot" /\ producer'.lot = producer.lot + 1
          /\ outcome'.failures[producer.lot] = "queue_saturated"
          /\ \A lot \in Lots : lot # producer.lot =>
               outcome'.failures[lot] = outcome.failures[lot]
          /\ outcome'.failed = outcome.failed
      BY <1>0, <2>1, <2>4, NextLotFacts, NoteFacts DEF ProducerStages, Fails, Drops, TypeInv
    <3> QED
      BY <1>0, <1>a, <1>c, <2>1, <3>1, Constants
  <2> QED
    BY <1>0, <1>6, <2>2, <2>3, <2>4, GotoFacts DEF SendBeforeDeadline, Enqueue
<1>7. CASE CountQueued
  BY <1>0, <1>a, <1>b, <1>c, <1>7, NextLotFacts, Constants DEF CountQueued
<1> QED
  BY <1>1, <1>2, <1>3, <1>4, <1>5, <1>6, <1>7 DEF Producer

\* What the producer counts, at each of its steps.
LEMMA OfferedCounters ==
  ASSUME TypeInv, NEW counter \in {"offered", "offeredEvents", "committed", "readback"},
         Count(counter)
  PROVE  /\ stats'.offered = stats.offered + (IF counter = "offered" THEN 1 ELSE 0)
         /\ stats'.offeredEvents
              = stats.offeredEvents + (IF counter = "offeredEvents" THEN 1 ELSE 0)
         /\ stats'.committed = stats.committed + (IF counter = "committed" THEN 1 ELSE 0)
         /\ stats'.readback = stats.readback + (IF counter = "readback" THEN 1 ELSE 0)
         /\ UNCHANGED <<stats.queued, stats.saturated, stats.depth>>
<1>1. stats \in [Counters -> Nat]
  BY DEF TypeInv
<1>2. /\ stats'[counter] = stats[counter] + 1
      /\ \A other \in Counters : other # counter => stats'[other] = stats[other]
  BY <1>1, CountFacts DEF Counters
<1> QED
  BY <1>1, <1>2, CounterFields DEF Counters

\* Only finitely many lots can be dropped.
LEMMA SaturatedFinite == IsFiniteSet(Saturated)
<1>1. Saturated \subseteq Lots
  BY DEF Saturated
<1>2. IsFiniteSet(Lots)
  BY Constants, FS_Interval
<1> QED
  BY <1>1, <1>2, FS_Subset

\* A lot that is dropped is one more of the saturated ones; any other note about
\* the current lot leaves them as they are.
LEMMA SaturatedFacts ==
  ASSUME TypeInv, FailuresInv, OnFabricInv, InHand, NEW stage \in ProducerStages,
         Fails(stage) \/ Drops(stage)
  PROVE  /\ stage = "queue_saturated" =>
              Cardinality(Saturated') = Cardinality(Saturated) + 1
         /\ stage # "queue_saturated" => Saturated' = Saturated
<1>1. producer.lot \in Lots /\ outcome.failures[producer.lot] = NoStage
  BY DEF FailuresInv, OnFabricInv
<1>2. producer.lot \notin Saturated
  BY <1>1 DEF Saturated, NoStage
<1>3. /\ outcome'.failures[producer.lot] = stage
      /\ \A lot \in Lots : lot # producer.lot =>
           outcome'.failures[lot] = outcome.failures[lot]
  BY <1>1, NoteFacts
<1>4. CASE stage = "queue_saturated"
  <2>1. Saturated' = Saturated \cup {producer.lot}
    BY <1>1, <1>3, <1>4 DEF Saturated
  <2> QED
    BY <1>2, <1>4, <2>1, SaturatedFinite, FS_AddElement
<1>5. CASE stage # "queue_saturated"
  BY <1>1, <1>2, <1>3, <1>5 DEF Saturated
<1> QED
  BY <1>4, <1>5

\* The counters of offered lots keep step with the producer's place.
LEMMA OfferedStep ==
  ASSUME IInv, Producer
  PROVE  OfferedInv'
<1>0. TypeInv /\ OfferedInv /\ FailuresInv /\ OnFabricInv
  BY DEF IInv, ProducerInv
<1>a. /\ producer.lot \in Nat /\ 1 <= producer.lot /\ producer.lot <= NumLots + 1
      /\ NumLots \in Nat /\ Capacity \in Nat
  BY <1>0, Constants DEF TypeInv
<1>b. /\ stats \in [Counters -> Nat]
      /\ stats.offered \in Nat /\ stats.committed \in Nat /\ stats.readback \in Nat
      /\ stats.queued \in Nat /\ stats.saturated \in Nat /\ stats.depth \in Nat
      /\ stats.received \in Nat
  BY <1>0, CounterFields DEF TypeInv
<1>c. InHand => producer.lot \in Lots /\ producer.lot <= NumLots
  BY <1>0, Constants DEF OnFabricInv
<1>d. outcome'.failures = outcome.failures => Saturated' = Saturated
  BY DEF Saturated
<1> USE DEF InHand, At, OfferedInv
<1>1. CASE OfferLot
  <2>1. outcome' = outcome /\ producer.pc = "lot"
    BY <1>1 DEF OfferLot
  <2>2. CASE Finish /\ stats' = stats
    <3>1. producer'.pc = "done" /\ producer'.lot = producer.lot
      BY <1>0, <2>2, GotoFacts DEF Finish
    <3> QED
      BY <1>0, <1>a, <1>b, <1>d, <2>1, <2>2, <3>1
  <2>3. CASE producer.lot <= NumLots /\ Goto("event") /\ Count("offered")
    <3>1. producer'.pc = "event" /\ producer'.lot = producer.lot
      BY <1>0, <2>3, GotoFacts
    <3>2. /\ stats'.offered = stats.offered + 1
          /\ stats'.committed = stats.committed
          /\ stats'.readback = stats.readback
          /\ UNCHANGED <<stats.queued, stats.saturated, stats.depth>>
      BY <1>0, <1>b, <2>3, OfferedCounters
    <3> QED
      BY <1>0, <1>a, <1>b, <1>d, <2>1, <2>3, <3>1, <3>2
  <2> QED
    BY <1>a, <1>1, <2>2, <2>3, Constants DEF OfferLot
<1>2. CASE OfferEvent
  <2>1. outcome' = outcome /\ producer.pc = "event"
    BY <1>2 DEF OfferEvent
  <2>2. /\ producer'.pc \in {"post", "done"} /\ producer'.lot = producer.lot
        /\ stats'.offered = stats.offered /\ stats'.committed = stats.committed
        /\ stats'.readback = stats.readback
        /\ UNCHANGED <<stats.queued, stats.saturated, stats.depth>>
    BY <1>0, <1>b, <1>2, GotoFacts, OfferedCounters DEF OfferEvent, Finish
  <2> QED
    BY <1>0, <1>a, <1>b, <1>c, <1>d, <2>1, <2>2
<1>3. CASE Post
  <2>1. producer.pc = "post" /\ producer.lot \in Lots
    BY <1>c, <1>3 DEF Post
  <2>2. CASE producer.event < EventsPerLot
    <3>1. /\ producer'.pc = "event" /\ producer'.lot = producer.lot
          /\ outcome' = outcome /\ stats' = stats
      BY <1>0, <1>3, <2>2 DEF Post, TypeInv
    <3> QED
      BY <1>0, <1>a, <1>b, <1>d, <2>1, <3>1
  <2>3. CASE ~ (producer.event < EventsPerLot)
    <3>1. producer'.pc = "readback" /\ producer'.lot = producer.lot
      BY <1>0, <1>3, <2>3, GotoFacts DEF Post
    <3>2. Count("committed")
      BY <1>3, <2>3 DEF Post
    <3>3. outcome'.failures = outcome.failures
      BY <1>0, <1>3, <2>3 DEF Post, TypeInv
    <3>4. /\ stats'.offered = stats.offered
          /\ stats'.committed = stats.committed + 1
          /\ stats'.readback = stats.readback
          /\ UNCHANGED <<stats.queued, stats.saturated, stats.depth>>
      BY <1>0, <1>b, <3>2, OfferedCounters
    <3> QED
      BY <1>0, <1>a, <1>b, <1>c, <1>d, <2>1, <3>1, <3>3, <3>4
  <2> QED
    BY <2>2, <2>3
<1>4. CASE PostFails \/ ReadBackFails
  <2>1. /\ producer'.pc = "done" /\ producer'.lot = producer.lot
        /\ producer.pc \in {"post", "readback"} /\ stats' = stats
    BY <1>0, <1>4, GotoFacts DEF PostFails, ReadBackFails, Finish
  <2>2. Saturated' = Saturated
    BY <1>0, <1>4, <2>1, SaturatedFacts
       DEF PostFails, ReadBackFails, ProducerStages, LostStages
  <2> QED
    BY <1>0, <1>a, <1>b, <1>c, <2>1, <2>2
<1>5. CASE ReadBack
  <2>1. producer'.pc = "send" /\ producer'.lot = producer.lot
    BY <1>0, <1>5, GotoFacts DEF ReadBack
  <2>2. Count("readback") /\ outcome' = outcome /\ producer.pc = "readback"
    BY <1>5 DEF ReadBack
  <2>3. /\ stats'.offered = stats.offered
        /\ stats'.committed = stats.committed
        /\ stats'.readback = stats.readback + 1
        /\ UNCHANGED <<stats.queued, stats.saturated, stats.depth>>
    BY <1>0, <1>b, <2>2, OfferedCounters
  <2> QED
    BY <1>0, <1>a, <1>b, <1>c, <1>d, <2>1, <2>2, <2>3
<1>6. CASE SendBeforeDeadline
  <2>1. producer.pc \in {"send", "full"} /\ producer.lot \in Lots
    BY <1>c, <1>6 DEF SendBeforeDeadline
  <2>2. CASE Drops("queue_stopped") /\ Finish /\ stats' = stats
    <3>1. producer'.pc = "done" /\ producer'.lot = producer.lot
      BY <1>0, <2>2, GotoFacts DEF Finish
    <3>2. Saturated' = Saturated
      BY <1>0, <2>1, <2>2, SaturatedFacts DEF ProducerStages
    <3> QED
      BY <1>0, <1>a, <1>b, <2>1, <2>2, <3>1, <3>2
  <2>3. CASE /\ outcome' = outcome /\ stats' = stats
             /\ producer'.pc \in {"count", "full", "send"} /\ producer'.lot = producer.lot
    BY <1>0, <1>a, <1>b, <1>d, <2>1, <2>3
  <2>4. CASE /\ Drops("queue_saturated") /\ NextLot
             /\ stats' = [stats EXCEPT !.saturated = @ + 1, !.depth = Capacity]
    <3>1. producer'.pc = "lot" /\ producer'.lot = producer.lot + 1
      BY <2>4, NextLotFacts
    <3>2. Cardinality(Saturated') = Cardinality(Saturated) + 1
      BY <1>0, <2>1, <2>4, SaturatedFacts DEF ProducerStages
    <3>3. /\ stats'.saturated = stats.saturated + 1 /\ stats'.depth = Capacity
          /\ UNCHANGED <<stats.offered, stats.committed, stats.readback, stats.queued>>
      BY <1>b, <2>4 DEF Counters
    <3>4. stats'.saturated = Cardinality(Saturated')
      BY <1>0, <3>2, <3>3
    <3>5. producer.lot <= NumLots /\ stats.readback = producer.lot
      BY <1>0, <1>c, <2>1
    <3> QED
      BY <1>0, <1>a, <1>b, <2>1, <3>1, <3>2, <3>3
  <2> QED
    BY <1>0, <1>6, <2>2, <2>3, <2>4, GotoFacts DEF SendBeforeDeadline, Enqueue
<1>7. CASE CountQueued
  <2> DEFINE depth == Max({stats.depth, Depth(stats.queued + 1, stats.received)})
  <2>1. depth \in Nat /\ depth <= Capacity
    <3>1. stats.queued + 1 \in Nat /\ stats.depth <= Capacity
      BY <1>0, <1>b
    <3> QED
      BY <1>b, <3>1, DepthFits
  <2> HIDE DEF depth
  <2>2. stats' = [stats EXCEPT !.queued = stats.queued + 1, !.depth = depth]
    BY <1>7 DEF CountQueued, depth
  <2>3. /\ stats'.queued = stats.queued + 1 /\ stats'.depth = depth
        /\ UNCHANGED <<stats.offered, stats.committed, stats.readback, stats.saturated>>
    BY <1>b, <2>2 DEF Counters
  <2>4. /\ producer'.pc = "lot" /\ producer'.lot = producer.lot + 1
        /\ producer.pc = "count" /\ outcome' = outcome
    BY <1>7, NextLotFacts DEF CountQueued
  <2> QED
    BY <1>0, <1>a, <1>b, <1>c, <1>d, <2>1, <2>3, <2>4
<1> QED
  BY <1>1, <1>2, <1>3, <1>4, <1>5, <1>6, <1>7 DEF Producer

\* The counter of offered events keeps step with it too.
LEMMA EventsStep ==
  ASSUME IInv, Producer
  PROVE  EventsInv'
<1>0. TypeInv /\ EventsInv /\ OnFabricInv
  BY DEF IInv, ProducerInv
<1>a. /\ producer.pc \in ProducerPlaces /\ producer.lot \in 1 .. NumLots + 1
      /\ producer.event \in Events
  BY <1>0 DEF TypeInv
<1>b. stats \in [Counters -> Nat] /\ stats.offeredEvents \in Nat
  BY <1>0, CounterFields DEF TypeInv
<1>c. InHand => producer.lot \in Lots
  BY <1>0 DEF OnFabricInv
<1> DEFINE Before(lot) == (lot - 1) * EventsPerLot
<1>d. \A lot \in Int : Before(lot) \in Int /\ Before(lot + 1) = Before(lot) + EventsPerLot
  BY Constants
<1>e. /\ At("lot") => stats.offeredEvents = Before(producer.lot) /\ producer.event = 1
      /\ At("event") => stats.offeredEvents = Before(producer.lot) + producer.event - 1
      /\ At("post") => stats.offeredEvents = Before(producer.lot) + producer.event
      /\ producer.pc \in {"readback", "send", "full", "count"} =>
           stats.offeredEvents = Before(producer.lot) + EventsPerLot
      /\ At("done") /\ producer.lot = NumLots + 1 =>
           stats.offeredEvents = Before(producer.lot)
  BY <1>0 DEF EventsInv, OnFabricInv
<1> SUFFICES
      /\ producer'.pc = "lot" => stats'.offeredEvents = Before(producer'.lot)
      /\ producer'.pc = "event" =>
           stats'.offeredEvents = Before(producer'.lot) + producer'.event - 1
      /\ producer'.pc = "post" =>
           stats'.offeredEvents = Before(producer'.lot) + producer'.event
      /\ producer'.pc \in {"readback", "send", "full", "count"} =>
           stats'.offeredEvents = Before(producer'.lot) + EventsPerLot
      /\ producer'.pc = "done" /\ producer'.lot = NumLots + 1 =>
           stats'.offeredEvents = Before(producer'.lot)
  BY DEF EventsInv, At
<1> HIDE DEF Before
<1> USE DEF InHand, At
<1>f. producer.lot \in Int /\ producer.event \in Nat /\ Before(producer.lot) \in Int
  <2>1. producer.lot \in Int
    BY <1>a, Constants
  <2>2. producer.event \in Nat
    BY <1>a, Constants
  <2> QED
    BY <1>d, <2>1, <2>2
<1>1. CASE OfferLot
  BY <1>0, <1>a, <1>b, <1>d, <1>e, <1>f, <1>1, GotoFacts, OfferedCounters
     DEF OfferLot, Finish
<1>2. CASE OfferEvent
  <2>1. CASE Finish /\ producer.lot \in Lots
    <3>1. producer'.pc = "done" /\ producer'.lot = producer.lot
      BY <1>0, <2>1, GotoFacts DEF Finish
    <3> QED
      BY <2>1, <3>1, Constants
  <2>2. CASE Goto("post") /\ Count("offeredEvents") /\ At("event")
    <3>1. /\ producer'.pc = "post" /\ producer'.lot = producer.lot
          /\ producer'.event = producer.event
      BY <1>0, <2>2, GotoFacts
    <3>2. stats'.offeredEvents = stats.offeredEvents + 1
      BY <1>0, <2>2, OfferedCounters
    <3> QED
      BY <1>e, <1>f, <2>2, <3>1, <3>2
  <2> QED
    BY <1>c, <1>2, <2>1, <2>2 DEF OfferEvent
<1>3. CASE Post
  <2>1. CASE producer.event < EventsPerLot
    <3>1. /\ producer'.pc = "event" /\ producer'.lot = producer.lot
          /\ producer'.event = producer.event + 1 /\ stats' = stats /\ At("post")
      BY <1>0, <1>3, <2>1 DEF Post, TypeInv
    <3> QED
      BY <1>e, <1>f, <3>1
  <2>2. CASE ~ (producer.event < EventsPerLot)
    <3>1. /\ producer'.pc = "readback" /\ producer'.lot = producer.lot
          /\ stats'.offeredEvents = stats.offeredEvents /\ At("post")
      BY <1>0, <1>b, <1>3, <2>2, GotoFacts, OfferedCounters DEF Post
    <3>2. producer.event = EventsPerLot
      BY <1>a, <2>2, Constants
    <3> QED
      BY <1>e, <1>f, <3>1, <3>2
  <2> QED
    BY <2>1, <2>2
<1>4. CASE PostFails \/ ReadBackFails
  <2>1. producer'.pc = "done" /\ producer'.lot = producer.lot /\ producer.lot \in Lots
    BY <1>0, <1>c, <1>4, GotoFacts DEF PostFails, ReadBackFails, Finish
  <2> QED
    BY <2>1, Constants
<1>5. CASE ReadBack
  BY <1>0, <1>b, <1>e, <1>f, <1>5, GotoFacts, OfferedCounters DEF ReadBack
<1>6. CASE SendBeforeDeadline
  <2>1. producer.pc \in {"send", "full"} /\ producer.lot \in Lots
    BY <1>c, <1>6 DEF SendBeforeDeadline
  <2>2. stats'.offeredEvents = stats.offeredEvents
    BY <1>b, <1>6 DEF SendBeforeDeadline, Counters
  <2>3. \/ producer'.pc \in {"send", "full", "count", "done"} /\ producer'.lot = producer.lot
        \/ producer'.pc = "lot" /\ producer'.lot = producer.lot + 1
    BY <1>0, <1>6, GotoFacts, NextLotFacts DEF SendBeforeDeadline, Enqueue, Finish
  <2> QED
    <3>1. producer.lot # NumLots + 1
      BY <2>1, Constants
    <3>2. /\ stats.offeredEvents = Before(producer.lot) + EventsPerLot
          /\ Before(producer.lot + 1) = Before(producer.lot) + EventsPerLot
      BY <1>d, <1>e, <1>f, <2>1
    <3> QED
      BY <2>2, <2>3, <3>1, <3>2
<1>7. CASE CountQueued
  <2>1. stats'.offeredEvents = stats.offeredEvents
    BY <1>b, <1>7 DEF CountQueued, Counters
  <2>2. producer'.pc = "lot" /\ producer'.lot = producer.lot + 1 /\ At("count")
    BY <1>7, NextLotFacts DEF CountQueued
  <2> QED
    BY <1>d, <1>e, <1>f, <2>1, <2>2
<1> QED
  BY <1>1, <1>2, <1>3, <1>4, <1>5, <1>6, <1>7 DEF Producer

\* The parts of ProducerInv together, over every step.
LEMMA ProducerInvStep ==
  ASSUME IInv, Next
  PROVE  ProducerInv'
<1>1. CASE Producer
  BY <1>1, OnFabricStep, FailuresStep, OfferedStep, EventsStep DEF ProducerInv
<1>2. ASSUME UNCHANGED <<producer, outcome, ledger, ProducerCounters>>
      PROVE  ProducerInv'
  <2>1. OnFabricInv'
    BY <1>2 DEF IInv, ProducerInv, OnFabricInv, InHand, At
  <2>2. FailuresInv'
    BY <1>2 DEF IInv, ProducerInv, FailuresInv, InHand, At
  <2>3. OfferedInv'
    <3>1. Saturated' = Saturated
      BY <1>2 DEF Saturated
    <3> QED
      BY <1>2, <3>1 DEF IInv, ProducerInv, OfferedInv, InHand, At, ProducerCounters
  <2>4. EventsInv'
    BY <1>2 DEF IInv, ProducerInv, EventsInv, At, ProducerCounters
  <2> QED
    BY <2>1, <2>2, <2>3, <2>4 DEF ProducerInv
<1>3. CASE Consumer
  BY <1>2, <1>3, MainKeeps DEF IInv
<1>4. CASE Finished
  BY <1>2, <1>4 DEF Finished, vars, ProducerCounters
<1> QED
  BY <1>1, <1>3, <1>4 DEF Next

-----------------------------------------------------------------------------
(* What the main thread's invariant needs to know of the producer's steps.   *)

\* A lot that was sent stays sent, and nothing more happens to it.
LEMMA SentStays ==
  ASSUME IInv, Producer, NEW lot \in Sent
  PROVE  lot \in Sent' /\ outcome'.failures[lot] = outcome.failures[lot]
<1>0. TypeInv /\ OnFabricInv
  BY DEF IInv, ProducerInv
<1>a. producer.lot \in Nat /\ lot \in Nat /\ lot \in Lots
  BY <1>0, Constants DEF TypeInv, Sent
<1>b. InHand => producer.lot \in Lots
  BY <1>0 DEF OnFabricInv
<1> USE DEF Sent, At, InHand
<1>1. CASE OfferLot \/ OfferEvent \/ ReadBack
  <2>1. producer'.lot = producer.lot /\ outcome' = outcome /\ ~ At("count")
    BY <1>0, <1>1, GotoFacts DEF OfferLot, OfferEvent, ReadBack, Finish
  <2> QED
    BY <2>1
<1>2. CASE Post
  <2>1. producer'.lot = producer.lot
    BY <1>0, <1>2, GotoFacts DEF Post, TypeInv
  <2>2. outcome'.failures = outcome.failures
    BY <1>0, <1>2 DEF Post, TypeInv
  <2> QED
    BY <1>2, <2>1, <2>2 DEF Post
<1>3. CASE PostFails \/ ReadBackFails
  <2>1. producer'.lot = producer.lot /\ producer.lot \in Lots /\ ~ At("count")
    BY <1>0, <1>b, <1>3, GotoFacts DEF PostFails, ReadBackFails, Finish
  <2>2. lot < producer.lot
    BY <2>1
  <2> QED
    BY <1>0, <1>a, <1>3, <2>1, <2>2, NoteFacts
       DEF PostFails, ReadBackFails, ProducerStages, LostStages
<1>4. CASE SendBeforeDeadline
  <2>1. producer.pc \in {"send", "full"} /\ producer.lot \in Lots
    BY <1>b, <1>4 DEF SendBeforeDeadline
  <2>2. lot < producer.lot
    BY <2>1
  <2>3. outcome'.failures[lot] = outcome.failures[lot]
    BY <1>0, <1>a, <1>4, <2>1, <2>2, NoteFacts
       DEF SendBeforeDeadline, Enqueue, ProducerStages
  <2>4. producer'.lot \in {producer.lot, producer.lot + 1}
    BY <1>0, <1>4, GotoFacts, NextLotFacts DEF SendBeforeDeadline, Enqueue, Finish
  <2> QED
    BY <1>a, <2>2, <2>3, <2>4
<1>5. CASE CountQueued
  BY <1>a, <1>5, NextLotFacts DEF CountQueued
<1> QED
  BY <1>1, <1>2, <1>3, <1>4, <1>5 DEF Producer

\* A step of the producer puts its lot in the queue, or it drops it and notes so,
\* or it counts the lot queued before, or nothing is sent at all.
Enqueues ==
  /\ At("send") /\ At("count")' /\ producer'.lot = producer.lot
  /\ Len(queue) < Capacity
  /\ queue' = Append(queue, producer.lot)
  /\ UNCHANGED <<outcome, stats>>

DropsFull ==
  /\ At("full") /\ At("lot")' /\ producer'.lot = producer.lot + 1
  /\ queue' = queue
  /\ outcome'.failures[producer.lot] = "queue_saturated"
  /\ stats'.saturated = stats.saturated + 1
  /\ stats'.queued = stats.queued

Counts ==
  /\ At("count") /\ At("lot")' /\ producer'.lot = producer.lot + 1
  /\ UNCHANGED <<queue, outcome>>
  /\ stats'.queued = stats.queued + 1
  /\ stats'.saturated = stats.saturated

Quiet ==
  /\ ~ At("count") /\ ~ At("count")' /\ producer'.lot = producer.lot
  /\ UNCHANGED <<queue, stats.queued, stats.saturated>>

\* What a step of the producer can be, and why it may end.
LEMMA ProducerMoves ==
  ASSUME IInv, Producer
  PROVE  /\ ~ At("done")
         /\ Enqueues \/ DropsFull \/ Counts \/ Quiet
         /\ At("done")' =>
              \/ producer.lot = NumLots + 1
              \/ stop
              \/ ~ Connected
              \/ outcome'.failed
<1>0. TypeInv /\ OnFabricInv
  BY DEF IInv, ProducerInv
<1>a. /\ producer.lot \in 1 .. NumLots + 1
      /\ stats \in [Counters -> Nat]
  BY <1>0, Constants DEF TypeInv
<1>b. InHand => producer.lot \in Lots
  BY <1>0 DEF OnFabricInv
<1> USE DEF At, InHand
<1>1. CASE OfferLot
  BY <1>0, <1>a, <1>1, GotoFacts, OfferedCounters, Constants DEF OfferLot, Finish, Quiet
<1>2. CASE OfferEvent
  BY <1>0, <1>2, GotoFacts, OfferedCounters DEF OfferEvent, Finish, Quiet
<1>3. CASE Post
  <2>1. CASE producer.event < EventsPerLot
    BY <1>0, <1>3, <2>1 DEF Post, TypeInv, Quiet
  <2>2. CASE ~ (producer.event < EventsPerLot)
    BY <1>0, <1>3, <2>2, GotoFacts, OfferedCounters DEF Post, Quiet
  <2> QED
    BY <2>1, <2>2
<1>4. CASE PostFails
  BY <1>0, <1>b, <1>4, GotoFacts, NoteFacts
     DEF PostFails, Finish, Quiet, ProducerStages, LostStages
<1>5. CASE ReadBack
  BY <1>0, <1>5, GotoFacts, OfferedCounters DEF ReadBack, Quiet
<1>6. CASE ReadBackFails
  BY <1>0, <1>b, <1>6, GotoFacts, NoteFacts
     DEF ReadBackFails, Finish, Quiet, ProducerStages, LostStages
<1>7. CASE SendBeforeDeadline
  <2>1. producer.pc \in {"send", "full"} /\ producer.lot \in Lots
    BY <1>b, <1>7 DEF SendBeforeDeadline
  <2>2. CASE At("send") /\ (stop \/ ~ Connected)
    BY <1>0, <1>7, <2>2, GotoFacts DEF SendBeforeDeadline, Finish, Quiet
  <2>3. CASE At("send") /\ ~ (stop \/ ~ Connected)
    BY <1>0, <1>7, <2>3, GotoFacts DEF SendBeforeDeadline, Enqueue, Enqueues, Quiet
  <2>4. CASE At("full") /\ Goto("send") /\ UNCHANGED <<queue, stats>>
    BY <1>0, <2>4, GotoFacts DEF Quiet
  <2>5. CASE /\ At("full") /\ Drops("queue_saturated") /\ NextLot /\ queue' = queue
             /\ stats' = [stats EXCEPT !.saturated = @ + 1, !.depth = Capacity]
    <3>1. stats'.saturated = stats.saturated + 1 /\ stats'.queued = stats.queued
      BY <1>a, <2>5 DEF Counters
    <3> QED
      BY <1>0, <2>1, <2>5, <3>1, NextLotFacts, NoteFacts DEF DropsFull, ProducerStages
  <2> QED
    BY <1>7, <2>2, <2>3, <2>4, <2>5 DEF SendBeforeDeadline
<1>8. CASE CountQueued
  <2>1. stats'.queued = stats.queued + 1 /\ stats'.saturated = stats.saturated
    BY <1>a, <1>8 DEF CountQueued, Counters
  <2> QED
    BY <1>8, <2>1, NextLotFacts DEF CountQueued, Counts
<1> QED
  BY <1>1, <1>2, <1>3, <1>4, <1>5, <1>6, <1>7, <1>8 DEF Producer

\* A step of the producer keeps the queue in the order of the schedule.
LEMMA QueueByProducer ==
  ASSUME IInv, Producer
  PROVE  QueueInv'
<1>0. TypeInv /\ FailuresInv /\ OnFabricInv /\ OfferedInv /\ QueueInv
  BY DEF IInv, ProducerInv, MainInv
<1>a. /\ producer.lot \in Nat /\ 1 <= producer.lot
      /\ stats.received \in Nat /\ stats.queued \in Nat /\ stats.saturated \in Nat
      /\ (\A lot \in Lots : lot \in Nat) /\ 0 \notin Lots /\ Capacity \in Nat
      /\ Len(queue) \in Nat /\ DOMAIN queue = 1 .. Len(queue)
      /\ consumer.lot \in Nat /\ consumer.lot \in Lots \cup {0}
  <2>1. stats.received \in Nat /\ stats.queued \in Nat /\ stats.saturated \in Nat
    BY <1>0, CounterFields DEF TypeInv
  <2>2. producer.lot \in 1 .. NumLots + 1 /\ consumer.lot \in Lots \cup {0}
    BY <1>0 DEF TypeInv
  <2>3. queue \in Seq(Lots) /\ Len(queue) \in Nat /\ DOMAIN queue = 1 .. Len(queue)
    BY <1>0 DEF TypeInv
  <2> QED
    BY <2>1, <2>2, <2>3, Constants
<1>b. /\ UNCHANGED <<consumer, stats.received>>
      /\ Taken' = Taken /\ Taken \in Nat
  BY <1>a, ProducerKeeps DEF IInv, mainVars, MainCounters, Taken, Main
<1>c. \A lot \in Sent :
        lot \in Sent' /\ outcome'.failures[lot] = outcome.failures[lot]
  BY SentStays
<1>d. queue \in Seq(Lots) /\ \A i \in DOMAIN queue : queue[i] \in Lots
  BY <1>0 DEF TypeInv
\* What the queue held and the main thread has is still fine.
<1>e. /\ \A i \in DOMAIN queue :
           /\ consumer'.lot < queue[i]
           /\ queue[i] \in Sent'
           /\ outcome'.failures[queue[i]] = NoStage
      /\ consumer'.lot \in Lots =>
           consumer.lot \in Sent' /\ outcome'.failures[consumer.lot] = NoStage
      /\ consumer'.pc \in {"received", "prove", "anchor", "write"} => consumer'.lot \in Lots
  BY <1>0, <1>b, <1>c, <1>d DEF QueueInv
<1>f. stats'.saturated \in Nat /\ stats.saturated <= stats'.saturated =>
        /\ consumer'.lot <= Taken' + stats'.saturated
        /\ \A i \in DOMAIN queue : queue[i] <= Taken' + i + stats'.saturated
  <2>1. \A i \in DOMAIN queue : queue[i] \in Nat /\ i \in Nat
    BY <1>a, <1>d
  <2>2. /\ consumer.lot <= Taken + stats.saturated
        /\ \A i \in DOMAIN queue : queue[i] <= Taken + i + stats.saturated
    BY <1>0 DEF QueueInv
  <2>3. PICK t, c : t = Taken /\ c = consumer.lot /\ t = Taken' /\ c = consumer'.lot
    BY <1>b
  <2>4. t \in Nat /\ c \in Nat /\ stats.saturated \in Nat
    BY <1>a, <1>b, <2>3
  <2> QED
    BY <2>1, <2>2, <2>3, <2>4
<1>1. CASE Enqueues
  <2>1. /\ producer.lot \in Lots /\ outcome.failures[producer.lot] = NoStage
        /\ stats.queued + stats.saturated = producer.lot - 1
        /\ stats.queued = Taken + Len(queue)
    BY <1>0, <1>a, <1>b, <1>1
       DEF Enqueues, OnFabricInv, FailuresInv, OfferedInv, QueueInv, InHand, At
  <2>2. producer.lot = Taken + (Len(queue) + 1) + stats.saturated
    BY <1>a, <1>b, <2>1
  <2>3. /\ \A i \in DOMAIN queue : queue[i] < producer.lot
        /\ consumer.lot < producer.lot
    BY <1>0, <1>1, <1>a, <1>d DEF Enqueues, QueueInv, Sent, At
  <2>4. /\ stats' = stats /\ outcome' = outcome
        /\ queue' = Append(queue, producer.lot)
        /\ producer'.lot = producer.lot /\ producer'.pc = "count" /\ producer.pc = "send"
        /\ Len(queue) < Capacity
    BY <1>1 DEF Enqueues, At
  <2>5. /\ Len(queue') = Len(queue) + 1 /\ DOMAIN queue' = 1 .. Len(queue) + 1
        /\ \A i \in DOMAIN queue : queue'[i] = queue[i]
        /\ queue'[Len(queue) + 1] = producer.lot
        /\ \A i \in DOMAIN queue' : i \in DOMAIN queue \/ i = Len(queue) + 1
        /\ DOMAIN queue = 1 .. Len(queue)
    BY <1>d, <2>1, <2>4
  <2>6. \A i, j \in DOMAIN queue' : i < j => queue'[i] < queue'[j]
    <3> SUFFICES ASSUME NEW i \in DOMAIN queue', NEW j \in DOMAIN queue', i < j
                 PROVE  queue'[i] < queue'[j]
      OBVIOUS
    <3>1. i \in DOMAIN queue
      BY <1>a, <2>5
    <3> QED
      BY <1>0, <2>3, <2>5, <3>1 DEF QueueInv
  <2>7. ASSUME NEW i \in DOMAIN queue'
        PROVE  /\ consumer'.lot < queue'[i]
               /\ queue'[i] \in Sent'
               /\ queue'[i] <= Taken' + i + stats'.saturated
               /\ outcome'.failures[queue'[i]] = NoStage
    <3>1. CASE i \in DOMAIN queue
      <4>1. queue'[i] = queue[i]
        BY <2>5, <3>1
      <4>2. queue[i] \in Sent'
        BY <1>e, <3>1
      <4>3. queue'[i] \in Sent'
        BY <4>1, <4>2
      <4>4. consumer'.lot < queue'[i] /\ outcome'.failures[queue'[i]] = NoStage
        BY <1>e, <3>1, <4>1
      <4>5. stats'.saturated \in Nat /\ stats.saturated <= stats'.saturated
        BY <1>a, <2>4
      <4>6. queue[i] <= Taken' + i + stats'.saturated
        BY <1>f, <3>1, <4>5
      <4> QED
        BY <4>1, <4>3, <4>4, <4>6
    <3>2. CASE i = Len(queue) + 1
      <4>1. queue'[i] = producer.lot
        BY <2>5, <3>2
      <4>2. queue'[i] \in Sent'
        BY <2>1, <2>4, <4>1 DEF Sent, At
      <4>3. consumer'.lot < queue'[i]
        BY <1>b, <2>3, <4>1
      <4>4. producer.lot <= Taken' + i + stats'.saturated
        BY <1>a, <1>b, <2>2, <2>4, <3>2
      <4>5. outcome'.failures[queue'[i]] = NoStage
        BY <2>1, <2>4, <4>1
      <4> QED
        BY <4>1, <4>2, <4>3, <4>4, <4>5
    <3> QED
      BY <2>5, <2>7, <3>1, <3>2
  <2>8. /\ stats'.queued + (IF At("count")' THEN 1 ELSE 0) = Taken' + Len(queue')
        /\ Len(queue') <= Capacity
    BY <1>a, <1>b, <2>1, <2>4, <2>5 DEF At
  <2>9. /\ consumer'.lot <= Taken' + stats'.saturated
        /\ consumer' = consumer
    BY <1>a, <1>b, <1>f, <2>4
  <2> QED
    BY <1>e, <2>6, <2>7, <2>8, <2>9 DEF QueueInv
<1>2. CASE DropsFull \/ Counts \/ Quiet
  <2>1. /\ queue' = queue
        /\ stats'.queued + (IF At("count")' THEN 1 ELSE 0)
             = stats.queued + (IF At("count") THEN 1 ELSE 0)
        /\ stats'.saturated \in Nat /\ stats.saturated <= stats'.saturated
    BY <1>a, <1>2 DEF DropsFull, Counts, Quiet, At
  <2>2. \A i \in DOMAIN queue' : queue'[i] \in Sent'
    BY <1>e, <2>1
  <2>3. consumer'.lot \in Lots => consumer'.lot \in Sent'
    BY <1>b, <1>e
  <2> QED
    BY <1>0, <1>b, <1>e, <1>f, <2>1, <2>2, <2>3 DEF QueueInv
<1> QED
  BY <1>1, <1>2, ProducerMoves

\* With the main thread's records as they were, most of its invariant is too.
LEMMA RestByProducer ==
  ASSUME IInv, Producer
  PROVE  (WorkInv /\ ChainInv /\ InStep /\ LoopInv /\ AfterInv /\ RowsInv /\ FlagsInv)'
<1>0. TypeInv /\ MainInv /\ OnFabricInv
  BY DEF IInv, ProducerInv
<1>a. /\ UNCHANGED <<stop, consumer, nullifiers, failure, rows, terminal, chain>>
      /\ stats'.received = stats.received /\ stats'.proved = stats.proved
      /\ stats'.anchored = stats.anchored
  BY <1>0, ProducerKeeps DEF mainVars, MainCounters
<1>b. OkRows' = OkRows /\ Recorded' = Recorded /\ LoopFailed' = LoopFailed
  BY <1>a DEF OkRows, Recorded, LoopFailed
<1>c. ~ At("done")
  BY ProducerMoves
<1>d. /\ chain \in Seq(Lots) /\ rows \in Seq(Row)
      /\ stats.saturated \in Nat /\ consumer.lot \in Lots \cup {0}
      /\ \A lot \in Lots : lot \in Nat
  <2>1. stats.saturated \in Nat
    BY <1>0, CounterFields DEF TypeInv
  <2>2. \A lot \in Lots : lot \in Nat
    BY Constants
  <2> QED
    BY <1>0, <2>1, <2>2 DEF TypeInv
<1>e. stats'.saturated \in Nat /\ stats.saturated <= stats'.saturated
  BY <1>d, ProducerMoves DEF Enqueues, DropsFull, Counts, Quiet
<1>1. WorkInv'
  BY <1>0, <1>a DEF MainInv, WorkInv, Main
<1>2. ChainInv'
  <2>1. ASSUME NEW i \in DOMAIN chain, chain[i] <= i + stats.saturated
        PROVE  chain[i] <= i + stats'.saturated
    <3>1. chain[i] \in Lots /\ i \in 1 .. Len(chain) /\ Len(chain) \in Nat
      BY <1>d
    <3> QED
      BY <1>d, <1>e, <2>1, <3>1
  <2> QED
    BY <1>0, <1>a, <2>1 DEF MainInv, ChainInv
<1>3. InStep'
  BY <1>0, <1>a, <1>b DEF MainInv, InStep
<1>4. LoopInv'
  BY <1>0, <1>a, <1>b DEF MainInv, LoopInv, Main
<1>5. AfterInv'
  BY <1>0, <1>a, <1>b DEF MainInv, AfterInv
<1>6. RowsInv'
  <2>1. consumer.pc \notin {"report", "done"}
    BY <1>0, <1>c DEF MainInv, FlagsInv
  <2>2. ASSUME NEW i \in DOMAIN rows, consumer.pc \notin LeftPlaces
        PROVE  outcome'.failures[rows[i].lot] = outcome.failures[rows[i].lot]
    <3>1. rows[i].lot \in Lots /\ rows[i].lot <= consumer.lot
      <4>1. consumer.pc \in LoopPlaces \cup {"ended", "join"}
        BY <1>0, <2>1, <2>2 DEF TypeInv, MainPlaces
      <4>2. rows[i] \in Row
        BY <1>d
      <4> QED
        BY <1>0, <4>1, <4>2 DEF MainInv, RowsInv, Row
    <3>2. consumer.lot \in Lots
      BY <1>d, <3>1, Constants
    <3>3. consumer.lot \in Sent
      BY <1>0, <3>2 DEF MainInv, QueueInv
    <3>4. rows[i].lot \in Sent
      BY <1>0, <3>1, <3>2, <3>3, Constants DEF Sent, TypeInv
    <3> QED
      BY <3>1, <3>4, SentStays
  <2> QED
    BY <1>0, <1>a, <2>2 DEF MainInv, RowsInv
<1>7. FlagsInv'
  <2>1. consumer.pc \notin {"report", "done"}
    BY <1>0, <1>c DEF MainInv, FlagsInv
  <2> QED
    BY <1>0, <1>a, <1>b, <2>1 DEF MainInv, FlagsInv, Main
<1> QED
  BY <1>1, <1>2, <1>3, <1>4, <1>5, <1>6, <1>7

\* A lot sent by this step is in the queue or was dropped as the queue was full.
LEMMA LosslessByProducer ==
  ASSUME IInv, Producer
  PROVE  LosslessInv'
<1> SUFFICES ASSUME Lossless'
             PROVE  /\ At("done")' => producer'.lot = NumLots + 1
                    /\ consumer'.pc \in {"ended", "join", "report", "done"} =>
                         At("done")' /\ queue' = <<>>
                    /\ \A lot \in Sent' :
                         \/ lot \in Saturated'
                         \/ \E i \in DOMAIN queue' : queue'[i] = lot
                         \/ InWork(lot)'
                         \/ \E i \in OkRows' : rows'[i].lot = lot
                    /\ \A i \in DOMAIN rows' :
                         rows'[i].status = "ok" \/ rows'[i].stage = "queue_saturated"
  BY DEF LosslessInv
<1>0. TypeInv /\ MainInv /\ OnFabricInv /\ FailuresInv
  BY DEF IInv, ProducerInv
<1>a. UNCHANGED <<stop, consumer, failure, rows>>
  BY <1>0, ProducerKeeps DEF mainVars
<1>b. OkRows' = OkRows
  BY <1>a DEF OkRows
<1>c. ~ At("done")
  BY ProducerMoves
<1>d. Lossless
  BY <1>0, <1>a, <1>c DEF Lossless, FailuresInv, TypeInv
<1>e. /\ \A lot \in Sent :
           \/ lot \in Saturated
           \/ \E i \in DOMAIN queue : queue[i] = lot
           \/ InWork(lot)
           \/ \E i \in OkRows : rows[i].lot = lot
      /\ \A i \in DOMAIN rows : rows[i].status = "ok" \/ rows[i].stage = "queue_saturated"
  BY <1>0, <1>d DEF MainInv, LosslessInv
<1>f. consumer.pc \in LoopPlaces /\ ~ stop
  BY <1>0, <1>c, <1>d DEF MainInv, LosslessInv, FlagsInv, Lossless, TypeInv, MainPlaces
<1>1. At("done")' => producer'.lot = NumLots + 1
  <2>1. Connected
    BY <1>f DEF Connected, LoopPlaces
  <2>2. At("done")' => producer.lot = NumLots + 1
    BY <1>f, <2>1, ProducerMoves DEF Lossless
  <2>3. At("done")' => producer'.lot = producer.lot
    BY ProducerMoves DEF Enqueues, DropsFull, Counts, Quiet, At
  <2> QED
    BY <2>2, <2>3
<1>2. consumer'.pc \notin {"ended", "join", "report", "done"}
  BY <1>a, <1>f DEF LoopPlaces
<1>3. ASSUME NEW lot \in Sent'
      PROVE  \/ lot \in Saturated'
             \/ \E i \in DOMAIN queue' : queue'[i] = lot
             \/ InWork(lot)'
             \/ \E i \in OkRows' : rows'[i].lot = lot
  <2>1. CASE lot \in Sent
    <3>1. lot \in Saturated => lot \in Saturated'
      BY <2>1, SentStays DEF Saturated
    <3>2. ASSUME NEW i \in DOMAIN queue
          PROVE  i \in DOMAIN queue' /\ queue'[i] = queue[i]
      <4>1. queue' = queue \/ queue' = Append(queue, producer.lot)
        BY ProducerMoves DEF Enqueues, DropsFull, Counts, Quiet
      <4>2. queue \in Seq(Lots)
        BY <1>0 DEF TypeInv
      <4> QED
        BY <4>1, <4>2
    <3>3. InWork(lot) => InWork(lot)'
      BY <1>a DEF InWork
    <3> QED
      BY <1>a, <1>b, <1>e, <2>1, <3>1, <3>2, <3>3
  <2>2. CASE lot \notin Sent
    <3>1. producer.lot \in Nat /\ lot \in Nat /\ lot \in Lots
      BY <1>0, <1>3, Constants DEF TypeInv, Sent
    <3>2. CASE Enqueues
      <4>1. lot = producer.lot
        BY <1>3, <2>2, <3>1, <3>2 DEF Sent, Enqueues, At
      <4>2. queue \in Seq(Lots) /\ queue' = Append(queue, producer.lot)
        BY <1>0, <3>2 DEF TypeInv, Enqueues
      <4>3. Len(queue) + 1 \in DOMAIN queue' /\ queue'[Len(queue) + 1] = producer.lot
        BY <4>1, <4>2
      <4> QED
        BY <4>1, <4>3
    <3>3. CASE DropsFull
      <4>1. lot = producer.lot
        BY <1>3, <2>2, <3>1, <3>3 DEF Sent, DropsFull, At
      <4> QED
        BY <3>1, <3>3, <4>1 DEF DropsFull, Saturated
    <3>4. CASE Counts \/ Quiet
      BY <1>3, <2>2, <3>1, <3>4 DEF Sent, Counts, Quiet, At
    <3> QED
      BY <3>2, <3>3, <3>4, ProducerMoves
  <2> QED
    BY <2>1, <2>2
<1> QED
  BY <1>1, <1>2, <1>3, <1>a, <1>e

-----------------------------------------------------------------------------
(* The main thread's invariant under its own steps.                          *)

\* The main loop moves to another place with the lot and the stage it has.
LEMMA MainGotoFacts ==
  ASSUME TypeInv, NEW pc, MainGoto(pc)
  PROVE  /\ consumer'.pc = pc
         /\ consumer'.lot = consumer.lot
         /\ consumer'.stage = consumer.stage
BY DEF TypeInv, MainGoto

\* A failure of the main loop is written at the lot it has.
LEMMA FailsAtFacts ==
  ASSUME TypeInv, NEW stage, FailsAt(stage)
  PROVE  /\ consumer'.pc = "write"
         /\ consumer'.lot = consumer.lot
         /\ consumer'.stage = stage
BY DEF TypeInv, FailsAt

\* One of the main loop's counters goes up, the others stay.
LEMMA MainCounts ==
  ASSUME TypeInv, NEW counter \in {"received", "proved", "anchored"}, Count(counter)
  PROVE  /\ stats'.received = stats.received + (IF counter = "received" THEN 1 ELSE 0)
         /\ stats'.proved = stats.proved + (IF counter = "proved" THEN 1 ELSE 0)
         /\ stats'.anchored = stats.anchored + (IF counter = "anchored" THEN 1 ELSE 0)
<1>1. stats \in [Counters -> Nat]
  BY DEF TypeInv
<1>2. /\ stats'[counter] = stats[counter] + 1
      /\ \A other \in Counters : other # counter => stats'[other] = stats[other]
  BY <1>1, CountFacts DEF Counters
<1> QED
  BY <1>1, <1>2, CounterFields DEF Counters

\* What the producer has and what follows from it stays.
LEMMA MainLeaves ==
  ASSUME TypeInv, Consumer
  PROVE  /\ UNCHANGED <<producer, outcome, Sent, Saturated>>
         /\ \A pc : At(pc)' = At(pc)
         /\ stats'.queued = stats.queued /\ stats'.saturated = stats.saturated
         /\ stats'.offeredEvents = stats.offeredEvents
BY MainKeeps DEF Sent, Saturated, At, ProducerCounters

\* All steps but the first two of the loop leave the queue and the lot in hand.
LEMMA MainHolds ==
  ASSUME TypeInv, Consumer, ~ Main("receive"), ~ Main("received")
  PROVE  /\ queue' = queue /\ consumer'.lot = consumer.lot
         /\ stats'.received = stats.received
         /\ ~ Main("receive")' \/ rows' # rows
         /\ ~ Main("received")'
         /\ consumer'.pc \in {"prove", "anchor", "write"} =>
              consumer.pc \in {"prove", "anchor", "write"}
<1> USE DEF Main
<1>a. stats.received \in Nat
  BY CounterFields DEF TypeInv
<1>1. CASE Prove
  BY <1>a, <1>1, MainGotoFacts, FailsAtFacts, MainCounts DEF Prove
<1>2. CASE Anchor
  BY <1>a, <1>2, MainGotoFacts, MainCounts DEF Anchor
<1>3. CASE AnchorFails
  BY <1>3, FailsAtFacts DEF AnchorFails
<1>4. CASE WriteRow
  <2>1. rows' # rows
    <3>1. \A row : Append(rows, row) # rows
      BY DEF TypeInv
    <3> QED
      BY <1>4, <3>1 DEF WriteRow
  <2> QED
    BY <1>4, <2>1, MainGotoFacts DEF WriteRow
<1>5. CASE WriteFails \/ StopOnDrop \/ EndLoop
  BY <1>5, MainGotoFacts DEF WriteFails, StopOnDrop, EndLoop
<1>6. CASE Join \/ WriteUnfinished \/ WriteTerminal
  BY <1>6, MainGotoFacts DEF Join, WriteUnfinished, WriteTerminal
<1> QED
  BY <1>1, <1>2, <1>3, <1>4, <1>5, <1>6 DEF Consumer, Receive, CountReceived

\* A step of the main loop keeps the queue in order.
LEMMA QueueByMain ==
  ASSUME IInv, Consumer
  PROVE  QueueInv'
<1>0. TypeInv /\ QueueInv
  BY DEF IInv, MainInv
<1>a. /\ UNCHANGED <<outcome, Sent>> /\ At("count")' = At("count")
      /\ stats'.queued = stats.queued /\ stats'.saturated = stats.saturated
  BY <1>0, MainLeaves
<1>b. /\ stats.received \in Nat /\ stats.queued \in Nat /\ stats.saturated \in Nat
      /\ (\A lot \in Lots : lot \in Nat) /\ 0 \notin Lots /\ Capacity \in Nat
      /\ Len(queue) \in Nat /\ DOMAIN queue = 1 .. Len(queue)
      /\ consumer.lot \in Nat
  <2>1. stats.received \in Nat /\ stats.queued \in Nat /\ stats.saturated \in Nat
    BY <1>0, CounterFields DEF TypeInv
  <2>2. consumer.lot \in Lots \cup {0} /\ Len(queue) \in Nat /\ DOMAIN queue = 1 .. Len(queue)
    BY <1>0 DEF TypeInv
  <2> QED
    BY <2>1, <2>2, Constants
<1> USE DEF Main
<1>1. CASE Main("receive") /\ queue # <<>>
  <2>1. /\ queue' = Tail(queue) /\ stats' = stats
        /\ consumer' = [pc |-> "received", lot |-> Head(queue), stage |-> NoStage]
    BY <1>1 DEF Consumer, Receive, CountReceived, Prove, Anchor, AnchorFails, WriteRow,
                WriteFails, StopOnDrop, EndLoop, Join, WriteUnfinished, WriteTerminal
  <2>2. /\ Len(queue) >= 1 /\ Len(queue') = Len(queue) - 1
        /\ DOMAIN queue' = 1 .. Len(queue) - 1
        /\ \A i \in DOMAIN queue' : queue'[i] = queue[i + 1]
        /\ Head(queue) = queue[1]
        /\ \A i \in DOMAIN queue : queue[i] \in Lots
    BY <1>0, <1>1, <2>1 DEF TypeInv
  <2>3. Taken' = Taken + 1 /\ Taken \in Nat
    BY <1>1, <1>b, <2>1 DEF Taken
  <2>4. \A i \in DOMAIN queue' : i + 1 \in DOMAIN queue /\ i \in Nat /\ 1 < i + 1
    BY <1>b, <2>2
  <2>5. 1 \in DOMAIN queue /\ consumer'.lot = queue[1]
    BY <1>b, <2>1, <2>2
  <2>6. stats'.queued + (IF At("count")' THEN 1 ELSE 0) = Taken' + Len(queue')
    <3>1. stats.queued + (IF At("count") THEN 1 ELSE 0) = Taken + Len(queue)
      BY <1>0 DEF QueueInv
    <3> QED
      BY <1>a, <1>b, <2>2, <2>3, <3>1
  <2>7. Len(queue') <= Capacity
    BY <1>0, <1>b, <2>2 DEF QueueInv
  <2>8. \A i, j \in DOMAIN queue' : i < j => queue'[i] < queue'[j]
    BY <1>0, <2>2, <2>4 DEF QueueInv
  <2>9. ASSUME NEW i \in DOMAIN queue'
        PROVE  /\ consumer'.lot < queue'[i]
               /\ queue'[i] \in Sent'
               /\ queue'[i] <= Taken' + i + stats'.saturated
               /\ outcome'.failures[queue'[i]] = NoStage
    <3>1. queue'[i] = queue[i + 1] /\ i + 1 \in DOMAIN queue /\ 1 < i + 1 /\ i \in Nat
      BY <2>2, <2>4
    <3>2. queue[1] < queue[i + 1]
      BY <1>0, <2>5, <3>1 DEF QueueInv
    <3>3. queue[i + 1] <= Taken + (i + 1) + stats.saturated
      BY <1>0, <3>1 DEF QueueInv
    <3>4. queue'[i] <= Taken' + i + stats'.saturated
      <4>1. queue[i + 1] \in Nat
        BY <1>b, <2>2, <3>1
      <4> QED
        BY <1>a, <1>b, <2>3, <3>1, <3>3, <4>1
    <3> QED
      BY <1>0, <1>a, <2>5, <3>1, <3>2, <3>4 DEF QueueInv
  <2>10. /\ consumer'.lot \in Lots
         /\ consumer'.lot \in Sent' /\ outcome'.failures[consumer'.lot] = NoStage
    BY <1>0, <1>a, <2>2, <2>5 DEF QueueInv
  <2>11. consumer'.lot <= Taken' + stats'.saturated
    <3>1. queue[1] <= Taken + 1 + stats.saturated /\ queue[1] \in Nat
      BY <1>0, <1>b, <2>2, <2>5 DEF QueueInv
    <3> QED
      BY <1>a, <1>b, <2>3, <2>5, <3>1
  <2> QED
    BY <2>6, <2>7, <2>8, <2>9, <2>10, <2>11 DEF QueueInv
<1>2. ASSUME /\ queue' = queue /\ consumer'.lot = consumer.lot /\ Taken' = Taken
             /\ consumer'.pc \in {"received", "prove", "anchor", "write"} =>
                  consumer.pc \in {"received", "prove", "anchor", "write"}
      PROVE  QueueInv'
  BY <1>0, <1>a, <1>2 DEF QueueInv
<1>3. CASE Main("receive") /\ queue = <<>>
  <2>1. MainGoto("ended") /\ queue' = queue /\ stats' = stats
    BY <1>3 DEF Consumer, Receive, CountReceived, Prove, Anchor, AnchorFails, WriteRow,
                WriteFails, StopOnDrop, EndLoop, Join, WriteUnfinished, WriteTerminal
  <2> QED
    BY <1>0, <1>2, <1>3, <2>1, MainGotoFacts DEF Taken
<1>4. CASE Main("received")
  <2>1. MainGoto("prove") /\ queue' = queue /\ Count("received")
    BY <1>4 DEF Consumer, Receive, CountReceived, Prove, Anchor, AnchorFails, WriteRow,
                WriteFails, StopOnDrop, EndLoop, Join, WriteUnfinished, WriteTerminal
  <2>2. Taken' = Taken
    BY <1>0, <1>b, <1>4, <2>1, MainGotoFacts, MainCounts DEF Taken
  <2> QED
    BY <1>0, <1>2, <1>4, <2>1, <2>2, MainGotoFacts
<1>5. CASE ~ Main("receive") /\ ~ Main("received")
  <2>1. Taken' = Taken
    BY <1>0, <1>5, MainHolds DEF Taken
  <2> QED
    BY <1>0, <1>2, <1>5, <2>1, MainHolds
<1> QED
  BY <1>1, <1>3, <1>4, <1>5

\* It keeps what is said of the lot in work.
LEMMA WorkByMain ==
  ASSUME IInv, Consumer
  PROVE  WorkInv'
<1>0. TypeInv /\ WorkInv
  BY DEF IInv, MainInv
<1>a. stats.received \in Nat /\ stats.proved \in Nat /\ stats.anchored \in Nat
  BY <1>0, CounterFields DEF TypeInv
<1> USE DEF Main, WorkInv
<1>1. CASE Receive
  BY <1>0, <1>1, MainGotoFacts DEF Receive
<1>2. CASE CountReceived
  BY <1>0, <1>a, <1>2, MainGotoFacts, MainCounts DEF CountReceived
<1>3. CASE Prove
  BY <1>0, <1>a, <1>3, MainGotoFacts, FailsAtFacts, MainCounts DEF Prove
<1>4. CASE Anchor
  BY <1>0, <1>a, <1>4, MainGotoFacts, MainCounts DEF Anchor
<1>5. CASE AnchorFails
  BY <1>0, <1>a, <1>5, FailsAtFacts DEF AnchorFails
<1>6. CASE WriteRow
  BY <1>0, <1>a, <1>6, MainGotoFacts DEF WriteRow
<1>7. CASE WriteFails \/ StopOnDrop \/ EndLoop
  BY <1>0, <1>7, MainGotoFacts DEF WriteFails, StopOnDrop, EndLoop
<1>8. CASE Join \/ WriteUnfinished \/ WriteTerminal
  BY <1>0, <1>8, MainGotoFacts DEF Join, WriteUnfinished, WriteTerminal
<1> QED
  BY <1>1, <1>2, <1>3, <1>4, <1>5, <1>6, <1>7, <1>8 DEF Consumer

\* One more row, good or not.
LEMMA AppendRow ==
  ASSUME TypeInv, NEW row, rows' = Append(rows, row)
  PROVE  /\ Len(rows) \in Nat /\ DOMAIN rows = 1 .. Len(rows)
         /\ Len(rows') = Len(rows) + 1 /\ DOMAIN rows' = 1 .. Len(rows) + 1
         /\ \A i \in DOMAIN rows : rows'[i] = rows[i]
         /\ \A i \in DOMAIN rows' : i \in DOMAIN rows \/ i = Len(rows) + 1
         /\ rows'[Len(rows) + 1] = row
         /\ row.status = "ok" => OkRows' = OkRows \cup {Len(rows) + 1}
         /\ row.status # "ok" => OkRows' = OkRows
<1>1. /\ Len(rows) \in Nat /\ DOMAIN rows = 1 .. Len(rows)
      /\ Len(rows') = Len(rows) + 1 /\ DOMAIN rows' = 1 .. Len(rows) + 1
      /\ \A i \in DOMAIN rows : rows'[i] = rows[i]
      /\ rows'[Len(rows) + 1] = row
  BY DEF TypeInv
<1>2. \A i \in DOMAIN rows' : i \in DOMAIN rows \/ i = Len(rows) + 1
  BY <1>1
<1>3. Len(rows) + 1 \in DOMAIN rows' /\ \A i \in DOMAIN rows : i \in DOMAIN rows'
  BY <1>1
<1>4. OkRows' = {i \in DOMAIN rows' : rows'[i].status = "ok"}
  BY DEF OkRows
<1>5. row.status = "ok" => OkRows' = OkRows \cup {Len(rows) + 1}
  BY <1>1, <1>2, <1>3, <1>4 DEF OkRows
<1>6. row.status # "ok" => OkRows' = OkRows
  BY <1>1, <1>2, <1>3, <1>4 DEF OkRows
<1> QED
  BY <1>1, <1>2, <1>5, <1>6

\* The row written in the loop.
LEMMA LoopRow ==
  ASSUME TypeInv, WriteRow
  PROVE  \E row : /\ rows' = Append(rows, row)
                  /\ row.lot = consumer.lot /\ row.stage = consumer.stage
                  /\ row.status = "ok" <=> consumer.stage = NoStage
<1> DEFINE row == Record(consumer.lot,
                IF consumer.stage = NoStage THEN "ok" ELSE "failed", consumer.stage)
<1>1. rows' = Append(rows, row)
  BY DEF WriteRow
<1>2. /\ row.lot = consumer.lot /\ row.stage = consumer.stage
      /\ row.status = "ok" <=> consumer.stage = NoStage
  BY DEF Record
<1> HIDE DEF row
<1> QED
  BY <1>1, <1>2

\* Numbers and sequences of the main thread, for the arithmetic below.
LEMMA MainNumbers ==
  ASSUME TypeInv
  PROVE  /\ stats.received \in Nat /\ stats.proved \in Nat /\ stats.anchored \in Nat
         /\ stats.saturated \in Nat /\ stats.queued \in Nat
         /\ consumer.lot \in Nat /\ (\A lot \in Lots : lot \in Nat /\ lot >= 1)
         /\ Len(rows) \in Nat /\ DOMAIN rows = 1 .. Len(rows)
         /\ Len(chain) \in Nat /\ DOMAIN chain = 1 .. Len(chain)
         /\ \A i \in DOMAIN chain : chain[i] \in Lots
         /\ \A i \in DOMAIN rows : rows[i].lot \in Lots
<1>1. /\ stats.received \in Nat /\ stats.proved \in Nat /\ stats.anchored \in Nat
      /\ stats.saturated \in Nat /\ stats.queued \in Nat
  BY CounterFields DEF TypeInv
<1>2. \A lot \in Lots : lot \in Nat /\ lot >= 1
  BY Constants
<1>3. consumer.lot \in Lots \cup {0}
  BY DEF TypeInv
<1>4. /\ Len(chain) \in Nat /\ DOMAIN chain = 1 .. Len(chain)
      /\ \A i \in DOMAIN chain : chain[i] \in Lots
  BY DEF TypeInv
<1>5. /\ Len(rows) \in Nat /\ DOMAIN rows = 1 .. Len(rows)
      /\ \A i \in DOMAIN rows : rows[i] \in Row
  BY DEF TypeInv
<1>6. \A i \in DOMAIN rows : rows[i].lot \in Lots
  BY <1>5 DEF Row
<1> QED
  BY <1>1, <1>2, <1>3, <1>4, <1>5, <1>6

\* A lot anchored is the next of the chain, in order and where it should be.
LEMMA ChainGrows ==
  ASSUME IInv, Main("anchor"), chain' = Append(chain, consumer.lot),
         consumer'.lot = consumer.lot, consumer'.pc = "write",
         stats'.saturated = stats.saturated
  PROVE  /\ ChainInv'
         /\ Len(chain') = Len(chain) + 1 /\ DOMAIN chain' = 1 .. Len(chain) + 1
         /\ \A i \in DOMAIN chain : chain'[i] = chain[i]
         /\ chain'[Len(chain) + 1] = consumer.lot
<1>0. TypeInv /\ QueueInv /\ ChainInv /\ LoopInv
  BY DEF IInv, MainInv
<1>a. /\ stats.received \in Nat /\ stats.saturated \in Nat /\ consumer.lot \in Nat
      /\ (\A lot \in Lots : lot \in Nat /\ lot >= 1)
      /\ Len(chain) \in Nat /\ DOMAIN chain = 1 .. Len(chain)
      /\ \A i \in DOMAIN chain : chain[i] \in Lots
  BY <1>0, MainNumbers
<1>b. consumer.lot \in Lots
  BY <1>0 DEF QueueInv, Main
<1>1. /\ Len(chain') = Len(chain) + 1 /\ DOMAIN chain' = 1 .. Len(chain) + 1
      /\ \A i \in DOMAIN chain : chain'[i] = chain[i]
      /\ chain'[Len(chain) + 1] = consumer.lot
  BY <1>0, <1>b DEF TypeInv
<1>2. \A i \in DOMAIN chain' : i \in DOMAIN chain \/ i = Len(chain) + 1
  BY <1>a, <1>1
<1>3. \A i \in DOMAIN chain : chain[i] < consumer.lot
  BY <1>0 DEF ChainInv, Main
<1>4. consumer.lot <= Len(chain) + 1 + stats.saturated
  <2>1. stats.received = Len(chain) + 1
    BY <1>0 DEF LoopInv, LoopPlaces, Main
  <2>2. Taken = stats.received
    BY <1>a DEF Taken, Main
  <2> QED
    BY <1>0, <1>a, <2>1, <2>2 DEF QueueInv
<1>5. Len(chain) + 1 <= consumer.lot
  <2>1. CASE Len(chain) = 0
    BY <1>a, <1>b, <2>1
  <2>2. CASE Len(chain) # 0
    <3>1. Len(chain) \in DOMAIN chain
      BY <1>a, <2>2
    <3>2. Len(chain) <= chain[Len(chain)] /\ chain[Len(chain)] \in Nat
      BY <1>0, <1>a, <3>1 DEF ChainInv
    <3> QED
      BY <1>a, <1>3, <3>1, <3>2
  <2> QED
    BY <2>1, <2>2
<1>6. \A i, j \in DOMAIN chain' : i < j => chain'[i] < chain'[j]
  <2> SUFFICES ASSUME NEW i \in DOMAIN chain', NEW j \in DOMAIN chain', i < j
               PROVE  chain'[i] < chain'[j]
    OBVIOUS
  <2>1. i \in DOMAIN chain
    BY <1>a, <1>1
  <2> QED
    BY <1>0, <1>1, <1>2, <1>3, <2>1 DEF ChainInv
<1>7. ASSUME NEW i \in DOMAIN chain'
      PROVE  /\ i <= chain'[i] /\ chain'[i] <= i + stats'.saturated
             /\ chain'[i] <= consumer'.lot
  <2>1. CASE i \in DOMAIN chain
    <3>1. chain'[i] = chain[i] /\ chain[i] \in Nat
      BY <1>a, <1>1, <2>1
    <3> QED
      BY <1>0, <2>1, <3>1 DEF ChainInv
  <2>2. CASE i = Len(chain) + 1
    BY <1>a, <1>1, <1>4, <1>5, <2>2
  <2> QED
    BY <1>2, <1>7, <2>1, <2>2
<1>8. ChainInv'
  BY <1>6, <1>7 DEF ChainInv
<1> QED
  BY <1>1, <1>8

\* It keeps the chain in the order of the schedule.
LEMMA ChainByMain ==
  ASSUME IInv, Consumer
  PROVE  ChainInv'
<1>0. TypeInv /\ ChainInv /\ QueueInv
  BY DEF IInv, MainInv
<1>a. stats'.saturated = stats.saturated
  BY <1>0, MainLeaves
<1>b. ASSUME chain' = chain, consumer'.lot = consumer.lot,
             consumer'.pc \in {"received", "prove", "anchor"} =>
               consumer.pc \in {"received", "prove", "anchor"}
      PROVE  ChainInv'
  BY <1>0, <1>a, <1>b DEF ChainInv
<1> USE DEF Main
<1>1. CASE Receive
  <2>1. CASE queue = <<>>
    BY <1>0, <1>b, <1>1, <2>1, MainGotoFacts DEF Receive
  <2>2. CASE queue # <<>>
    <3>1. /\ chain' = chain
          /\ consumer' = [pc |-> "received", lot |-> Head(queue), stage |-> NoStage]
      BY <1>1, <2>2 DEF Receive
    <3>2. 1 \in DOMAIN queue /\ Head(queue) = queue[1] /\ queue[1] \in Lots
      BY <1>0, <2>2 DEF TypeInv
    <3>3. consumer.lot < queue[1]
      BY <1>0, <3>2 DEF QueueInv
    <3>4. /\ consumer.lot \in Nat /\ (\A lot \in Lots : lot \in Nat)
          /\ \A i \in DOMAIN chain : chain[i] \in Lots
      BY <1>0, MainNumbers
    <3>5. ASSUME NEW i \in DOMAIN chain, chain[i] <= consumer.lot
          PROVE  chain[i] < queue[1] /\ chain[i] <= queue[1]
      BY <3>2, <3>3, <3>4, <3>5
    <3> QED
      BY <1>0, <1>a, <3>1, <3>2, <3>5 DEF ChainInv
  <2> QED
    BY <2>1, <2>2
<1>2. CASE CountReceived
  BY <1>0, <1>b, <1>2, MainGotoFacts DEF CountReceived
<1>3. CASE Prove
  BY <1>0, <1>b, <1>3, MainGotoFacts, FailsAtFacts DEF Prove
<1>4. CASE Anchor
  BY <1>0, <1>a, <1>4, MainGotoFacts, ChainGrows DEF Anchor
<1>5. CASE AnchorFails
  BY <1>0, <1>a, <1>b, <1>5, FailsAtFacts, ChainGrows DEF AnchorFails
<1>6. CASE WriteRow \/ WriteFails \/ StopOnDrop \/ EndLoop
  BY <1>0, <1>b, <1>6, MainGotoFacts DEF WriteRow, WriteFails, StopOnDrop, EndLoop
<1>7. CASE Join \/ WriteTerminal
  BY <1>0, <1>b, <1>7, MainGotoFacts DEF Join, WriteTerminal
<1>8. CASE WriteUnfinished
  BY <1>0, <1>b, <1>8 DEF WriteUnfinished
<1> QED
  BY <1>1, <1>2, <1>3, <1>4, <1>5, <1>6, <1>7, <1>8 DEF Consumer

\* It keeps the rows in step with the chain.
LEMMA InStepByMain ==
  ASSUME IInv, Consumer
  PROVE  InStep'
<1>0. TypeInv /\ InStep /\ LoopInv
  BY DEF IInv, MainInv
<1>a. /\ Len(rows) \in Nat /\ DOMAIN rows = 1 .. Len(rows)
      /\ Len(chain) \in Nat /\ DOMAIN chain = 1 .. Len(chain)
  BY <1>0, MainNumbers
<1>b. ASSUME chain' = chain, consumer'.lot = consumer.lot, rows' = rows
      PROVE  InStep'
  BY <1>0, <1>b DEF InStep, OkRows
<1>c. OkRows \subseteq DOMAIN rows
  BY DEF OkRows
<1>d. ASSUME Main("anchor")
      PROVE  OkRows = DOMAIN rows /\ Len(chain) = Len(rows)
  BY <1>0, <1>d DEF LoopInv, LoopPlaces, Main
<1>e. ASSUME Main("anchor"), chain' = Append(chain, consumer.lot), rows' = rows,
             consumer'.lot = consumer.lot, consumer'.pc = "write",
             stats'.saturated = stats.saturated
      PROVE  InStep'
  <2>1. /\ Len(chain') = Len(chain) + 1 /\ DOMAIN chain' = 1 .. Len(chain) + 1
        /\ \A i \in DOMAIN chain : chain'[i] = chain[i]
        /\ chain'[Len(chain) + 1] = consumer.lot
    BY <1>e, ChainGrows
  <2>2. \A i \in DOMAIN chain' \ OkRows : i = Len(chain) + 1
    BY <1>a, <1>d, <1>e, <2>1
  <2>3. \A i \in OkRows : i \in DOMAIN chain /\ i \in DOMAIN chain' /\ rows[i].lot = chain'[i]
    BY <1>0, <1>a, <2>1 DEF InStep
  <2> QED
    BY <1>e, <2>1, <2>2, <2>3 DEF InStep, OkRows
<1>1. CASE Receive
  <2>1. chain' = chain /\ rows' = rows /\ Main("receive")
    BY <1>1 DEF Receive
  <2>2. DOMAIN chain = OkRows
    BY <1>0, <1>a, <2>1 DEF LoopInv, LoopPlaces, Main
  <2> QED
    BY <1>0, <2>1, <2>2 DEF InStep, OkRows
<1>2. CASE CountReceived
  BY <1>0, <1>b, <1>2, MainGotoFacts DEF CountReceived
<1>3. CASE Prove
  BY <1>0, <1>b, <1>3, MainGotoFacts, FailsAtFacts DEF Prove
<1>4. CASE Anchor
  BY <1>0, <1>e, <1>4, MainGotoFacts, MainLeaves DEF Anchor
<1>5. CASE AnchorFails
  BY <1>0, <1>b, <1>e, <1>5, FailsAtFacts, MainLeaves DEF AnchorFails
<1>6. CASE WriteRow
  <2>1. PICK row : /\ rows' = Append(rows, row)
                   /\ row.lot = consumer.lot
                   /\ row.status = "ok" <=> consumer.stage = NoStage
    BY <1>0, <1>6, LoopRow
  <2>2. chain' = chain /\ consumer'.lot = consumer.lot /\ Main("write")
    BY <1>0, <1>6, MainGotoFacts DEF WriteRow
  <2>3. /\ \A i \in DOMAIN rows : rows'[i] = rows[i]
        /\ rows'[Len(rows) + 1] = row
        /\ row.status = "ok" => OkRows' = OkRows \cup {Len(rows) + 1}
        /\ row.status # "ok" => OkRows' = OkRows
    BY <1>0, <2>1, AppendRow
  <2>4. row.status = "ok" =>
          Len(rows) + 1 = Len(chain) /\ chain[Len(chain)] = consumer.lot
    BY <1>0, <2>1, <2>2 DEF LoopInv, LoopPlaces, Main
  <2>5. \A i \in OkRows' : i \in DOMAIN chain /\ rows'[i].lot = chain[i]
    <3>1. \A i \in OkRows : i \in DOMAIN chain /\ rows'[i].lot = chain[i]
      BY <1>0, <1>c, <2>3 DEF InStep
    <3>2. row.status = "ok" => Len(rows) + 1 \in DOMAIN chain
      BY <1>a, <2>4
    <3> QED
      BY <2>1, <2>3, <2>4, <3>1, <3>2
  <2> QED
    BY <1>0, <2>2, <2>3, <2>5 DEF InStep
<1>7. CASE WriteFails \/ StopOnDrop \/ EndLoop
  BY <1>0, <1>b, <1>7, MainGotoFacts DEF WriteFails, StopOnDrop, EndLoop
<1>8. CASE Join \/ WriteTerminal
  BY <1>0, <1>b, <1>8, MainGotoFacts DEF Join, WriteTerminal
<1>9. CASE WriteUnfinished
  <2>1. PICK lot \in Lots : rows' = Append(rows, Unfinished(lot))
    BY <1>9 DEF WriteUnfinished
  <2>2. Unfinished(lot).status # "ok"
    BY DEF Unfinished, Record
  <2>3. OkRows' = OkRows /\ \A i \in DOMAIN rows : rows'[i] = rows[i]
    BY <1>0, <2>1, <2>2, AppendRow
  <2>4. chain' = chain /\ consumer' = consumer
    BY <1>9 DEF WriteUnfinished
  <2> QED
    BY <1>0, <1>c, <2>3, <2>4 DEF InStep
<1> QED
  BY <1>1, <1>2, <1>3, <1>4, <1>5, <1>6, <1>7, <1>8, <1>9 DEF Consumer

\* It keeps the counters of the loop in step with its place.
LEMMA LoopByMain ==
  ASSUME IInv, Consumer
  PROVE  LoopInv'
<1>0. TypeInv /\ LoopInv /\ QueueInv /\ RowsInv
  BY DEF IInv, MainInv
<1>a. /\ Len(rows) \in Nat /\ DOMAIN rows = 1 .. Len(rows)
      /\ Len(chain) \in Nat /\ DOMAIN chain = 1 .. Len(chain)
      /\ stats.received \in Nat /\ stats.anchored \in Nat
      /\ consumer.lot \in Nat /\ (\A lot \in Lots : lot \in Nat)
      /\ \A i \in DOMAIN rows : rows[i].lot \in Lots
  BY <1>0, MainNumbers
<1> USE DEF Main, LoopPlaces
<1>1. CASE Receive
  <2>1. CASE queue = <<>>
    BY <1>0, <1>1, <2>1, MainGotoFacts DEF Receive, LoopInv
  <2>2. CASE queue # <<>>
    <3>1. /\ chain' = chain /\ rows' = rows /\ stats' = stats
          /\ consumer' = [pc |-> "received", lot |-> Head(queue), stage |-> NoStage]
          /\ consumer.pc = "receive"
      BY <1>1, <2>2 DEF Receive
    <3>2. 1 \in DOMAIN queue /\ Head(queue) = queue[1] /\ queue[1] \in Lots
      BY <1>0, <2>2 DEF TypeInv
    <3>3. consumer.lot < queue[1]
      BY <1>0, <3>2 DEF QueueInv
    <3>4. \A i \in DOMAIN rows : rows[i].lot < queue[1]
      <4> SUFFICES ASSUME NEW i \in DOMAIN rows PROVE rows[i].lot < queue[1]
        OBVIOUS
      <4>1. rows[i].lot <= consumer.lot
        BY <1>0, <3>1 DEF RowsInv
      <4>2. rows[i].lot \in Nat /\ queue[1] \in Nat
        BY <1>a, <3>2
      <4> QED
        BY <1>a, <3>3, <4>1, <4>2
    <3>5. /\ consumer'.pc = "received" /\ consumer'.lot = queue[1]
          /\ consumer'.stage = NoStage /\ OkRows' = OkRows
      BY <3>1, <3>2 DEF OkRows
    <3> QED
      BY <1>0, <3>1, <3>4, <3>5 DEF LoopInv
  <2> QED
    BY <2>1, <2>2
<1>2. CASE CountReceived
  <2>1. /\ consumer'.pc = "prove" /\ consumer'.lot = consumer.lot
        /\ consumer'.stage = consumer.stage
        /\ stats'.received = stats.received + 1 /\ stats'.anchored = stats.anchored
    BY <1>0, <1>a, <1>2, MainGotoFacts, MainCounts DEF CountReceived
  <2>2. rows' = rows /\ chain' = chain /\ OkRows' = OkRows /\ consumer.pc = "received"
    BY <1>2 DEF CountReceived, OkRows
  <2> QED
    BY <1>0, <1>a, <2>1, <2>2 DEF LoopInv
<1>3. CASE Prove
  <2>1. /\ rows' = rows /\ chain' = chain /\ OkRows' = OkRows /\ consumer.pc = "prove"
        /\ consumer'.lot = consumer.lot
        /\ stats'.received = stats.received /\ stats'.anchored = stats.anchored
    BY <1>0, <1>a, <1>3, MainGotoFacts, FailsAtFacts, MainCounts DEF Prove, OkRows
  <2>2. \/ consumer'.pc = "anchor" /\ consumer'.stage = consumer.stage
        \/ consumer'.pc = "write" /\ consumer'.stage # NoStage
    BY <1>0, <1>3, MainGotoFacts, FailsAtFacts DEF Prove, NoStage
  <2> QED
    BY <1>0, <1>a, <2>1, <2>2 DEF LoopInv
<1>4. CASE Anchor
  <2>1. /\ consumer'.pc = "write" /\ consumer'.lot = consumer.lot
        /\ consumer'.stage = consumer.stage
        /\ stats'.received = stats.received /\ stats'.anchored = stats.anchored + 1
    BY <1>0, <1>a, <1>4, MainGotoFacts, MainCounts DEF Anchor
  <2>2. rows' = rows /\ OkRows' = OkRows /\ consumer.pc = "anchor"
    BY <1>4 DEF Anchor, OkRows
  <2>3. Len(chain') = Len(chain) + 1 /\ chain'[Len(chain) + 1] = consumer.lot
    BY <1>0, <1>4, <2>1, MainLeaves, ChainGrows DEF Anchor
  <2> QED
    BY <1>0, <1>a, <2>1, <2>2, <2>3 DEF LoopInv
<1>5. CASE AnchorFails
  <2>1. /\ consumer'.pc = "write" /\ consumer'.lot = consumer.lot
        /\ consumer'.stage # NoStage /\ stats' = stats
    BY <1>0, <1>5, FailsAtFacts DEF AnchorFails, NoStage
  <2>2. rows' = rows /\ OkRows' = OkRows /\ consumer.pc = "anchor"
    BY <1>5 DEF AnchorFails, OkRows
  <2> QED
    BY <1>0, <1>a, <2>1, <2>2 DEF LoopInv
<1>6. CASE WriteRow
  <2>1. PICK row : /\ rows' = Append(rows, row)
                   /\ row.lot = consumer.lot
                   /\ row.status = "ok" <=> consumer.stage = NoStage
    BY <1>0, <1>6, LoopRow
  <2>2. chain' = chain /\ stats' = stats /\ consumer.pc = "write"
    BY <1>6 DEF WriteRow
  <2>3. CASE consumer.stage # NoStage
    BY <1>0, <1>6, <2>3, MainGotoFacts DEF WriteRow, LoopInv
  <2>4. CASE consumer.stage = NoStage
    <3>1. /\ consumer'.pc = "receive" /\ consumer'.lot = consumer.lot
          /\ consumer'.stage = NoStage
      BY <1>0, <1>6, <2>4, MainGotoFacts DEF WriteRow
    <3>2. /\ Len(rows') = Len(rows) + 1 /\ DOMAIN rows' = 1 .. Len(rows) + 1
          /\ OkRows' = OkRows \cup {Len(rows) + 1}
      BY <1>0, <2>1, <2>4, AppendRow
    <3>3. /\ OkRows = DOMAIN rows /\ Len(chain) = Len(rows) + 1
          /\ stats.anchored = Len(rows) + 1
      BY <1>0, <2>2, <2>4 DEF LoopInv
    <3>4. OkRows' = DOMAIN rows'
      BY <1>a, <3>2, <3>3
    <3>5. stats.received = Len(rows) + 1
      BY <1>0, <2>2, <2>4 DEF LoopInv
    <3> QED
      BY <1>a, <2>2, <3>1, <3>2, <3>3, <3>4, <3>5 DEF LoopInv
  <2> QED
    BY <2>3, <2>4
<1>7. CASE WriteFails \/ StopOnDrop \/ EndLoop
  BY <1>0, <1>7, MainGotoFacts DEF WriteFails, StopOnDrop, EndLoop, LoopInv
<1>8. CASE Join \/ WriteTerminal
  BY <1>0, <1>8, MainGotoFacts DEF Join, WriteTerminal, LoopInv
<1>9. CASE WriteUnfinished
  BY <1>9 DEF WriteUnfinished, LoopInv
<1> QED
  BY <1>1, <1>2, <1>3, <1>4, <1>5, <1>6, <1>7, <1>8, <1>9 DEF Consumer

\* It keeps what is known after the loop.
LEMMA AfterByMain ==
  ASSUME IInv, Consumer
  PROVE  AfterInv'
<1>0. TypeInv /\ LoopInv /\ AfterInv
  BY DEF IInv, MainInv
<1>a. Len(rows) \in Nat /\ DOMAIN rows = 1 .. Len(rows)
  BY <1>0, MainNumbers
<1>b. ASSUME rows' = rows, stats' = stats,
             consumer.pc \notin LoopPlaces \cup LeftPlaces \/ consumer'.pc \in LeftPlaces
      PROVE  AfterInv'
  BY <1>0, <1>b DEF AfterInv, OkRows
<1> USE DEF Main, LoopPlaces, LeftPlaces
<1>1. CASE Receive
  <2>1. CASE queue = <<>>
    <3>1. OkRows = 1 .. stats.anchored
      BY <1>0, <1>a, <1>1 DEF Receive, LoopInv
    <3> QED
      BY <1>1, <3>1, <2>1 DEF Receive, AfterInv, OkRows
  <2>2. CASE queue # <<>>
    BY <1>1, <2>2 DEF Receive, AfterInv
  <2> QED
    BY <2>1, <2>2
<1>2. CASE CountReceived
  BY <1>0, <1>2, MainGotoFacts DEF CountReceived, AfterInv
<1>3. CASE Prove
  BY <1>0, <1>3, MainGotoFacts, FailsAtFacts DEF Prove, AfterInv
<1>4. CASE Anchor
  BY <1>0, <1>4, MainGotoFacts DEF Anchor, AfterInv
<1>5. CASE AnchorFails
  BY <1>0, <1>5, FailsAtFacts DEF AnchorFails, AfterInv
<1>6. CASE WriteRow
  <2>1. CASE consumer.stage = NoStage
    BY <1>0, <1>6, <2>1, MainGotoFacts DEF WriteRow, AfterInv
  <2>2. CASE consumer.stage # NoStage
    <3>1. PICK row : /\ rows' = Append(rows, row)
                     /\ row.status = "ok" <=> consumer.stage = NoStage
      BY <1>0, <1>6, LoopRow
    <3>2. OkRows' = OkRows
      BY <1>0, <2>2, <3>1, AppendRow
    <3>3. OkRows = 1 .. stats.anchored /\ stats' = stats
      BY <1>0, <1>a, <1>6, <2>2 DEF LoopInv, WriteRow
    <3> QED
      BY <3>2, <3>3 DEF AfterInv
  <2> QED
    BY <2>1, <2>2
<1>7. CASE WriteFails \/ StopOnDrop
  BY <1>0, <1>b, <1>7, MainGotoFacts DEF WriteFails, StopOnDrop
<1>8. CASE EndLoop \/ Join \/ WriteTerminal
  BY <1>0, <1>b, <1>8, MainGotoFacts DEF EndLoop, Join, WriteTerminal
<1>9. CASE WriteUnfinished
  <2>1. PICK lot \in Lots : rows' = Append(rows, Unfinished(lot))
    BY <1>9 DEF WriteUnfinished
  <2>2. Unfinished(lot).status # "ok"
    BY DEF Unfinished, Record
  <2>3. OkRows' = OkRows
    BY <1>0, <2>1, <2>2, AppendRow
  <2> QED
    BY <1>0, <1>9, <2>3 DEF WriteUnfinished, AfterInv
<1> QED
  BY <1>1, <1>2, <1>3, <1>4, <1>5, <1>6, <1>7, <1>8, <1>9 DEF Consumer

\* The row of a lot that was not reached says what the producer noted.
LEMMA UnfinishedFacts ==
  ASSUME TypeInv, NEW lot \in Lots
  PROVE  LET row == Unfinished(lot)
         IN  /\ row.lot = lot /\ row.status # "ok" /\ row.stage # NoStage
             /\ outcome.failures[lot] # NoStage => row.stage = outcome.failures[lot]
             /\ outcome.failures[lot] = NoStage => row.stage # "queue_saturated"
BY DEF Unfinished, Record, NoStage

\* It writes a row of a lot once only.
LEMMA RowsByMain ==
  ASSUME IInv, Consumer
  PROVE  RowsInv'
<1>0. TypeInv /\ RowsInv /\ QueueInv /\ LoopInv
  BY DEF IInv, MainInv
<1>a. outcome' = outcome
  BY <1>0, MainLeaves
<1>b. /\ Len(rows) \in Nat /\ DOMAIN rows = 1 .. Len(rows)
      /\ consumer.lot \in Nat /\ (\A lot \in Lots : lot \in Nat)
      /\ \A i \in DOMAIN rows : rows[i].lot \in Lots
  BY <1>0, MainNumbers
<1>c. ASSUME rows' = rows, consumer'.lot = consumer.lot,
             \/ consumer.pc \in LoopPlaces \cup {"ended", "join"}
             \/ consumer'.pc \notin LoopPlaces \cup {"ended", "join"},
             consumer.pc \notin LeftPlaces \/ consumer'.pc \in LeftPlaces
      PROVE  RowsInv'
  BY <1>0, <1>a, <1>c DEF RowsInv
<1> USE DEF Main, LoopPlaces, LeftPlaces
<1>1. CASE Receive
  <2>1. CASE queue = <<>>
    BY <1>0, <1>c, <1>1, <2>1, MainGotoFacts DEF Receive
  <2>2. CASE queue # <<>>
    <3>1. /\ rows' = rows /\ consumer.pc = "receive"
          /\ consumer' = [pc |-> "received", lot |-> Head(queue), stage |-> NoStage]
      BY <1>1, <2>2 DEF Receive
    <3>2. 1 \in DOMAIN queue /\ Head(queue) = queue[1] /\ queue[1] \in Lots
      BY <1>0, <2>2 DEF TypeInv
    <3>3. consumer.lot < queue[1]
      BY <1>0, <3>2 DEF QueueInv
    <3>4. \A i \in DOMAIN rows : rows[i].lot <= queue[1]
      <4> SUFFICES ASSUME NEW i \in DOMAIN rows PROVE rows[i].lot <= queue[1]
        OBVIOUS
      <4>1. rows[i].lot <= consumer.lot
        BY <1>0, <3>1 DEF RowsInv
      <4>2. rows[i].lot \in Nat /\ queue[1] \in Nat
        BY <1>b, <3>2
      <4> QED
        BY <1>b, <3>3, <4>1, <4>2
    <3> QED
      BY <1>0, <1>a, <3>1, <3>2, <3>4 DEF RowsInv
  <2> QED
    BY <2>1, <2>2
<1>2. CASE CountReceived
  BY <1>0, <1>c, <1>2, MainGotoFacts DEF CountReceived
<1>3. CASE Prove
  BY <1>0, <1>c, <1>3, MainGotoFacts, FailsAtFacts DEF Prove
<1>4. CASE Anchor
  BY <1>0, <1>c, <1>4, MainGotoFacts DEF Anchor
<1>5. CASE AnchorFails
  BY <1>0, <1>c, <1>5, FailsAtFacts DEF AnchorFails
<1>6. CASE WriteRow
  <2>1. PICK row : /\ rows' = Append(rows, row)
                   /\ row.lot = consumer.lot /\ row.stage = consumer.stage
                   /\ row.status = "ok" <=> consumer.stage = NoStage
    BY <1>0, <1>6, LoopRow
  <2>2. consumer.pc = "write" /\ consumer'.lot = consumer.lot
    BY <1>0, <1>6, MainGotoFacts DEF WriteRow
  <2>3. /\ \A i \in DOMAIN rows : rows'[i] = rows[i]
        /\ \A i \in DOMAIN rows' : i \in DOMAIN rows \/ i = Len(rows) + 1
        /\ rows'[Len(rows) + 1] = row
    BY <1>0, <2>1, AppendRow
  <2>4. /\ outcome.failures[consumer.lot] = NoStage
        /\ consumer.stage # "queue_saturated"
    BY <1>0, <2>2 DEF QueueInv, TypeInv, LoopStages, NoStage
  <2>5. \A i \in DOMAIN rows : rows[i].lot < consumer.lot
    BY <1>0, <2>2 DEF LoopInv
  <2>6. \A i \in DOMAIN rows :
          rows[i].lot # consumer.lot /\ rows[i].lot <= consumer.lot
    BY <1>b, <2>5
  <2>7. \A i, j \in DOMAIN rows' : i # j => rows'[i].lot # rows'[j].lot
    BY <1>0, <2>1, <2>3, <2>6 DEF RowsInv
  <2>8. \A i \in DOMAIN rows' : rows'[i].lot <= consumer'.lot
    BY <1>b, <2>1, <2>2, <2>3, <2>6
  <2>9. \A i \in DOMAIN rows' :
          /\ rows'[i].status = "ok" <=> rows'[i].stage = NoStage
          /\ outcome.failures[rows'[i].lot] = NoStage =>
               rows'[i].stage # "queue_saturated"
          /\ outcome.failures[rows'[i].lot] # NoStage =>
               rows'[i].stage = outcome.failures[rows'[i].lot]
    BY <1>0, <2>1, <2>2, <2>3, <2>4 DEF RowsInv
  <2> QED
    BY <1>a, <2>7, <2>8, <2>9 DEF RowsInv
<1>7. CASE WriteFails \/ StopOnDrop
  BY <1>0, <1>c, <1>7, MainGotoFacts DEF WriteFails, StopOnDrop
<1>8. CASE EndLoop \/ Join \/ WriteTerminal
  BY <1>0, <1>c, <1>8, MainGotoFacts DEF EndLoop, Join, WriteTerminal
<1>9. CASE WriteUnfinished
  <2>1. PICK lot \in Lots \ Recorded : rows' = Append(rows, Unfinished(lot))
    BY <1>9 DEF WriteUnfinished
  <2>2. consumer' = consumer /\ consumer.pc = "report"
    BY <1>9 DEF WriteUnfinished
  <2> DEFINE row == Unfinished(lot)
  <2>3. /\ row.lot = lot /\ row.status # "ok" /\ row.stage # NoStage
        /\ outcome.failures[lot] # NoStage => row.stage = outcome.failures[lot]
        /\ outcome.failures[lot] = NoStage => row.stage # "queue_saturated"
    BY <1>0, UnfinishedFacts
  <2>4. rows' = Append(rows, row)
    BY <2>1
  <2> HIDE DEF row
  <2>5. /\ \A i \in DOMAIN rows : rows'[i] = rows[i]
        /\ \A i \in DOMAIN rows' : i \in DOMAIN rows \/ i = Len(rows) + 1
        /\ rows'[Len(rows) + 1] = row
    BY <1>0, <2>4, AppendRow
  <2>6. \A i \in DOMAIN rows : rows[i].lot # lot
    BY DEF Recorded
  <2>7. \A i, j \in DOMAIN rows' : i # j => rows'[i].lot # rows'[j].lot
    BY <1>0, <2>3, <2>5, <2>6 DEF RowsInv
  <2>8. \A i \in DOMAIN rows' :
          /\ rows'[i].status = "ok" <=> rows'[i].stage = NoStage
          /\ outcome.failures[rows'[i].lot] = NoStage =>
               rows'[i].stage # "queue_saturated"
          /\ outcome.failures[rows'[i].lot] # NoStage =>
               rows'[i].stage = outcome.failures[rows'[i].lot]
    BY <1>0, <2>2, <2>3, <2>5 DEF RowsInv
  <2> QED
    BY <1>a, <2>2, <2>7, <2>8 DEF RowsInv
<1> QED
  BY <1>1, <1>2, <1>3, <1>4, <1>5, <1>6, <1>7, <1>8, <1>9 DEF Consumer

\* It keeps the reasons for stopping.
LEMMA FlagsByMain ==
  ASSUME IInv, Consumer
  PROVE  FlagsInv'
<1>0. TypeInv /\ FlagsInv
  BY DEF IInv, MainInv
<1>a. outcome' = outcome /\ At("done")' = At("done")
  BY <1>0, MainLeaves
<1>b. ASSUME rows' = rows
      PROVE  LoopFailed' = LoopFailed /\ Recorded' = Recorded
  BY <1>b DEF LoopFailed, Recorded
<1> USE DEF Main, LoopPlaces
<1>1. CASE Receive
  <2>1. consumer.pc = "receive" /\ UNCHANGED <<stop, failure, terminal>>
    BY <1>1 DEF Receive
  <2>2. stop = FALSE /\ failure = FALSE /\ terminal = "none"
    BY <1>0, <2>1 DEF FlagsInv, TypeInv
  <2>3. consumer'.pc \in {"received", "ended"}
    BY <1>0, <1>1, MainGotoFacts DEF Receive
  <2> QED
    BY <2>1, <2>2, <2>3 DEF FlagsInv
<1>2. CASE CountReceived
  BY <1>0, <1>2, MainGotoFacts DEF CountReceived, FlagsInv
<1>3. CASE Prove
  BY <1>0, <1>3, MainGotoFacts, FailsAtFacts DEF Prove, FlagsInv
<1>4. CASE Anchor
  BY <1>0, <1>4, MainGotoFacts DEF Anchor, FlagsInv
<1>5. CASE AnchorFails
  BY <1>0, <1>5, FailsAtFacts DEF AnchorFails, FlagsInv
<1>6. CASE WriteRow
  <2>1. CASE consumer.stage = NoStage
    BY <1>0, <1>6, <2>1, MainGotoFacts DEF WriteRow, FlagsInv
  <2>2. CASE consumer.stage # NoStage
    <3>1. PICK row : rows' = Append(rows, row) /\ row.stage = consumer.stage
      BY <1>0, <1>6, LoopRow
    <3>2. consumer.stage \in LoopStages
      BY <1>0, <2>2 DEF TypeInv
    <3>3. Len(rows) + 1 \in DOMAIN rows' /\ rows'[Len(rows) + 1] = row
      BY <1>0, <3>1, AppendRow
    <3>4. LoopFailed'
      BY <3>1, <3>2, <3>3 DEF LoopFailed
    <3>5. /\ consumer'.pc = "ended" /\ stop' = TRUE /\ failure' = TRUE
          /\ terminal' = terminal /\ consumer.pc = "write"
      BY <1>0, <1>6, <2>2, MainGotoFacts DEF WriteRow
    <3> QED
      BY <1>0, <3>4, <3>5 DEF FlagsInv
  <2> QED
    BY <2>1, <2>2
<1>7. CASE WriteFails \/ StopOnDrop
  BY <1>0, <1>7, MainGotoFacts DEF WriteFails, StopOnDrop, FlagsInv
<1>8. CASE EndLoop
  <2>1. /\ consumer.pc = "ended" /\ consumer'.pc = "join"
        /\ UNCHANGED <<failure, rows, terminal>>
    BY <1>0, <1>8, MainGotoFacts DEF EndLoop
  <2>2. LoopFailed' = LoopFailed
    BY <1>b, <2>1
  <2>3. (failure => LoopFailed) /\ terminal = "none"
    BY <1>0, <2>1 DEF FlagsInv
  <2> QED
    BY <2>1, <2>2, <2>3 DEF FlagsInv
<1>9. CASE Join
  BY <1>0, <1>a, <1>b, <1>9, MainGotoFacts DEF Join, FlagsInv, TypeInv
<1>10. CASE WriteUnfinished
  <2>1. PICK lot \in Lots : rows' = Append(rows, Unfinished(lot))
    BY <1>10 DEF WriteUnfinished
  <2>2. /\ \A i \in DOMAIN rows : i \in DOMAIN rows' /\ rows'[i] = rows[i]
    BY <1>0, <2>1, AppendRow
  <2>3. LoopFailed => LoopFailed'
    BY <2>2 DEF LoopFailed
  <2> QED
    BY <1>0, <1>a, <1>10, <2>3 DEF WriteUnfinished, FlagsInv
<1>11. CASE WriteTerminal
  <2>1. /\ consumer'.pc = "done" /\ consumer.pc = "report"
        /\ UNCHANGED <<stats, failure, rows>>
        /\ Lots \subseteq Recorded
        /\ terminal' = IF Complete THEN "complete"
                       ELSE IF failure THEN "failed" ELSE "partial"
    BY <1>0, <1>11, MainGotoFacts DEF WriteTerminal
  <2>2. Complete' = Complete
    BY <2>1 DEF Complete
  <2> QED
    BY <1>0, <1>a, <1>b, <2>1, <2>2 DEF FlagsInv
<1> QED
  BY <1>1, <1>2, <1>3, <1>4, <1>5, <1>6, <1>7, <1>8, <1>9, <1>10, <1>11 DEF Consumer

\* It loses no lot that was sent, as long as nothing fails.
LEMMA LosslessByMain ==
  ASSUME IInv, Consumer
  PROVE  LosslessInv'
<1>0. TypeInv /\ LosslessInv /\ RowsInv /\ FlagsInv
  BY DEF IInv, MainInv
<1>a. /\ UNCHANGED <<producer, outcome, Sent, Saturated>>
      /\ At("done")' = At("done")
  BY <1>0, MainLeaves
<1>b. OkRows \subseteq DOMAIN rows
  BY DEF OkRows
\* Steps that only go on with the lot in hand.
<1>c. ASSUME queue' = queue, rows' = rows, consumer'.lot = consumer.lot,
             failure' = failure \/ failure' = (failure \/ outcome.failed),
             \/ /\ consumer.pc \in {"received", "prove", "anchor"}
                /\ consumer'.pc \in {"prove", "anchor", "write"}
             \/ /\ consumer.pc \in {"ended", "join", "report"}
                /\ consumer'.pc \in {"join", "report", "done"}
      PROVE  LosslessInv'
  <2>1. Lossless' => Lossless
    BY <1>0, <1>a, <1>c DEF Lossless, LeftPlaces, TypeInv
  <2>2. OkRows' = OkRows
    BY <1>c DEF OkRows
  <2>3. \A lot : InWork(lot) => InWork(lot)'
    BY <1>c DEF InWork
  <2> QED
    BY <1>0, <1>a, <1>c, <2>1, <2>2, <2>3 DEF LosslessInv
<1> USE DEF Main
<1>1. CASE Receive
  <2>1. /\ consumer.pc = "receive" /\ UNCHANGED <<rows, failure>> /\ OkRows' = OkRows
    BY <1>1 DEF Receive, OkRows
  <2>2. \A lot : ~ InWork(lot)
    BY <2>1 DEF InWork
  <2>3. CASE queue = <<>>
    <3>1. consumer'.pc = "ended" /\ queue' = queue /\ At("done")
      BY <1>0, <1>1, <2>3, MainGotoFacts DEF Receive
    <3>2. Lossless' => Lossless
      BY <1>a, <2>1, <3>1 DEF Lossless, LeftPlaces
    <3> QED
      BY <1>0, <1>a, <2>1, <2>2, <2>3, <3>1, <3>2 DEF LosslessInv
  <2>4. CASE queue # <<>>
    <3>1. /\ queue' = Tail(queue) /\ queue \in Seq(Lots)
          /\ consumer' = [pc |-> "received", lot |-> Head(queue), stage |-> NoStage]
      BY <1>0, <1>1, <2>4 DEF Receive, TypeInv
    <3>2. Lossless' => Lossless
      BY <1>a, <2>1, <3>1 DEF Lossless, LeftPlaces
    <3>3. ASSUME NEW i \in DOMAIN queue, NEW lot \in Lots, queue[i] = lot
          PROVE  InWork(lot)' \/ \E j \in DOMAIN queue' : queue'[j] = lot
      <4>1. CASE i = 1
        BY <3>1, <3>3, <4>1 DEF InWork
      <4>2. CASE i # 1
        <5>1. i - 1 \in DOMAIN queue' /\ queue'[i - 1] = queue[i]
          BY <2>4, <3>1, <4>2
        <5> QED
          BY <3>3, <5>1
      <4> QED
        BY <4>1, <4>2
    <3>4. Sent \subseteq Lots
      BY DEF Sent
    <3> QED
      BY <1>0, <1>a, <2>1, <2>2, <3>1, <3>2, <3>3, <3>4 DEF LosslessInv
  <2> QED
    BY <2>3, <2>4
<1>2. CASE CountReceived
  BY <1>0, <1>c, <1>2, MainGotoFacts DEF CountReceived
<1>3. CASE Prove
  BY <1>0, <1>c, <1>3, MainGotoFacts, FailsAtFacts DEF Prove
<1>4. CASE Anchor
  BY <1>0, <1>c, <1>4, MainGotoFacts DEF Anchor
<1>5. CASE AnchorFails
  BY <1>0, <1>c, <1>5, FailsAtFacts DEF AnchorFails
<1>6. CASE WriteRow
  <2>1. CASE consumer.stage # NoStage
    BY <1>6, <2>1 DEF WriteRow, LosslessInv, Lossless
  <2>2. CASE consumer.stage = NoStage
    <3>1. PICK row : /\ rows' = Append(rows, row)
                     /\ row.lot = consumer.lot
                     /\ row.status = "ok" <=> consumer.stage = NoStage
      BY <1>0, <1>6, LoopRow
    <3>2. /\ \A i \in DOMAIN rows : rows'[i] = rows[i]
          /\ \A i \in DOMAIN rows' : i \in DOMAIN rows \/ i = Len(rows) + 1
          /\ rows'[Len(rows) + 1] = row
          /\ OkRows' = OkRows \cup {Len(rows) + 1}
      BY <1>0, <2>2, <3>1, AppendRow
    <3>3. consumer'.pc = "receive" /\ UNCHANGED <<queue, failure>> /\ consumer.pc = "write"
      BY <1>0, <1>6, <2>2, MainGotoFacts DEF WriteRow
    <3>4. Lossless' => Lossless
      BY <1>a, <3>3 DEF Lossless, LeftPlaces
    <3>5. \A lot : InWork(lot) => \E i \in OkRows' : rows'[i].lot = lot
      BY <3>1, <3>2 DEF InWork
    <3>6. \A lot : (\E i \in OkRows : rows[i].lot = lot) =>
                      (\E i \in OkRows' : rows'[i].lot = lot)
      BY <1>b, <3>2
    <3>7. Lossless' => \A i \in DOMAIN rows' :
            rows'[i].status = "ok" \/ rows'[i].stage = "queue_saturated"
      BY <1>0, <2>2, <3>1, <3>2, <3>4 DEF LosslessInv
    <3>8. Lossless' /\ At("done")' => producer'.lot = NumLots + 1
      BY <1>0, <1>a, <3>4 DEF LosslessInv
    <3>9. Lossless' => \A lot \in Sent' :
            \/ lot \in Saturated'
            \/ \E i \in DOMAIN queue' : queue'[i] = lot
            \/ \E i \in OkRows' : rows'[i].lot = lot
      BY <1>0, <1>a, <3>3, <3>4, <3>5, <3>6 DEF LosslessInv
    <3> QED
      BY <3>3, <3>7, <3>8, <3>9 DEF LosslessInv
  <2> QED
    BY <2>1, <2>2
<1>7. CASE WriteFails \/ StopOnDrop
  BY <1>0, <1>7, MainGotoFacts DEF WriteFails, StopOnDrop, LosslessInv, Lossless, LeftPlaces
<1>8. CASE EndLoop
  BY <1>0, <1>c, <1>8, MainGotoFacts DEF EndLoop
<1>9. CASE Join
  BY <1>0, <1>c, <1>9, MainGotoFacts DEF Join
<1>10. CASE WriteUnfinished
  <2>1. PICK lot \in Lots \ Recorded : rows' = Append(rows, Unfinished(lot))
    BY <1>10 DEF WriteUnfinished
  <2>2. consumer.pc = "report" /\ UNCHANGED <<consumer, queue, failure>>
    BY <1>10 DEF WriteUnfinished
  <2> DEFINE row == Unfinished(lot)
  <2>3. /\ row.lot = lot /\ row.status # "ok"
        /\ outcome.failures[lot] # NoStage => row.stage = outcome.failures[lot]
    BY <1>0, UnfinishedFacts
  <2>4. rows' = Append(rows, row)
    BY <2>1
  <2> HIDE DEF row
  <2>5. /\ \A i \in DOMAIN rows : rows'[i] = rows[i]
        /\ \A i \in DOMAIN rows' : i \in DOMAIN rows \/ i = Len(rows) + 1
        /\ rows'[Len(rows) + 1] = row
        /\ OkRows' = OkRows
    BY <1>0, <2>3, <2>4, AppendRow
  <2>6. Lossless' => Lossless
    BY <1>a, <2>2 DEF Lossless
  <2>7. Lossless => row.stage = "queue_saturated"
    <3> SUFFICES ASSUME Lossless PROVE row.stage = "queue_saturated"
      OBVIOUS
    <3>1. producer.lot = NumLots + 1 /\ queue = <<>>
      BY <1>0, <2>2 DEF LosslessInv
    <3>2. lot \in Sent
      BY <3>1, Constants DEF Sent
    <3>3. ~ InWork(lot) /\ ~ \E i \in DOMAIN queue : queue[i] = lot
      BY <2>2, <3>1 DEF InWork
    <3>4. ~ \E i \in OkRows : rows[i].lot = lot
      BY <1>b DEF Recorded
    <3>5. lot \in Saturated
      BY <1>0, <3>2, <3>3, <3>4 DEF LosslessInv
    <3> QED
      BY <2>3, <3>5 DEF Saturated, NoStage
  <2>8. \A other : (\E i \in OkRows : rows[i].lot = other) =>
                      (\E i \in OkRows' : rows'[i].lot = other)
    BY <1>b, <2>5
  <2>9. Lossless' => \A i \in DOMAIN rows' :
          rows'[i].status = "ok" \/ rows'[i].stage = "queue_saturated"
    BY <1>0, <2>5, <2>6, <2>7 DEF LosslessInv
  <2>10. \A other : InWork(other)' = InWork(other)
    BY <2>2 DEF InWork
  <2>11. Lossless' => \A other \in Sent' :
           \/ other \in Saturated'
           \/ \E i \in DOMAIN queue' : queue'[i] = other
           \/ InWork(other)'
           \/ \E i \in OkRows' : rows'[i].lot = other
    BY <1>0, <1>a, <2>2, <2>6, <2>8, <2>10 DEF LosslessInv
  <2> QED
    BY <1>0, <1>a, <2>2, <2>6, <2>9, <2>11 DEF LosslessInv
<1>11. CASE WriteTerminal
  BY <1>0, <1>c, <1>11, MainGotoFacts DEF WriteTerminal
<1> QED
  BY <1>1, <1>2, <1>3, <1>4, <1>5, <1>6, <1>7, <1>8, <1>9, <1>10, <1>11 DEF Consumer

-----------------------------------------------------------------------------
(* The inductive invariant holds.                                            *)

\* A step that changes nothing.
LEMMA IdleKeeps ==
  ASSUME IInv, UNCHANGED vars
  PROVE  IInv' /\ MainInv'
<1>0. /\ UNCHANGED <<stop, queue, stats, producer, outcome, consumer, nullifiers>>
      /\ UNCHANGED <<failure, rows, terminal, ledger, chain>>
  BY DEF vars
<1>1. TypeInv'
  BY <1>0 DEF IInv, TypeInv
<1>2. /\ Sent' = Sent /\ Saturated' = Saturated /\ OkRows' = OkRows
      /\ Taken' = Taken /\ LoopFailed' = LoopFailed
  BY <1>0 DEF Sent, Saturated, OkRows, Taken, LoopFailed, At, Main
<1>3. OnFabricInv' /\ FailuresInv' /\ EventsInv'
  BY <1>0 DEF IInv, ProducerInv, OnFabricInv, FailuresInv, EventsInv, InHand, At
<1>4. OfferedInv'
  BY <1>0, <1>2 DEF IInv, ProducerInv, OfferedInv, InHand, At
<1>5. QueueInv' /\ WorkInv'
  BY <1>0, <1>2 DEF IInv, MainInv, QueueInv, WorkInv, At, Main
<1>6. ChainInv' /\ InStep' /\ AfterInv'
  BY <1>0, <1>2 DEF IInv, MainInv, ChainInv, InStep, AfterInv
<1>7. LoopInv' /\ RowsInv'
  BY <1>0, <1>2 DEF IInv, MainInv, LoopInv, RowsInv, Main
<1>8. FlagsInv'
  BY <1>0, <1>2 DEF IInv, MainInv, FlagsInv, Main, At, Complete, Recorded
<1>9. LosslessInv'
  <2>1. \A lot : InWork(lot)' = InWork(lot)
    BY <1>0 DEF InWork
  <2> QED
    BY <1>0, <1>2, <2>1 DEF IInv, MainInv, LosslessInv, Lossless, At
<1> QED
  BY <1>1, <1>3, <1>4, <1>5, <1>6, <1>7, <1>8, <1>9 DEF IInv, ProducerInv, MainInv

\* Every step of either thread keeps what holds between them.
LEMMA MainInvStep ==
  ASSUME IInv, Next
  PROVE  MainInv'
<1>1. CASE Producer
  BY <1>1, QueueByProducer, RestByProducer, LosslessByProducer DEF MainInv
<1>2. CASE Consumer
  BY <1>2, QueueByMain, WorkByMain, ChainByMain, InStepByMain, LoopByMain, AfterByMain,
     RowsByMain, FlagsByMain, LosslessByMain DEF MainInv
<1>3. CASE Finished
  BY <1>3, IdleKeeps DEF Finished, IInv
<1> QED
  BY <1>1, <1>2, <1>3 DEF Next

\* All of IInv holds of the seed, however it goes.
THEOREM Inductive == Spec => []IInv
<1>1. IInv /\ [Next]_vars => IInv'
  <2> SUFFICES ASSUME IInv, [Next]_vars PROVE IInv'
    OBVIOUS
  <2>1. CASE Next
    BY <2>1, TypeStep, ProducerInvStep, MainInvStep DEF IInv
  <2>2. CASE UNCHANGED vars
    BY <2>2, IdleKeeps
  <2> QED
    BY <2>1, <2>2
<1> QED
  BY <1>1, Initially, PTL DEF Spec

\* The type invariant of E2Pipeline.
THEOREM TypeCorrect == Spec => []TypeOK
<1>1. IInv => TypeOK
  <2> SUFFICES ASSUME IInv PROVE TypeOK
    OBVIOUS
  <2>0. TypeInv /\ QueueInv
    BY DEF IInv, MainInv
  <2>1. \A counter \in DOMAIN stats : stats[counter] \in Nat
    BY <2>0 DEF TypeInv
  <2>2. /\ stop \in BOOLEAN
        /\ queue \in Seq(Lots) /\ Len(queue) <= Capacity
        /\ producer.lot \in 1 .. NumLots + 1 /\ producer.event \in Events
        /\ outcome.committed \subseteq Lots
        /\ consumer.lot \in Lots \cup {0}
        /\ nullifiers \subseteq Lots
        /\ chain \in Seq(Lots) /\ rows \in Seq(Row)
        /\ ledger \subseteq Lots \X Events
        /\ terminal \in {"none", "complete", "partial", "failed"}
    BY <2>0 DEF TypeInv, QueueInv
  <2> QED
    BY <2>1, <2>2 DEF TypeOK
<1> QED
  BY <1>1, Inductive, PTL

-----------------------------------------------------------------------------
(* The rows keep step with the chain.                                        *)

\* What is on chain is on Fabric: the lot in work was sent, so was every one
\* anchored before it, and a lot is sent when its events have been posted.
LEMMA AnchoredOnFabric ==
  ASSUME IInv, NEW i \in DOMAIN chain
  PROVE  {chain[i]} \X Events \subseteq ledger
<1>0. TypeInv /\ OnFabricInv /\ QueueInv /\ ChainInv
  BY DEF IInv, ProducerInv, MainInv
<1>1. /\ chain[i] \in Lots /\ chain[i] \in Nat /\ chain[i] >= 1
      /\ consumer.lot \in Nat /\ producer.lot \in Nat
  BY <1>0, MainNumbers DEF TypeInv
<1>2. chain[i] <= consumer.lot
  BY <1>0 DEF ChainInv
<1>3. consumer.lot \in Lots
  <2>1. consumer.lot # 0
    BY <1>1, <1>2
  <2> QED
    BY <1>0, <2>1 DEF TypeInv
<1>4. consumer.lot < producer.lot \/ (consumer.lot = producer.lot /\ At("count"))
  BY <1>0, <1>3 DEF QueueInv, Sent
<1>5. chain[i] < producer.lot \/ (chain[i] = producer.lot /\ At("count"))
  BY <1>1, <1>2, <1>4
<1>6. chain[i] \in outcome.committed
  BY <1>0, <1>1, <1>5 DEF OnFabricInv, At
<1> QED
  BY <1>0, <1>6 DEF OnFabricInv

\* Lots are anchored in the order of the schedule, each with its row in the same
\* place, the rows at most one lot behind the chain; and every event of an
\* anchored lot is on Fabric.
THEOREM ChainKeepsStep == Spec => []ChainInStep
<1>1. IInv => ChainInStep
  BY AnchoredOnFabric DEF IInv, MainInv, ChainInv, InStep, ChainInStep
<1> QED
  BY <1>1, Inductive, PTL

-----------------------------------------------------------------------------
(* The records pass the audit.  Counts of rows are counts of lots, by the    *)
(* bijection from the rows of the finished seed to their lots.               *)

\* A set of rows and a set of lots that the rows' lots are, one each.
LEMMA RowsCountLots ==
  ASSUME TypeInv, RowsInv, NEW some \in SUBSET DOMAIN rows, NEW lots,
         \A i \in some : rows[i].lot \in lots,
         \A lot \in lots : \E i \in some : rows[i].lot = lot
  PROVE  IsFiniteSet(some) /\ IsFiniteSet(lots) /\ Cardinality(lots) = Cardinality(some)
<1> DEFINE lotOf == [i \in some |-> rows[i].lot]
<1>1. IsFiniteSet(DOMAIN rows)
  <2>1. Len(rows) \in Nat /\ DOMAIN rows = 1 .. Len(rows)
    BY MainNumbers
  <2>2. IsFiniteSet(1 .. Len(rows))
    BY <2>1, FS_Interval
  <2> QED
    BY <2>1, <2>2
<1>2. IsFiniteSet(some)
  BY <1>1, FS_Subset
<1>3. lotOf \in [some -> lots]
  OBVIOUS
<1>4. \A i, j \in some : lotOf[i] = lotOf[j] => i = j
  BY DEF RowsInv
<1>5. \A lot \in lots : \E i \in some : lotOf[i] = lot
  OBVIOUS
<1>6. DOMAIN lotOf = some
  OBVIOUS
<1> HIDE DEF lotOf
<1>7. lotOf \in Bijection(some, lots)
  BY <1>3, <1>4, <1>5, <1>6 DEF Bijection, Injection, IsInjective, Surjection
<1>8. ExistsBijection(some, lots)
  BY <1>7 DEF ExistsBijection
<1> QED
  BY <1>2, <1>8, FS_Bijection

\* What is known once the terminal record is written.
LEMMA AtTheEnd ==
  ASSUME IInv, terminal # "none"
  PROVE  /\ consumer.pc = "done" /\ At("done")
         /\ Lots \subseteq Recorded
         /\ terminal = IF Complete THEN "complete"
                       ELSE IF failure THEN "failed" ELSE "partial"
         /\ OkRows = 1 .. stats.anchored
         /\ failure => LoopFailed \/ outcome.failed
         /\ outcome.failed => failure
<1>0. FlagsInv /\ AfterInv
  BY DEF IInv, MainInv
<1>1. consumer.pc = "done"
  BY <1>0 DEF FlagsInv, Main
<1> QED
  BY <1>0, <1>1 DEF FlagsInv, Main, AfterInv, LoopPlaces, LeftPlaces

\* Then a row for every lot, one for each.
LEMMA WholeReport ==
  ASSUME IInv, terminal # "none"
  PROVE  Len(rows) = NumLots
<1>0. TypeInv /\ RowsInv
  BY DEF IInv, MainInv
<1>1. /\ Len(rows) \in Nat /\ DOMAIN rows = 1 .. Len(rows)
      /\ \A i \in DOMAIN rows : rows[i].lot \in Lots
  BY <1>0, MainNumbers
<1>2. \A lot \in Lots : \E i \in DOMAIN rows : rows[i].lot = lot
  BY AtTheEnd DEF Recorded
<1>3. Cardinality(Lots) = Cardinality(DOMAIN rows)
  BY <1>0, <1>1, <1>2, RowsCountLots
<1>4. \A n \in Nat : Cardinality(1 .. n) = n
  BY FS_Interval
<1> QED
  BY <1>1, <1>3, <1>4, Constants

\* The saturated lots are those whose rows say so.
LEMMA SaturatedRows ==
  ASSUME IInv, terminal # "none"
  PROVE  stats.saturated
           = Cardinality({i \in DOMAIN rows : rows[i].stage = "queue_saturated"})
<1>0. TypeInv /\ RowsInv /\ OfferedInv
  BY DEF IInv, MainInv, ProducerInv
<1> DEFINE some == {i \in DOMAIN rows : rows[i].stage = "queue_saturated"}
<1>1. \A i \in DOMAIN rows :
        /\ rows[i].lot \in Lots
        /\ outcome.failures[rows[i].lot] = NoStage => rows[i].stage # "queue_saturated"
        /\ outcome.failures[rows[i].lot] # NoStage =>
             rows[i].stage = outcome.failures[rows[i].lot]
  BY <1>0, AtTheEnd, MainNumbers DEF RowsInv, LeftPlaces
<1>2. \A i \in some : rows[i].lot \in Saturated
  BY <1>1 DEF Saturated
<1>3. ASSUME NEW lot \in Saturated
      PROVE  \E i \in some : rows[i].lot = lot
  <2>1. lot \in Lots /\ outcome.failures[lot] = "queue_saturated"
    BY DEF Saturated
  <2>2. PICK i \in DOMAIN rows : rows[i].lot = lot
    BY <2>1, AtTheEnd DEF Recorded
  <2> QED
    BY <1>1, <2>1, <2>2 DEF NoStage
<1>4. some \in SUBSET DOMAIN rows
  OBVIOUS
<1>5. Cardinality(Saturated) = Cardinality(some)
  <2> HIDE DEF some
  <2> QED
    BY <1>0, <1>2, <1>3, <1>4, RowsCountLots
<1> QED
  BY <1>0, <1>5 DEF OfferedInv

\* The progress counters only fall from one stage to the next.
LEMMA Progress ==
  ASSUME IInv, At("done")
  PROVE  /\ NumLots >= stats.offered /\ stats.offered >= stats.committed
         /\ stats.committed >= stats.readback /\ stats.readback >= stats.queued
         /\ stats.queued >= stats.received /\ stats.received >= stats.proved
         /\ stats.proved >= stats.anchored
<1>0. TypeInv /\ OfferedInv /\ QueueInv /\ WorkInv
  BY DEF IInv, ProducerInv, MainInv
<1>1. /\ stats.offered \in Nat /\ stats.committed \in Nat /\ stats.readback \in Nat
      /\ stats.queued \in Nat /\ stats.received \in Nat /\ stats.proved \in Nat
      /\ stats.anchored \in Nat /\ stats.saturated \in Nat
  BY <1>0, CounterFields DEF TypeInv
<1>2. producer.lot \in Nat /\ Len(queue) \in Nat /\ NumLots \in Nat
  BY <1>0, Constants DEF TypeInv
<1>3. stats.readback >= stats.queued
  <2>1. /\ producer.lot - 1 <= stats.readback
        /\ stats.queued + stats.saturated = producer.lot - 1
    BY <1>0 DEF OfferedInv
  <2> QED
    BY <1>1, <1>2, <2>1
<1>4. stats.queued >= stats.received
  <2>1. stats.queued + 0 = Taken + Len(queue)
    BY <1>0 DEF QueueInv, At
  <2>2. Taken = stats.received \/ Taken = stats.received + 1
    BY <1>1 DEF Taken
  <2> QED
    BY <1>1, <1>2, <2>1, <2>2
<1> QED
  BY <1>0, <1>1, <1>2, <1>3, <1>4 DEF OfferedInv, WorkInv

\* However the run ends, its records pass the audit of e2_real_analyze.py, with a
\* row for every lot.
THEOREM AuditPasses == Spec => []AuditAccepts
<1>1. IInv => AuditAccepts
  <2> SUFFICES ASSUME IInv, terminal # "none"
               PROVE  AuditOk /\ Len(rows) = NumLots
    BY DEF AuditAccepts
  <2>0. TypeInv /\ RowsInv /\ OfferedInv
    BY DEF IInv, MainInv, ProducerInv
  <2>1. stats.anchored \in Nat /\ stats.depth <= Capacity
    BY <2>0, MainNumbers DEF OfferedInv
  <2>2. stats.anchored = Cardinality(OkRows)
    BY <2>1, AtTheEnd, FS_Interval
  <2>3. /\ \A i, j \in DOMAIN rows : i # j => rows[i].lot # rows[j].lot
        /\ \A i \in DOMAIN rows : rows[i].status # "ok" => rows[i].stage # NoStage
    BY <2>0, AtTheEnd DEF RowsInv, LeftPlaces
  <2> DEFINE progress == <<NumLots, stats.offered, stats.committed, stats.readback,
                           stats.queued, stats.received, stats.proved, stats.anchored>>
  <2>4. \A i \in 1 .. Len(progress) - 1 : progress[i] >= progress[i + 1]
    <3>1. Len(progress) - 1 = 7
      OBVIOUS
    <3>2. \A i \in 1 .. 7 : i = 1 \/ i = 2 \/ i = 3 \/ i = 4 \/ i = 5 \/ i = 6 \/ i = 7
      OBVIOUS
    <3>3. /\ progress[1] >= progress[2] /\ progress[2] >= progress[3]
          /\ progress[3] >= progress[4] /\ progress[4] >= progress[5]
          /\ progress[5] >= progress[6] /\ progress[6] >= progress[7]
          /\ progress[7] >= progress[8]
      BY AtTheEnd, Progress
    <3> HIDE DEF progress
    <3>4. ASSUME NEW i \in 1 .. 7
          PROVE  progress[i] >= progress[i + 1]
      BY <3>2, <3>3
    <3> QED
      BY <3>1, <3>4
  <2> QED
    BY <2>1, <2>2, <2>3, <2>4, SaturatedRows, WholeReport DEF AuditOk
<1> QED
  BY <1>1, Inductive, PTL

-----------------------------------------------------------------------------
(* The terminal status says what happened.                                   *)

\* A complete seed: the chain is between the schedule and what the dropped lots
\* leave of it, and none was dropped.
LEMMA WhenComplete ==
  ASSUME IInv, terminal = "complete"
  PROVE  AuditFindsComplete /\ chain = Schedule
<1>0. TypeInv /\ RowsInv /\ ChainInv /\ InStep
  BY DEF IInv, MainInv
<1>1. /\ Complete /\ OkRows = 1 .. stats.anchored /\ At("done")
  BY AtTheEnd
<1>2. /\ stats.anchored = NumLots /\ ~ failure /\ stats.saturated = 0
      /\ stats.offeredEvents = NumLots * EventsPerLot
  BY <1>1 DEF Complete
<1>3. Len(rows) = NumLots /\ DOMAIN rows = 1 .. NumLots
  BY <1>0, WholeReport, MainNumbers
<1>4. \A i \in DOMAIN rows : rows[i].status = "ok"
  BY <1>1, <1>2, <1>3 DEF OkRows
<1>5. stats.offered = NumLots
  <2>1. /\ stats.offered \in Nat /\ stats.committed \in Nat /\ stats.readback \in Nat
        /\ stats.queued \in Nat /\ stats.received \in Nat /\ stats.proved \in Nat
    BY <1>0, CounterFields DEF TypeInv
  <2> QED
    BY <1>1, <1>2, <2>1, Progress, Constants
<1>6. chain = Schedule
  <2>1. /\ Len(chain) \in Nat /\ DOMAIN chain = 1 .. Len(chain)
        /\ \A i \in DOMAIN chain : chain[i] \in Lots /\ chain[i] \in Nat
        /\ chain \in Seq(Lots)
    BY <1>0, MainNumbers DEF TypeInv
  <2>2. \A i \in DOMAIN chain : chain[i] = i
    <3> SUFFICES ASSUME NEW i \in DOMAIN chain PROVE chain[i] = i
      OBVIOUS
    <3>1. i <= chain[i] /\ chain[i] <= i + 0
      BY <1>0, <1>2 DEF ChainInv
    <3>2. i \in Nat /\ chain[i] \in Nat
      BY <2>1
    <3> QED
      BY <3>1, <3>2
  <2>3. Len(chain) = NumLots
    <3>1. Len(chain) <= NumLots
      <4>1. CASE Len(chain) = 0
        BY <4>1, Constants
      <4>2. CASE Len(chain) # 0
        <5>1. Len(chain) \in DOMAIN chain
          BY <2>1, <4>2
        <5>2. Len(chain) \in Lots
          BY <2>1, <2>2, <5>1
        <5> QED
          BY <5>2, Constants
      <4> QED
        BY <4>1, <4>2
    <3>2. NumLots # 0 => NumLots \in DOMAIN chain
      <4>1. NumLots # 0 => NumLots \in OkRows
        BY <1>1, <1>2, Constants
      <4> QED
        BY <1>0, <4>1 DEF InStep
    <3>3. NumLots <= Len(chain)
      <4>1. CASE NumLots = 0
        BY <2>1, <4>1
      <4>2. CASE NumLots # 0
        <5>1. NumLots \in 1 .. Len(chain)
          BY <2>1, <3>2, <4>2
        <5> QED
          BY <5>1
      <4> QED
        BY <4>1, <4>2
    <3>4. Len(chain) \in Nat /\ NumLots \in Nat
      BY <2>1, Constants
    <3> QED
      BY <3>1, <3>3, <3>4
  <2>4. DOMAIN chain = Lots
    BY <2>1, <2>3, Constants
  <2>5. chain = [i \in DOMAIN chain |-> chain[i]]
    BY <2>1
  <2>6. [i \in DOMAIN chain |-> chain[i]] = [i \in Lots |-> i]
    BY <2>2, <2>4
  <2> QED
    BY <2>5, <2>6 DEF Schedule
<1> QED
  BY <1>2, <1>3, <1>4, <1>5, <1>6 DEF AuditFindsComplete

\* A partial seed: nothing failed, so no lot that was sent is lost, and the
\* producer came to the end of the schedule; had the queue dropped none either,
\* all would be anchored and the seed complete.
LEMMA WhenPartial ==
  ASSUME IInv, terminal = "partial", NumLots > 0
  PROVE  /\ stats.saturated > 0
         /\ \A i \in DOMAIN rows :
              rows[i].status = "ok" \/ rows[i].stage = "queue_saturated"
<1>0. TypeInv /\ LosslessInv /\ EventsInv
  BY DEF IInv, MainInv, ProducerInv
<1>1. /\ ~ Complete /\ ~ failure /\ ~ outcome.failed /\ consumer.pc = "done"
      /\ At("done") /\ OkRows = 1 .. stats.anchored
  BY AtTheEnd
<1>2. Lossless
  BY <1>1 DEF Lossless, LeftPlaces
<1>3. \A i \in DOMAIN rows : rows[i].status = "ok" \/ rows[i].stage = "queue_saturated"
  BY <1>0, <1>2 DEF LosslessInv
<1>4. /\ stats.saturated \in Nat /\ stats.anchored \in Nat
      /\ DOMAIN rows = 1 .. NumLots
  BY <1>0, WholeReport, MainNumbers
<1>5. ASSUME stats.saturated = 0
      PROVE  FALSE
  <2> DEFINE dropped == {i \in DOMAIN rows : rows[i].stage = "queue_saturated"}
  <2>1. IsFiniteSet(dropped)
    <3>1. IsFiniteSet(DOMAIN rows)
      BY <1>4, Constants, FS_Interval
    <3> QED
      BY <3>1, FS_Subset
  <2>2. Cardinality(dropped) = 0
    BY <1>5, SaturatedRows
  <2>3. dropped = {}
    <3> HIDE DEF dropped
    <3> QED
      BY <2>1, <2>2, FS_EmptySet
  <2>4. OkRows = DOMAIN rows
    BY <1>3, <2>3 DEF OkRows
  <2>5. stats.anchored = NumLots
    <3>1. 1 .. stats.anchored = 1 .. NumLots
      BY <1>1, <1>4, <2>4
    <3>2. \A n \in Nat : Cardinality(1 .. n) = n
      BY FS_Interval
    <3> QED
      BY <1>4, <3>1, <3>2, Constants
  <2>6. stats.offeredEvents = NumLots * EventsPerLot
    <3>1. producer.lot = NumLots + 1
      BY <1>0, <1>1, <1>2 DEF LosslessInv
    <3>2. producer.lot - 1 = NumLots
      BY <3>1, Constants
    <3> QED
      BY <1>0, <1>1, <3>1, <3>2 DEF EventsInv
  <2> QED
    BY <1>1, <1>5, <2>5, <2>6 DEF Complete
<1> QED
  BY <1>3, <1>4, <1>5

\* A failed seed: the failure of the loop has its row, and that of Fabric is at
\* the lot where the producer stopped, which has one by now.
LEMMA WhenFailed ==
  ASSUME IInv, terminal = "failed"
  PROVE  \E i \in DOMAIN rows :
           rows[i].status # "ok" /\ rows[i].stage # "queue_saturated"
<1>0. TypeInv /\ RowsInv /\ FailuresInv
  BY DEF IInv, MainInv, ProducerInv
<1>1. /\ consumer.pc = "done" /\ Lots \subseteq Recorded
      /\ LoopFailed \/ outcome.failed
  BY AtTheEnd
<1>2. \A i \in DOMAIN rows :
        /\ rows[i].status = "ok" <=> rows[i].stage = NoStage
        /\ outcome.failures[rows[i].lot] # NoStage =>
             rows[i].stage = outcome.failures[rows[i].lot]
  BY <1>0, <1>1 DEF RowsInv, LeftPlaces
<1>3. CASE LoopFailed
  BY <1>2, <1>3 DEF LoopFailed, LoopStages, NoStage
<1>4. CASE outcome.failed
  <2>1. producer.lot \in Lots /\ outcome.failures[producer.lot] \in LostStages
    BY <1>0, <1>4 DEF FailuresInv
  <2>2. PICK i \in DOMAIN rows : rows[i].lot = producer.lot
    BY <1>1, <2>1 DEF Recorded
  <2> QED
    BY <1>2, <2>1, <2>2 DEF LostStages, NoStage
<1> QED
  BY <1>1, <1>3, <1>4

\* The terminal status is true of what is on chain and in the rows.
THEOREM StatusTrue == Spec => []TerminalTrue
<1>1. IInv => TerminalTrue
  BY WhenComplete, WhenPartial, WhenFailed DEF TerminalTrue
<1> QED
  BY <1>1, Inductive, PTL

-----------------------------------------------------------------------------
(* The E1 benchmark.                                                       *)

\* The circuits that the layers of a lot cover, from the first to the last.
Covered ==
  <<<<"C1">>, <<"C2">>, <<"C3">>, <<"C4">>, <<"C5">>,
    <<"C1", "C2">>, <<"C3", "C4">>, <<"C3", "C4", "C5">>, Inner>>
Names == {"C1", "C2", "C3", "C4", "C5"}

\* The layers that a lot at step s has made.
Made(s) == IF s <= Len(Inner) THEN 0 ELSE s - Len(Inner) - 1

\* The types of the wrapper's variables.
WrapperTypeOK ==
  /\ hook \in {"default", "silent"}
  /\ step \in [WrapLots -> 0 .. VerifyStep]
  /\ taken \in [WrapLots -> {"none", "default", "silent"}]
  /\ inside \in [WrapLots -> BOOLEAN]
  /\ layers \in [WrapLots -> Seq(Seq(Names))]
  /\ overlapped \in BOOLEAN

\* A lot has the layers of its step, whatever happened to it before.
LayersInStep ==
  \A l \in WrapLots :
    /\ Len(layers[l]) = Made(step[l])
    /\ \A k \in 1 .. Made(step[l]) : layers[l][k] = Covered[k]

\* A recursion_step runs in a layer only, and as long as no two of them
\* overlapped it is alone: what it took is the default hook, and the silent
\* one is in place only while it runs.
StepsAlone ==
  /\ \A l \in WrapLots : taken[l] # "none" => IsLayer(step[l])
  /\ \A l \in WrapLots : inside[l] => taken[l] # "none"
  /\ ~overlapped =>
       /\ \A k, l \in WrapLots : taken[k] # "none" /\ taken[l] # "none" => k = l
       /\ \A l \in WrapLots : taken[l] # "silent"
       /\ hook = "silent" => \E l \in WrapLots : inside[l]

\* The inductive invariant of the wrapper.
WrapperInv == WrapperTypeOK /\ LayersInStep /\ StepsAlone

-----------------------------------------------------------------------------

\* The steps by number.
LEMMA StepNumbers ==
  /\ Len(Inner) = 5 /\ VerifyStep = 15
  /\ \A s \in 0 .. 15 : /\ IsInner(s) <=> s \in 1 .. 5
                        /\ IsLayer(s) <=> s \in 6 .. 14
                        /\ LayerOf(s) = s - 5
                        /\ Made(s) = IF s <= 5 THEN 0 ELSE s - 6
BY DEF Inner, VerifyStep, LastLayer, IsInner, IsLayer, LayerOf, Made

\* What an aggregated layer is, element by element.
LEMMA ConcatIs ==
  ASSUME NEW S, NEW s \in Seq(S), NEW t \in Seq(S), NEW u \in Seq(S),
         Len(u) = Len(s) + Len(t),
         \A i \in 1 .. Len(s) : u[i] = s[i],
         \A i \in 1 .. Len(t) : u[Len(s) + i] = t[i]
  PROVE  s \o t = u
<1>1. /\ s \o t \in Seq(S)
      /\ Len(s \o t) = Len(u)
  BY ConcatProperties
<1>2. ASSUME NEW i \in 1 .. Len(u)
      PROVE  (s \o t)[i] = u[i]
  <2>1. CASE i <= Len(s)
    BY <1>2, <2>1, ConcatProperties
  <2>2. CASE i > Len(s)
    <3>1. i - Len(s) \in 1 .. Len(t) /\ i = Len(s) + (i - Len(s))
      BY <2>2
    <3>2. (s \o t)[i] = t[i - Len(s)]
      BY <2>2, ConcatProperties
    <3> QED
      BY <3>1, <3>2
  <2> QED
    BY <2>1, <2>2
<1> QED
  BY <1>1, <1>2, SeqEqual

\* The layers: five of one circuit, then the aggregations.
LEMMA CoveredLayers ==
  /\ \A k \in 1 .. 9 : Covered[k] \in Seq(Names)
  /\ \A k \in 1 .. 5 : <<Inner[k]>> = Covered[k]
  /\ Covered[1] \o Covered[2] = Covered[6]
  /\ Covered[3] \o Covered[4] = Covered[7]
  /\ Covered[7] \o Covered[5] = Covered[8]
  /\ Covered[6] \o Covered[8] = Covered[9]
<1>1. /\ Covered[1] = <<"C1">> /\ Covered[2] = <<"C2">> /\ Covered[3] = <<"C3">>
      /\ Covered[4] = <<"C4">> /\ Covered[5] = <<"C5">>
  BY DEF Covered
<1>2. /\ Covered[6] = <<"C1", "C2">> /\ Covered[7] = <<"C3", "C4">>
      /\ Covered[8] = <<"C3", "C4", "C5">>
      /\ Covered[9] = <<"C1", "C2", "C3", "C4", "C5">>
  BY DEF Covered, Inner
<1>3. \A k \in 1 .. 9 : Covered[k] \in Seq(Names)
  <2>1. \A k \in 1 .. 9 : k = 1 \/ k = 2 \/ k = 3 \/ k = 4 \/ k = 5
                            \/ k = 6 \/ k = 7 \/ k = 8 \/ k = 9
    OBVIOUS
  <2>2. /\ <<"C1">> \in Seq(Names) /\ <<"C2">> \in Seq(Names)
        /\ <<"C3">> \in Seq(Names) /\ <<"C4">> \in Seq(Names)
        /\ <<"C5">> \in Seq(Names) /\ <<"C1", "C2">> \in Seq(Names)
        /\ <<"C3", "C4">> \in Seq(Names) /\ <<"C3", "C4", "C5">> \in Seq(Names)
        /\ <<"C1", "C2", "C3", "C4", "C5">> \in Seq(Names)
    BY DEF Names
  <2>3. /\ Covered[1] \in Seq(Names) /\ Covered[2] \in Seq(Names) /\ Covered[3] \in Seq(Names)
        /\ Covered[4] \in Seq(Names) /\ Covered[5] \in Seq(Names)
    BY ONLY <1>1, <2>2
  <2>4. /\ Covered[6] \in Seq(Names) /\ Covered[7] \in Seq(Names)
        /\ Covered[8] \in Seq(Names) /\ Covered[9] \in Seq(Names)
    BY ONLY <1>2, <2>2
  <2> QED
    BY ONLY <2>1, <2>3, <2>4
<1>4. \A k \in 1 .. 5 : <<Inner[k]>> = Covered[k]
  <2>1. \A k \in 1 .. 5 : k = 1 \/ k = 2 \/ k = 3 \/ k = 4 \/ k = 5
    OBVIOUS
  <2>2. /\ Inner[1] = "C1" /\ Inner[2] = "C2" /\ Inner[3] = "C3"
        /\ Inner[4] = "C4" /\ Inner[5] = "C5"
    BY DEF Inner
  <2> QED
    BY <1>1, <2>1, <2>2
<1>5. /\ Len(Covered[1]) = 1 /\ Len(Covered[2]) = 1 /\ Len(Covered[3]) = 1
      /\ Len(Covered[4]) = 1 /\ Len(Covered[5]) = 1 /\ Len(Covered[6]) = 2
      /\ Len(Covered[7]) = 2 /\ Len(Covered[8]) = 3 /\ Len(Covered[9]) = 5
  BY <1>1, <1>2
<1>6. /\ Covered[1][1] = "C1" /\ Covered[2][1] = "C2" /\ Covered[3][1] = "C3"
      /\ Covered[4][1] = "C4" /\ Covered[5][1] = "C5"
  BY <1>1
<1>7. /\ Covered[6][1] = "C1" /\ Covered[6][2] = "C2"
      /\ Covered[7][1] = "C3" /\ Covered[7][2] = "C4"
      /\ Covered[8][1] = "C3" /\ Covered[8][2] = "C4" /\ Covered[8][3] = "C5"
      /\ Covered[9][1] = "C1" /\ Covered[9][2] = "C2" /\ Covered[9][3] = "C3"
      /\ Covered[9][4] = "C4" /\ Covered[9][5] = "C5"
  BY <1>2
<1>8. Covered[1] \o Covered[2] = Covered[6]
  <2>1. Len(Covered[6]) = Len(Covered[1]) + Len(Covered[2])
    BY <1>5
  <2>2. \A x \in 1 .. Len(Covered[1]) : Covered[6][x] = Covered[1][x]
    BY <1>5, <1>6, <1>7
  <2>3. \A x \in 1 .. Len(Covered[2]) :
          Covered[6][Len(Covered[1]) + x] = Covered[2][x]
    BY <1>5, <1>6, <1>7
  <2>4. Covered[1] \in Seq(Names) /\ Covered[2] \in Seq(Names)
        /\ Covered[6] \in Seq(Names)
    BY <1>3
  <2> QED
    BY <2>1, <2>2, <2>3, <2>4, ConcatIs, Zenon
<1>9. Covered[3] \o Covered[4] = Covered[7]
  <2>1. Len(Covered[7]) = Len(Covered[3]) + Len(Covered[4])
    BY <1>5
  <2>2. \A x \in 1 .. Len(Covered[3]) : Covered[7][x] = Covered[3][x]
    BY <1>5, <1>6, <1>7
  <2>3. \A x \in 1 .. Len(Covered[4]) :
          Covered[7][Len(Covered[3]) + x] = Covered[4][x]
    BY <1>5, <1>6, <1>7
  <2>4. Covered[3] \in Seq(Names) /\ Covered[4] \in Seq(Names)
        /\ Covered[7] \in Seq(Names)
    BY <1>3
  <2> QED
    BY <2>1, <2>2, <2>3, <2>4, ConcatIs, Zenon
<1>10. Covered[7] \o Covered[5] = Covered[8]
  <2>1. Len(Covered[8]) = Len(Covered[7]) + Len(Covered[5])
    BY <1>5
  <2>2. \A x \in 1 .. Len(Covered[7]) : Covered[8][x] = Covered[7][x]
    BY <1>5, <1>6, <1>7
  <2>3. \A x \in 1 .. Len(Covered[5]) :
          Covered[8][Len(Covered[7]) + x] = Covered[5][x]
    BY <1>5, <1>6, <1>7
  <2>4. Covered[7] \in Seq(Names) /\ Covered[5] \in Seq(Names)
        /\ Covered[8] \in Seq(Names)
    BY <1>3
  <2> QED
    BY <2>1, <2>2, <2>3, <2>4, ConcatIs, Zenon
<1>11. Covered[6] \o Covered[8] = Covered[9]
  <2>1. Len(Covered[9]) = Len(Covered[6]) + Len(Covered[8])
    BY <1>5
  <2>2. \A x \in 1 .. Len(Covered[6]) : Covered[9][x] = Covered[6][x]
    BY <1>5, <1>6, <1>7
  <2>3. \A x \in 1 .. Len(Covered[8]) :
          Covered[9][Len(Covered[6]) + x] = Covered[8][x]
    BY <1>5, <1>6, <1>7
  <2>4. Covered[6] \in Seq(Names) /\ Covered[8] \in Seq(Names)
        /\ Covered[9] \in Seq(Names)
    BY <1>3
  <2> QED
    BY <2>1, <2>2, <2>3, <2>4, ConcatIs, Zenon
<1> QED
  BY <1>3, <1>4, <1>8, <1>9, <1>10, <1>11

\* The layer that a lot makes next is the one of its step.
LEMMA NewLayerCovers ==
  ASSUME WrapperInv, NEW l \in WrapLots, IsLayer(step[l])
  PROVE  /\ LayerOf(step[l]) = Made(step[l]) + 1
         /\ NewLayer(l) = Covered[LayerOf(step[l])]
         /\ NewLayer(l) \in Seq(Names)
<1> DEFINE n == LayerOf(step[l])
           pair == Aggregations[n - 5]
<1>1. step[l] \in 6 .. 14 /\ n = step[l] - 5 /\ Made(step[l]) = step[l] - 6
  <2>1. step[l] \in 0 .. 15
    BY StepNumbers DEF WrapperInv, WrapperTypeOK
  <2> QED
    BY <2>1, StepNumbers
<1>2. n \in 1 .. 9 /\ \A j \in 1 .. (n - 1) : layers[l][j] = Covered[j]
  BY <1>1 DEF WrapperInv, LayersInStep
<1>3. NewLayer(l) = IF n <= 5 THEN <<Inner[n]>>
                    ELSE layers[l][pair[1]] \o layers[l][pair[2]]
  BY StepNumbers, Zenon DEF NewLayer
<1>4. NewLayer(l) = Covered[n]
  <2> HIDE DEF n
  <2>1. CASE n \in 1 .. 5
    <3>1. NewLayer(l) = <<Inner[n]>>
      <4>1. n <= 5
        BY <2>1
      <4> QED
        BY <1>3, <4>1, Zenon
    <3> QED
      BY <2>1, <3>1, CoveredLayers
  <2>2. CASE n = 6
    <3>1. Aggregations[n - 5] = <<1, 2>>
      BY <2>2 DEF Aggregations
    <3>2. NewLayer(l) = layers[l][1] \o layers[l][2]
      <4>1. ~ (n <= 5) /\ pair[1] = 1 /\ pair[2] = 2
        BY <2>2, <3>1
      <4> QED
        BY <1>3, <4>1, Zenon
    <3>3. layers[l][1] = Covered[1] /\ layers[l][2] = Covered[2]
      BY <1>2, <2>2
    <3> QED
      BY <2>2, <3>2, <3>3, CoveredLayers, Zenon
  <2>3. CASE n = 7
    <3>1. Aggregations[n - 5] = <<3, 4>>
      BY <2>3 DEF Aggregations
    <3>2. NewLayer(l) = layers[l][3] \o layers[l][4]
      <4>1. ~ (n <= 5) /\ pair[1] = 3 /\ pair[2] = 4
        BY <2>3, <3>1
      <4> QED
        BY <1>3, <4>1, Zenon
    <3>3. layers[l][3] = Covered[3] /\ layers[l][4] = Covered[4]
      BY <1>2, <2>3
    <3> QED
      BY <2>3, <3>2, <3>3, CoveredLayers, Zenon
  <2>4. CASE n = 8
    <3>1. Aggregations[n - 5] = <<7, 5>>
      BY <2>4 DEF Aggregations
    <3>2. NewLayer(l) = layers[l][7] \o layers[l][5]
      <4>1. ~ (n <= 5) /\ pair[1] = 7 /\ pair[2] = 5
        BY <2>4, <3>1
      <4> QED
        BY <1>3, <4>1, Zenon
    <3>3. layers[l][7] = Covered[7] /\ layers[l][5] = Covered[5]
      BY <1>2, <2>4
    <3> QED
      BY <2>4, <3>2, <3>3, CoveredLayers, Zenon
  <2>5. CASE n = 9
    <3>1. Aggregations[n - 5] = <<6, 8>>
      BY <2>5 DEF Aggregations
    <3>2. NewLayer(l) = layers[l][6] \o layers[l][8]
      <4>1. ~ (n <= 5) /\ pair[1] = 6 /\ pair[2] = 8
        BY <2>5, <3>1
      <4> QED
        BY <1>3, <4>1, Zenon
    <3>3. layers[l][6] = Covered[6] /\ layers[l][8] = Covered[8]
      BY <1>2, <2>5
    <3> QED
      BY <2>5, <3>2, <3>3, CoveredLayers, Zenon
  <2> QED
    BY <1>2, <2>1, <2>2, <2>3, <2>4, <2>5
<1>5. Covered[n] \in Seq(Names)
  BY <1>2, CoveredLayers
<1> QED
  BY <1>1, <1>4, <1>5

\* No wrapper has begun, and the panic hook is the default one.
LEMMA WrapperInitially == ASSUME WrapperInit PROVE WrapperInv
<1>1. WrapperTypeOK
  <2>1. 0 \in 0 .. VerifyStep
    BY StepNumbers
  <2>2. <<>> \in Seq(Seq(Names))
    OBVIOUS
  <2> QED
    BY <2>1, <2>2 DEF WrapperInit, WrapperTypeOK
<1>2. LayersInStep
  <2>1. Made(0) = 0
    BY StepNumbers
  <2> QED
    BY <2>1 DEF WrapperInit, LayersInStep
<1>3. StepsAlone
  BY DEF WrapperInit, StepsAlone
<1> QED
  BY <1>1, <1>2, <1>3 DEF WrapperInv

\* A lot that takes no step of its wrapper, or none that moves it, keeps its
\* layers; one that leaves has none.
LEMMA LeaveKeeps ==
  ASSUME WrapperInv, NEW l \in WrapLots, Leave(l)
  PROVE  /\ step' \in [WrapLots -> 0 .. VerifyStep]
         /\ layers' \in [WrapLots -> Seq(Seq(Names))]
         /\ LayersInStep'
         /\ \A k \in WrapLots \ {l} : step'[k] = step[k]
<1>1. /\ step' = [step EXCEPT ![l] = 0]
      /\ layers' = [layers EXCEPT ![l] = <<>>]
      /\ step \in [WrapLots -> 0 .. VerifyStep]
      /\ layers \in [WrapLots -> Seq(Seq(Names))]
  BY DEF Leave, WrapperInv, WrapperTypeOK
<1>2. 0 \in 0 .. VerifyStep /\ Made(0) = 0
  BY StepNumbers
<1>3. <<>> \in Seq(Seq(Names)) /\ Len(<<>>) = 0
  OBVIOUS
<1>4. LayersInStep'
  <2> SUFFICES ASSUME NEW k \in WrapLots
               PROVE  /\ Len(layers'[k]) = Made(step'[k])
                      /\ \A i \in 1 .. Made(step'[k]) : layers'[k][i] = Covered[i]
    BY DEF LayersInStep
  <2>1. CASE k = l
    BY <1>1, <1>2, <1>3, <2>1
  <2>2. CASE k # l
    BY <1>1, <2>2 DEF WrapperInv, LayersInStep
  <2> QED
    BY <2>1, <2>2
<1> QED
  BY <1>1, <1>2, <1>3, <1>4

\* A wrapper that begins or proves a circuit does not touch the hook.
LEMMA EnterKeeps ==
  ASSUME WrapperInv, NEW l \in WrapLots, Enter(l) \/ ProveInner(l)
  PROVE  WrapperInv'
<1>1. step[l] \in 0 .. 5 /\ step' = [step EXCEPT ![l] = step[l] + 1]
  <2>1. step[l] \in 0 .. 15
    BY StepNumbers DEF WrapperInv, WrapperTypeOK
  <2> QED
    BY <2>1, StepNumbers DEF Enter, ProveInner
<1>2. UNCHANGED <<hook, taken, inside, layers, overlapped>>
  BY DEF Enter, ProveInner
<1>3. step \in [WrapLots -> 0 .. 15]
  BY StepNumbers DEF WrapperInv, WrapperTypeOK
<1>4. WrapperTypeOK'
  <2>1. step' \in [WrapLots -> 0 .. VerifyStep]
    BY <1>1, <1>3, StepNumbers
  <2> QED
    BY <1>2, <2>1 DEF WrapperInv, WrapperTypeOK
<1>5. Made(step[l]) = 0 /\ Made(step[l] + 1) = 0
  BY <1>1, StepNumbers
<1>6. LayersInStep'
  <2> SUFFICES ASSUME NEW k \in WrapLots
               PROVE  /\ Len(layers'[k]) = Made(step'[k])
                      /\ \A i \in 1 .. Made(step'[k]) : layers'[k][i] = Covered[i]
    BY DEF LayersInStep
  <2>1. Made(step'[k]) = Made(step[k])
    BY <1>1, <1>3, <1>5
  <2> QED
    BY <1>2, <2>1 DEF WrapperInv, LayersInStep
<1>7. ~ IsLayer(step[l])
  BY <1>1, StepNumbers
<1>8. StepsAlone'
  BY <1>1, <1>2, <1>3, <1>7 DEF WrapperInv, StepsAlone
<1> QED
  BY <1>4, <1>6, <1>8 DEF WrapperInv

\* A failed inner proof and the return end outside of a recursion_step.
LEMMA LeaveOutside ==
  ASSUME WrapperInv, NEW l \in WrapLots, InnerFails(l) \/ Return(l)
  PROVE  WrapperInv'
<1>1. Leave(l) /\ UNCHANGED <<hook, taken, inside, overlapped>>
  BY DEF InnerFails, Return
<1>2. ~ IsLayer(step[l])
  <2>1. step[l] \in 0 .. 15
    BY StepNumbers DEF WrapperInv, WrapperTypeOK
  <2> QED
    BY <2>1, StepNumbers DEF InnerFails, Return
<1>3. WrapperTypeOK'
  BY <1>1, LeaveKeeps DEF WrapperInv, WrapperTypeOK
<1>4. StepsAlone'
  <2>1. taken[l] = "none"
    BY <1>2 DEF WrapperInv, StepsAlone
  <2> QED
    BY <1>1, <2>1, LeaveKeeps DEF WrapperInv, StepsAlone
<1> QED
  BY <1>1, <1>3, <1>4, LeaveKeeps DEF WrapperInv

\* Taking the hook: a step that begins while another runs is an overlap.
LEMMA TakeHookKeeps ==
  ASSUME WrapperInv, NEW l \in WrapLots, TakeHook(l)
  PROVE  WrapperInv'
<1>1. /\ IsLayer(step[l]) /\ taken[l] = "none"
      /\ taken' = [taken EXCEPT ![l] = hook]
      /\ hook' = "default"
      /\ overlapped' = (overlapped \/ \E k \in WrapLots \ {l} : taken[k] # "none")
      /\ UNCHANGED <<step, inside, layers>>
  BY DEF TakeHook
<1>2. WrapperTypeOK'
  BY <1>1 DEF WrapperInv, WrapperTypeOK
<1>3. LayersInStep'
  BY <1>1 DEF WrapperInv, LayersInStep
<1>4. taken \in [WrapLots -> {"none", "default", "silent"}]
  BY DEF WrapperInv, WrapperTypeOK
<1>5. /\ \A k \in WrapLots : taken'[k] # "none" => IsLayer(step'[k])
      /\ \A k \in WrapLots : inside'[k] => taken'[k] # "none"
  BY <1>1, <1>4 DEF WrapperInv, WrapperTypeOK, StepsAlone
<1>6. ASSUME ~overlapped'
      PROVE  /\ \A j, k \in WrapLots : taken'[j] # "none" /\ taken'[k] # "none" => j = k
             /\ \A k \in WrapLots : taken'[k] # "silent"
             /\ hook' # "silent"
  <2>1. ~overlapped /\ \A k \in WrapLots \ {l} : taken[k] = "none"
    BY <1>1, <1>6
  <2>2. \A k \in WrapLots : ~inside[k]
    BY <1>1, <2>1 DEF WrapperInv, StepsAlone
  <2>3. hook = "default"
    BY <2>1, <2>2 DEF WrapperInv, WrapperTypeOK, StepsAlone
  <2> QED
    BY <1>1, <1>4, <2>1, <2>3
<1>7. StepsAlone'
  BY <1>5, <1>6 DEF StepsAlone
<1> QED
  BY <1>2, <1>3, <1>7 DEF WrapperInv

\* Silencing the hook, after another one has been taken.
LEMMA SilenceKeeps ==
  ASSUME WrapperInv, NEW l \in WrapLots, Silence(l)
  PROVE  WrapperInv'
<1>1. /\ taken[l] # "none"
      /\ hook' = "silent"
      /\ inside' = [inside EXCEPT ![l] = TRUE]
      /\ UNCHANGED <<step, taken, layers, overlapped>>
  BY DEF Silence
<1>2. WrapperTypeOK'
  BY <1>1 DEF WrapperInv, WrapperTypeOK
<1>3. LayersInStep'
  BY <1>1 DEF WrapperInv, LayersInStep
<1>4. inside'[l] /\ \A k \in WrapLots \ {l} : inside'[k] = inside[k]
  BY <1>1 DEF WrapperInv, WrapperTypeOK
<1>5. StepsAlone'
  BY <1>1, <1>4 DEF WrapperInv, StepsAlone
<1> QED
  BY <1>2, <1>3, <1>5 DEF WrapperInv

\* Putting the hook back: alone, the step puts back the default one.
LEMMA RestoreKeeps ==
  ASSUME WrapperInv, NEW l \in WrapLots, Restore(l),
         \A k \in WrapLots \ {l} : step'[k] = step[k]
  PROVE  /\ hook' \in {"default", "silent"}
         /\ taken' \in [WrapLots -> {"none", "default", "silent"}]
         /\ inside' \in [WrapLots -> BOOLEAN]
         /\ overlapped' \in BOOLEAN
         /\ StepsAlone'
<1>1. /\ inside[l]
      /\ hook' = taken[l]
      /\ taken' = [taken EXCEPT ![l] = "none"]
      /\ inside' = [inside EXCEPT ![l] = FALSE]
      /\ UNCHANGED overlapped
  BY DEF Restore
<1>2. taken \in [WrapLots -> {"none", "default", "silent"}] /\ inside \in [WrapLots -> BOOLEAN]
  BY DEF WrapperInv, WrapperTypeOK
<1>3. taken[l] # "none"
  BY <1>1 DEF WrapperInv, StepsAlone
<1>4. /\ taken'[l] = "none" /\ ~inside'[l]
      /\ \A k \in WrapLots \ {l} : taken'[k] = taken[k] /\ inside'[k] = inside[k]
  BY <1>1, <1>2
<1>5. /\ \A k \in WrapLots : taken'[k] # "none" => IsLayer(step'[k])
      /\ \A k \in WrapLots : inside'[k] => taken'[k] # "none"
  BY <1>4 DEF WrapperInv, StepsAlone
<1>6. ASSUME ~overlapped'
      PROVE  /\ \A j, k \in WrapLots : taken'[j] # "none" /\ taken'[k] # "none" => j = k
             /\ \A k \in WrapLots : taken'[k] # "silent"
             /\ hook' # "silent"
  BY <1>1, <1>4, <1>6 DEF WrapperInv, StepsAlone
<1>7. StepsAlone'
  BY <1>5, <1>6 DEF StepsAlone
<1> QED
  BY <1>1, <1>2, <1>3, <1>7 DEF WrapperInv, WrapperTypeOK

\* A step that fails or panics leaves with the hook put back.
LEMMA StepFailsKeeps ==
  ASSUME WrapperInv, NEW l \in WrapLots, StepFails(l)
  PROVE  WrapperInv'
<1>1. Restore(l) /\ Leave(l)
  BY DEF StepFails
<1> QED
  BY <1>1, LeaveKeeps, RestoreKeeps DEF WrapperInv, WrapperTypeOK

\* A step that succeeds adds the layer it made.
LEMMA StepDoneKeeps ==
  ASSUME WrapperInv, NEW l \in WrapLots, StepDone(l)
  PROVE  WrapperInv'
<1>1. /\ Restore(l)
      /\ layers' = [layers EXCEPT ![l] = Append(layers[l], NewLayer(l))]
      /\ step' = [step EXCEPT ![l] = step[l] + 1]
  BY DEF StepDone
<1>2. step \in [WrapLots -> 0 .. 15] /\ layers \in [WrapLots -> Seq(Seq(Names))]
  BY StepNumbers DEF WrapperInv, WrapperTypeOK
<1>3. IsLayer(step[l])
  BY <1>1 DEF Restore, WrapperInv, StepsAlone
<1>4. step[l] \in 6 .. 14
  BY <1>2, <1>3, StepNumbers
<1>5. Made(step[l]) = step[l] - 6 /\ Made(step[l] + 1) = step[l] - 5
  BY <1>4, StepNumbers
<1>6. step' \in [WrapLots -> 0 .. VerifyStep]
  <2>1. step[l] + 1 \in 0 .. 15
    BY <1>4
  <2>2. step' \in [WrapLots -> 0 .. 15]
    BY <1>1, <1>2, <2>1
  <2> QED
    BY <2>2, StepNumbers
<1>7. /\ NewLayer(l) \in Seq(Names)
      /\ NewLayer(l) = Covered[Made(step[l]) + 1]
  BY <1>3, NewLayerCovers
<1>8. layers[l] \in Seq(Seq(Names))
  BY <1>2
<1>9. /\ Append(layers[l], NewLayer(l)) \in Seq(Seq(Names))
      /\ Len(Append(layers[l], NewLayer(l))) = Len(layers[l]) + 1
      /\ Append(layers[l], NewLayer(l))[Len(layers[l]) + 1] = NewLayer(l)
      /\ \A i \in 1 .. Len(layers[l]) :
           Append(layers[l], NewLayer(l))[i] = layers[l][i]
  BY <1>7, <1>8, AppendProperties
<1>10. layers' \in [WrapLots -> Seq(Seq(Names))]
  BY <1>1, <1>2, <1>9
<1>11. LayersInStep'
  <2> SUFFICES ASSUME NEW k \in WrapLots
               PROVE  /\ Len(layers'[k]) = Made(step'[k])
                      /\ \A i \in 1 .. Made(step'[k]) : layers'[k][i] = Covered[i]
    BY DEF LayersInStep
  <2>1. CASE k = l
    <3>1. /\ layers'[l] = Append(layers[l], NewLayer(l))
          /\ step'[l] = step[l] + 1
      BY <1>1, <1>2
    <3>2. /\ Len(layers[l]) = step[l] - 6
          /\ \A i \in 1 .. (step[l] - 6) : layers[l][i] = Covered[i]
      BY <1>5 DEF WrapperInv, LayersInStep
    <3>3. \A i \in 1 .. (step[l] - 5) : i \in 1 .. (step[l] - 6) \/ i = step[l] - 5
      BY <1>4
    <3>4. step[l] - 6 + 1 = step[l] - 5
      BY <1>4
    <3>5. Len(layers'[l]) = step[l] - 5
      BY <1>9, <3>1, <3>2, <3>4
    <3>6. ASSUME NEW i \in 1 .. (step[l] - 5)
          PROVE  layers'[l][i] = Covered[i]
      BY <1>5, <1>7, <1>9, <3>1, <3>2, <3>3, <3>4
    <3> QED
      BY <1>5, <2>1, <3>1, <3>5, <3>6
  <2>2. CASE k # l
    BY <1>1, <1>2, <2>2 DEF WrapperInv, LayersInStep
  <2> QED
    BY <2>1, <2>2
<1>12. \A k \in WrapLots \ {l} : step'[k] = step[k]
  BY <1>1, <1>2
<1> QED
  BY <1>1, <1>6, <1>10, <1>11, <1>12, RestoreKeeps DEF WrapperInv, WrapperTypeOK

\* The wrapper's part of every step of a worker.
LEMMA WrapperKeeps ==
  ASSUME WrapperInv, NEW l \in WrapLots,
         \/ Enter(l) \/ WrapperSteps(l) \/ WrapperFails(l)
         \/ Return(l) \/ UNCHANGED wrapperVars
  PROVE  WrapperInv'
<1>1. CASE UNCHANGED wrapperVars
  BY <1>1 DEF wrapperVars, WrapperInv, WrapperTypeOK, LayersInStep, StepsAlone
<1> QED
  BY <1>1, EnterKeeps, LeaveOutside, TakeHookKeeps, SilenceKeeps, StepFailsKeeps,
     StepDoneKeeps
     DEF WrapperSteps, WrapperFails

-----------------------------------------------------------------------------

\* Every step of the program keeps the wrapper's invariant; a start resets it.
LEMMA NextKeepsWrapper == WrapperInv /\ [RunnerNext]_benchVars => WrapperInv'
<1> SUFFICES ASSUME WrapperInv, [RunnerNext]_benchVars PROVE WrapperInv'
  OBVIOUS
<1>1. CASE Start
  <2>1. WrapperInit'
    BY <1>1 DEF Start, WrapperInit
  <2> QED
    BY <2>1, WrapperInitially, PTL
<1>2. CASE Gather \/ Write \/ NextSize \/ Kill \/ UNCHANGED benchVars
  <2>1. UNCHANGED wrapperVars
    BY <1>2 DEF Gather, Write, NextSize, Kill, benchVars
  <2> QED
    BY <2>1 DEF wrapperVars, WrapperInv, WrapperTypeOK, LayersInStep, StepsAlone
<1>3. ASSUME NEW seed \in 1 .. Seeds,
             Take(seed) \/ RegularRow(seed) \/ BlockedRow(seed) \/ WrapperRow(seed)
      PROVE  WrapperInv'
  <2>1. seed \in WrapLots
    BY RunnerAssumption
  <2>2. \/ Enter(seed) \/ WrapperSteps(seed) \/ WrapperFails(seed)
        \/ Return(seed) \/ UNCHANGED wrapperVars
    BY <1>3 DEF Take, RegularRow, BlockedRow, WrapperRow
  <2> QED
    BY <2>1, <2>2, WrapperKeeps
<1> QED
  BY <1>1, <1>2, <1>3 DEF RunnerNext

\* The invariant of the wrapper holds throughout.
THEOREM WrapperInductive == RunnerSpec => []WrapperInv
<1>1. RunnerInit => WrapperInv
  BY WrapperInitially DEF RunnerInit
<1> QED
  BY <1>1, NextKeepsWrapper, PTL DEF RunnerSpec

\* The wrapper that is about to be verified covers each circuit once, in order.
THEOREM WrapperCovers == RunnerSpec => []CoversAll
<1>1. WrapperInv => CoversAll
  <2> SUFFICES ASSUME WrapperInv, NEW l \in WrapLots, step[l] = VerifyStep
               PROVE  layers[l][LastLayer] = Inner
    BY DEF CoversAll
  <2>1. Made(step[l]) = 9 /\ LastLayer = 9
    BY StepNumbers DEF LastLayer
  <2>2. layers[l][9] = Covered[9]
    BY <2>1 DEF WrapperInv, LayersInStep
  <2>3. Covered[9] = Inner
    BY DEF Covered
  <2> QED
    BY <2>1, <2>2, <2>3
<1> QED
  BY <1>1, WrapperInductive, PTL

\* Unless two steps overlapped, the default hook is back when none runs.
THEOREM HookPutBack == RunnerSpec => []HookRestored
<1>1. WrapperInv => HookRestored
  BY DEF WrapperInv, WrapperTypeOK, StepsAlone, HookRestored
<1> QED
  BY <1>1, WrapperInductive, PTL

-----------------------------------------------------------------------------

\* Rows with the types of the source.
RowType ==
  [run : Nat, events : Nat, seed : 1 .. Seeds, circuit : STRING, ok : BOOLEAN]

Active == {"grid", "write", "ok"}
Total == Len(LotSizes) * RowsPerSize

\* The rows of a seed at the current lot size: those of the first circuits, and
\* of all of them where the worker has left.
SeedRows(seed) ==
  /\ Len(work[seed]) <= Len(Circuits)
  /\ seed \in busy => Len(work[seed]) < Len(Circuits)
  /\ seed \notin busy /\ work[seed] # <<>> => Len(work[seed]) = Len(Circuits)
  /\ \A c \in DOMAIN work[seed] :
       /\ work[seed][c].run = run /\ work[seed][c].events = LotSizes[size]
       /\ work[seed][c].seed = seed /\ work[seed][c].circuit = Circuits[c]

RunnerTypeOK ==
  /\ status \in {"idle", "grid", "write", "ok", "failed", "killed"}
  /\ exists \in BOOLEAN /\ run \in Nat /\ jobs \in JobNumbers \cup {0}
  /\ file \in Seq(RowType) /\ unwritten \in Seq(RowType)
  /\ work \in [1 .. Seeds -> Seq(RowType)]

\* The file belongs to one run, the one that is active if any is; a run that is
\* active has made it, for a grid with at least one row.
OneRun ==
  /\ ~exists => file = <<>>
  /\ \A i, j \in DOMAIN file : file[i].run = file[j].run
  /\ status \in Active =>
       /\ exists /\ GridOk(jobs) /\ size \in 1 .. Len(LotSizes)
       /\ \A i \in DOMAIN file : file[i].run = run

\* How many rows are in the file, and what the workers and the writer hold.
Counted ==
  /\ Len(file) <= Total
  /\ status = "grid" => /\ Len(file) = (size - 1) * RowsPerSize
                        /\ \A seed \in 1 .. Seeds : SeedRows(seed)
  /\ status = "write" => /\ Len(file) + Len(unwritten) = size * RowsPerSize
                         /\ \A k \in DOMAIN unwritten : unwritten[k].run = run
                         /\ work = NoWork /\ busy = {}
  /\ status = "ok" => /\ Len(file) = Total
                      /\ Strict => \A i \in DOMAIN file : file[i].ok

\* The inductive invariant of the runner.
RunnerInv == RunnerTypeOK /\ OneRun /\ Counted

\* A row is the one of the grid's i-th cell.
OfCell(row, i) == Grid[i] = <<row.events, row.seed, row.circuit>>

\* The rows in the file, and those about to be written after them, are those of
\* the grid, in order.
GridInv ==
  /\ \A i \in DOMAIN file : OfCell(file[i], i)
  /\ status = "write" => \A k \in DOMAIN unwritten : OfCell(unwritten[k], Len(file) + k)

-----------------------------------------------------------------------------

\* Least-number principle: a set of naturals that is not empty has a least
\* element.  The subsets of 0 .. t are well-founded by inclusion.
LEMMA Least ==
  ASSUME NEW T \in SUBSET Nat, T # {}
  PROVE  \E x \in T : \A y \in T : x <= y
<1>1. PICK t \in T : TRUE
  OBVIOUS
<1> DEFINE S == 0 .. t
           Below(n) == {m \in S : m < n}
           Small == {Below(n) : n \in {x \in T : x <= t}}
<1>2. IsFiniteSet(S) /\ t \in Nat
  BY FS_Interval
<1>3. IsWellFoundedOn(StrictSubsetOrdering(S), FiniteSubsetsOf(S))
  BY <1>2, FS_StrictSubsetOrderingWellFounded
<1>4. Small \subseteq FiniteSubsetsOf(S) /\ Small # {}
  <2>1. Below(t) \in Small
    BY <1>2
  <2>2. \A n : Below(n) \in SUBSET S
    OBVIOUS
  <2>3. \A n : Below(n) \in FiniteSubsetsOf(S)
    <3> HIDE DEF S, Below
    <3> QED
      BY <1>2, <2>2, FS_Subset, FS_FiniteSubsetsOfFinite
  <2>4. \A b \in Small : \E n : b = Below(n)
    OBVIOUS
  <2> HIDE DEF Small, Below
  <2> QED
    BY <2>1, <2>3, <2>4
<1>5. PICK b \in Small : \A c \in Small : ~ (<<c, b>> \in StrictSubsetOrdering(S))
  <2> HIDE DEF Small, S
  <2> QED
    BY <1>3, <1>4, WFMin
<1>6. PICK n \in T : n <= t /\ b = Below(n)
  BY <1>5
<1>7. ASSUME NEW m \in T, m < n PROVE FALSE
  <2>1. Below(m) \in Small
    BY <1>2, <1>6, <1>7
  <2>2. m \in Below(n) /\ m \notin Below(m) /\ Below(m) \subseteq Below(n)
    BY <1>2, <1>6, <1>7
  <2>3. <<Below(m), b>> \in StrictSubsetOrdering(S)
    BY <2>2, <1>6 DEF StrictSubsetOrdering
  <2> QED
    BY <1>5, <2>1, <2>3
<1> QED
  BY <1>6, <1>7

\* The position of a circuit in the list, 0 for one that is not in it.
LEMMA PositionNat ==
  ASSUME NEW row
  PROVE  Position(row) \in Nat
<1> DEFINE I == {i \in 1 .. Len(Circuits) : Circuits[i] = row.circuit}
<1>1. Len(Circuits) \in Nat
  BY RunnerAssumption
<1>2. CASE I = {}
  BY <1>2 DEF Position, SelectInSeq
<1>3. CASE I # {}
  <2>1. Position(row) = Min(I)
    BY <1>3 DEF Position, SelectInSeq
  <2>2. I \in SUBSET Nat
    BY <1>1
  <2>3. \E x \in I : \A y \in I : x <= y
    BY <1>3, <2>2, Least
  <2> QED
    BY <2>1, <2>2, <2>3 DEF Min
<1> QED
  BY <1>2, <1>3

\* No circuit is listed twice.
Unrepeated == \A i, j \in 1 .. Len(Circuits) : Circuits[i] = Circuits[j] => i = j

\* A circuit listed once is where the list has it.
LEMMA PositionOf ==
  ASSUME Unrepeated, NEW c \in 1 .. Len(Circuits), NEW row, row.circuit = Circuits[c]
  PROVE  Position(row) = c
<1> DEFINE I == {i \in 1 .. Len(Circuits) : Circuits[i] = row.circuit}
<1>1. Len(Circuits) \in Nat
  BY RunnerAssumption
<1>2. I = {c}
  BY DEF Unrepeated
<1>3. Position(row) = Min(I)
  BY <1>2 DEF Position, SelectInSeq
<1> HIDE DEF I
<1> QED
  BY <1>1, <1>2, <1>3 DEF Min

\* The stable sort is a permutation: every place has a row, whichever circuits
\* are listed, also one of them twice.
LEMMA RankedIsRow ==
  ASSUME NEW n \in Nat, NEW own, DOMAIN own = 1 .. n, NEW place \in 1 .. n
  PROVE  \E i \in 1 .. n : Ranked(own, place) = own[i]
<1> DEFINE Upto(i) == {j \in 1 .. n : NotAfter(own, j, i)}
           rank == [i \in 1 .. n |-> Cardinality(Upto(i))]
<1>1. IsFiniteSet(1 .. n) /\ Cardinality(1 .. n) = n
  BY FS_Interval
<1>2. \A i \in 1 .. n : Position(own[i]) \in Nat
  BY PositionNat
<1>3. /\ \A i \in 1 .. n : i \in Upto(i)
      /\ \A i, j \in 1 .. n : i # j => ~ (i \in Upto(j) /\ j \in Upto(i))
      /\ \A i, j \in 1 .. n : i \in Upto(j) \/ j \in Upto(i)
      /\ \A i, j \in 1 .. n : i \in Upto(j) => Upto(i) \subseteq Upto(j)
  BY <1>2 DEF NotAfter
<1>4. \A i : Upto(i) \in SUBSET (1 .. n)
  OBVIOUS
<1>5. ASSUME NEW i \in 1 .. n
      PROVE  /\ IsFiniteSet(Upto(i)) /\ Cardinality(Upto(i)) \in 1 .. n
  <2> HIDE DEF Upto
  <2>1. IsFiniteSet(Upto(i)) /\ Cardinality(Upto(i)) <= n
    BY <1>1, <1>4, FS_Subset
  <2>2. Cardinality(Upto(i)) \in Nat /\ Cardinality(Upto(i)) # 0
    BY <1>3, <2>1, FS_CardinalityType, FS_EmptySet
  <2> QED
    BY <2>1, <2>2
<1>6. ASSUME NEW i \in 1 .. n, NEW j \in 1 .. n, i # j, i \in Upto(j)
      PROVE  Cardinality(Upto(i)) # Cardinality(Upto(j))
  <2>1. Upto(i) \subseteq Upto(j) /\ j \in Upto(j) /\ j \notin Upto(i)
    BY <1>3, <1>6
  <2> HIDE DEF Upto
  <2> QED
    BY <1>5, <2>1, FS_Subset
<1>7. rank \in Injection(1 .. n, 1 .. n)
  <2>1. \A i, j \in 1 .. n : rank[i] = rank[j] => i = j
    <3> HIDE DEF Upto
    <3> QED
      BY <1>3, <1>6
  <2>2. rank \in [1 .. n -> 1 .. n]
    <3> HIDE DEF Upto
    <3> QED
      BY <1>5
  <2> HIDE DEF rank
  <2> QED
    BY <2>1, <2>2 DEF Injection, IsInjective
<1>8. \E i \in 1 .. n : rank[i] = place
  <2> HIDE DEF rank
  <2>1. rank \in Surjection(1 .. n, 1 .. n)
    BY <1>1, <1>7, FS_Injection
  <2> QED
    BY <2>1 DEF Surjection
<1>9. \E i \in DOMAIN own : Cardinality({j \in DOMAIN own : NotAfter(own, j, i)}) = place
  BY <1>8
<1> QED
  BY <1>9 DEF Ranked

\* Where no circuit is listed twice the sort leaves a seed's rows as they were.
LEMMA RankedIsSame ==
  ASSUME Unrepeated, NEW own, DOMAIN own = 1 .. Len(Circuits),
         \A c \in DOMAIN own : own[c].circuit = Circuits[c],
         NEW place \in 1 .. Len(Circuits)
  PROVE  Ranked(own, place) = own[place]
<1>1. Len(Circuits) \in Nat
  BY RunnerAssumption
<1>2. \A i \in DOMAIN own : Position(own[i]) = i
  BY PositionOf
<1>3. ASSUME NEW i \in DOMAIN own
      PROVE  Cardinality({j \in DOMAIN own : NotAfter(own, j, i)}) = i
  <2>1. {j \in DOMAIN own : NotAfter(own, j, i)} = 1 .. i
    BY <1>1, <1>2 DEF NotAfter
  <2>2. i \in Int /\ ~ (1 > i) /\ i - 1 + 1 = i
    BY <1>1
  <2>3. Cardinality(1 .. i) = i
    BY <2>2, FS_Interval
  <2> QED
    BY <2>1, <2>3
<1> QED
  BY <1>1, <1>3 DEF Ranked

-----------------------------------------------------------------------------

\* The numbers of the grid's cells.
LEMMA Sizes ==
  /\ Seeds \in Nat /\ Len(Circuits) \in Nat /\ Len(LotSizes) \in Nat
  /\ RowsPerSize \in Nat /\ Total \in Nat
  /\ RowsPerSize = Seeds * Len(Circuits)
  /\ Total = Len(LotSizes) * RowsPerSize
<1>1. Seeds \in Nat /\ Len(Circuits) \in Nat /\ Len(LotSizes) \in Nat
  BY RunnerAssumption
<1>2. RowsPerSize \in Nat /\ RowsPerSize = Seeds * Len(Circuits)
  BY <1>1 DEF RowsPerSize
<1> QED
  BY <1>1, <1>2 DEF Total

\* A grid that is run has a row for every seed.
LEMMA GridNotEmpty ==
  ASSUME NEW number, GridOk(number)
  PROVE  Seeds > 0 /\ Len(Circuits) > 0 /\ Len(LotSizes) > 0 /\ RowsPerSize > 0
<1>1. Seeds # 0 /\ LotSizes # <<>> /\ Circuits # <<>>
  BY DEF GridOk
<1>2. Len(LotSizes) # 0 /\ Len(Circuits) # 0
  BY <1>1, RunnerAssumption, EmptySeq
<1>3. Seeds > 0 /\ Len(Circuits) > 0 /\ Len(LotSizes) > 0
  BY <1>1, <1>2, Sizes
<1>4. \A a, b \in Nat : a > 0 /\ b > 0 => a * b > 0
  OBVIOUS
<1> QED
  BY <1>3, <1>4, Sizes

\* Quotient and remainder of a number below a multiple.
LEMMA DivBound ==
  ASSUME NEW k \in Nat, NEW n \in Nat, n > 0, NEW q \in Nat, k < q * n
  PROVE  k \div n \in 0 .. (q - 1) /\ k % n \in 0 .. (n - 1)
<1>1. k \div n \in Nat /\ k \div n < q
  OBVIOUS
<1>2. k % n \in 0 .. (n - 1)
  OBVIOUS
<1> QED
  BY <1>1, <1>2

\* Quotient and remainder of a multiple and a rest.
LEMMA DivOfSum ==
  ASSUME NEW q \in Nat, NEW n \in Nat, n > 0, NEW r \in 0 .. (n - 1)
  PROVE  (q * n + r) \div n = q /\ (q * n + r) % n = r
OBVIOUS

\* The remainder of a smaller number.
LEMMA ModOfSmall ==
  ASSUME NEW n \in Nat, NEW r \in 0 .. (n - 1)
  PROVE  r % n = r
OBVIOUS

\* The remainder is a natural number.
LEMMA ModNat ==
  ASSUME NEW k \in Nat, NEW n \in Nat, n > 0
  PROVE  k % n \in Nat
OBVIOUS

\* One more of a multiple.
LEMMA Products ==
  ASSUME NEW k \in Nat, NEW n \in Nat
  PROVE  k * n \in Nat /\ (k + 1) * n = k * n + n
OBVIOUS

\* Whole lot sizes do not move the place of a circuit.
LEMMA ModOfSum ==
  ASSUME Len(Circuits) > 0, NEW q \in Nat, NEW k \in Nat
  PROVE  (q * RowsPerSize + k) % Len(Circuits) = k % Len(Circuits)
<1> DEFINE n == Len(Circuits)
           d == k \div n
           r == k % n
<1>1. n \in Nat /\ n > 0 /\ RowsPerSize = Seeds * n /\ Seeds \in Nat
  BY Sizes
<1> HIDE DEF n
<1>2. d \in Nat /\ r \in 0 .. (n - 1) /\ k = d * n + r
  BY <1>1
<1>3. \A a, b, c \in Nat : a * (b * c) = (a * b) * c /\ (a + b) * c = a * c + b * c
  OBVIOUS
<1> HIDE DEF d, r
<1>4. q * Seeds \in Nat /\ q * Seeds + d \in Nat
  BY <1>1, <1>2
<1>5. q * RowsPerSize + k = (q * Seeds + d) * n + r
  BY <1>1, <1>2, <1>3, <1>4
<1>6. ((q * Seeds + d) * n + r) % n = r
  BY <1>1, <1>2, <1>4, DivOfSum
<1> QED
  BY <1>5, <1>6 DEF r, n

\* Each index of the rows of a size has a seed and a circuit.
LEMMA Cells ==
  ASSUME Len(Circuits) > 0, NEW k \in 1 .. RowsPerSize
  PROVE  SeedAt(k) \in 1 .. Seeds /\ PlaceAt(k) \in 1 .. Len(Circuits)
<1>1. k - 1 \in Nat /\ k - 1 < Seeds * Len(Circuits)
  BY Sizes
<1>2. (k - 1) \div Len(Circuits) \in 0 .. (Seeds - 1)
  BY <1>1, Sizes, DivBound
<1>3. (k - 1) % Len(Circuits) \in 0 .. (Len(Circuits) - 1)
  BY <1>1, Sizes, DivBound
<1> QED
  BY <1>2, <1>3, Sizes DEF SeedAt, PlaceAt

\* The cells of the e-th lot size.
LEMMA GridAt ==
  ASSUME Len(Circuits) > 0, RowsPerSize > 0, NEW e \in 1 .. Len(LotSizes),
         NEW k \in 1 .. RowsPerSize
  PROVE  /\ Grid[(e - 1) * RowsPerSize + k]
              = <<LotSizes[e], SeedAt(k), Circuits[PlaceAt(k)]>>
         /\ e * RowsPerSize <= Total
         /\ (e - 1) * RowsPerSize + RowsPerSize = e * RowsPerSize
<1> DEFINE q == e - 1
           r == k - 1
           i == q * RowsPerSize + k
<1>1. q \in Nat /\ r \in 0 .. (RowsPerSize - 1) /\ r \in Nat /\ e = q + 1 /\ k = r + 1
  BY Sizes
<1>2. \A a, b, c \in Nat : a <= b => a * c <= b * c
  OBVIOUS
<1>3. \A a, c \in Nat : (a + 1) * c = a * c + c
  OBVIOUS
<1>4. e * RowsPerSize <= Total
  BY <1>2, Sizes
<1> HIDE DEF q, r
<1>5. q * RowsPerSize + RowsPerSize = e * RowsPerSize
  BY <1>1, <1>3, Sizes
<1>6. q * RowsPerSize \in Nat /\ i = q * RowsPerSize + r + 1
  BY <1>1, Sizes
<1>7. i \in 1 .. Total /\ i - 1 = q * RowsPerSize + r
  BY <1>1, <1>4, <1>5, <1>6, Sizes
<1>8. (i - 1) \div RowsPerSize = q /\ (i - 1) % RowsPerSize = r
  <2>1. (q * RowsPerSize + r) \div RowsPerSize = q /\ (q * RowsPerSize + r) % RowsPerSize = r
    BY <1>1, Sizes, DivOfSum
  <2> HIDE DEF i
  <2> QED
    BY <1>7, <2>1
<1>9. (i - 1) % Len(Circuits) = r % Len(Circuits)
  <2>1. (q * RowsPerSize + r) % Len(Circuits) = r % Len(Circuits)
    BY <1>1, ModOfSum
  <2> HIDE DEF i
  <2> QED
    BY <1>7, <2>1
<1>10. PlaceAt(i) = PlaceAt(k)
  BY <1>9 DEF PlaceAt, r
<1> HIDE DEF i
<1>11. Grid[i] = <<LotSizes[q + 1], SeedAt(r + 1), Circuits[PlaceAt(i)]>>
  BY <1>7, <1>8, Sizes DEF Grid
<1> QED
  BY <1>1, <1>4, <1>5, <1>10, <1>11 DEF q, i

-----------------------------------------------------------------------------

\* What Gather hands to the writer: a full lot size of this run's rows.
LEMMA SortedIsGrid ==
  ASSUME RunnerInv, Gather
  PROVE  /\ Sorted \in Seq(RowType) /\ Len(Sorted) = RowsPerSize
         /\ DOMAIN Sorted = 1 .. RowsPerSize
         /\ \A k \in 1 .. RowsPerSize : Sorted[k].run = run
         /\ Unrepeated \/ jobs = 1 =>
              \A k \in 1 .. RowsPerSize : OfCell(Sorted[k], Len(file) + k)
<1> DEFINE n == Len(Circuits)
           own(seed) == work[seed]
<1>1. /\ status = "grid" /\ busy = {}
      /\ \A seed \in 1 .. Seeds : work[seed] # <<>>
  BY DEF Gather
<1>2. /\ n > 0 /\ RowsPerSize > 0 /\ size \in 1 .. Len(LotSizes)
      /\ Len(file) = (size - 1) * RowsPerSize
      /\ work \in [1 .. Seeds -> Seq(RowType)]
  BY <1>1, GridNotEmpty DEF RunnerInv, RunnerTypeOK, OneRun, Counted, Active
<1>3. \A seed \in 1 .. Seeds : SeedRows(seed)
  BY <1>1 DEF RunnerInv, Counted
<1>4. \A seed \in 1 .. Seeds : /\ DOMAIN work[seed] = 1 .. n
                               /\ work[seed] \in Seq(RowType)
  <2> SUFFICES ASSUME NEW seed \in 1 .. Seeds
               PROVE  DOMAIN work[seed] = 1 .. n /\ work[seed] \in Seq(RowType)
    OBVIOUS
  <2>1. work[seed] \in Seq(RowType)
    BY <1>2
  <2>2. Len(work[seed]) = n
    BY <1>1, <1>3 DEF SeedRows
  <2> QED
    BY <2>1, <2>2
<1>5. ASSUME NEW k \in 1 .. RowsPerSize
      PROVE  /\ \E c \in 1 .. n : Sorted[k] = work[SeedAt(k)][c]
             /\ Unrepeated \/ jobs = 1 => Sorted[k] = work[SeedAt(k)][PlaceAt(k)]
  <2>1. SeedAt(k) \in 1 .. Seeds /\ PlaceAt(k) \in 1 .. n
    BY <1>2, Cells
  <2>2. Sorted[k] = IF jobs = 1 THEN work[SeedAt(k)][PlaceAt(k)]
                    ELSE Ranked(work[SeedAt(k)], PlaceAt(k))
    BY Sizes DEF Sorted
  <2>3. DOMAIN work[SeedAt(k)] = 1 .. n
    BY <1>4, <2>1
  <2>4. \E c \in 1 .. n : Ranked(work[SeedAt(k)], PlaceAt(k)) = work[SeedAt(k)][c]
    <3>1. n \in Nat
      BY Sizes
    <3> QED
      BY <2>1, <2>3, <3>1, RankedIsRow, Zenon
  <2>5. Unrepeated => Ranked(work[SeedAt(k)], PlaceAt(k)) = work[SeedAt(k)][PlaceAt(k)]
    <3>1. \A c \in DOMAIN work[SeedAt(k)] : work[SeedAt(k)][c].circuit = Circuits[c]
      BY <1>3, <2>1 DEF SeedRows
    <3> QED
      BY <2>1, <2>3, <3>1, RankedIsSame
  <2> QED
    BY <2>1, <2>2, <2>4, <2>5
<1>6. ASSUME NEW k \in 1 .. RowsPerSize
      PROVE  Sorted[k] \in RowType /\ Sorted[k].run = run
  <2>1. PICK c \in 1 .. n : Sorted[k] = work[SeedAt(k)][c]
    BY <1>5
  <2>2. SeedAt(k) \in 1 .. Seeds
    BY <1>2, Cells
  <2>3. work[SeedAt(k)] \in Seq(RowType) /\ c \in DOMAIN work[SeedAt(k)]
    BY <1>4, <2>2
  <2>4. work[SeedAt(k)][c] \in RowType
    BY <2>3
  <2>5. work[SeedAt(k)][c].run = run
    BY <1>3, <2>2, <2>3 DEF SeedRows
  <2> QED
    BY <2>1, <2>4, <2>5
<1>7. DOMAIN Sorted = 1 .. RowsPerSize
  BY Sizes DEF Sorted
<1>8. Sorted \in Seq(RowType) /\ Len(Sorted) = RowsPerSize
  <2>1. Sorted = [k \in 1 .. RowsPerSize |-> Sorted[k]]
    BY Sizes DEF Sorted
  <2>2. Sorted \in [1 .. RowsPerSize -> RowType]
    BY <1>6, <2>1
  <2> HIDE DEF Sorted
  <2> QED
    BY <2>2, Sizes, SeqDef
<1>9. ASSUME Unrepeated \/ jobs = 1, NEW k \in 1 .. RowsPerSize
      PROVE  OfCell(Sorted[k], Len(file) + k)
  <2>1. SeedAt(k) \in 1 .. Seeds /\ PlaceAt(k) \in DOMAIN work[SeedAt(k)]
    BY <1>2, <1>4, Cells
  <2>2. /\ Sorted[k].events = LotSizes[size]
        /\ Sorted[k].seed = SeedAt(k)
        /\ Sorted[k].circuit = Circuits[PlaceAt(k)]
    BY <1>3, <1>5, <1>9, <2>1 DEF SeedRows
  <2>3. Grid[Len(file) + k] = <<LotSizes[size], SeedAt(k), Circuits[PlaceAt(k)]>>
    BY <1>2, GridAt
  <2> QED
    BY <2>2, <2>3 DEF OfCell
<1> QED
  BY <1>6, <1>7, <1>8, <1>9

-----------------------------------------------------------------------------

\* Before the program is started there is no file.
LEMMA RunnerInitially == RunnerInit => RunnerInv /\ GridInv
<1> SUFFICES ASSUME RunnerInit PROVE RunnerInv /\ GridInv
  OBVIOUS
<1>1. /\ status = "idle" /\ exists = FALSE /\ run = 0 /\ jobs = 0
      /\ file = <<>> /\ unwritten = <<>> /\ work = [seed \in 1 .. Seeds |-> <<>>]
  BY DEF RunnerInit, NoWork
<1>2. <<>> \in Seq(RowType) /\ Len(<<>>) = 0 /\ DOMAIN <<>> = {}
  BY EmptySeq
<1>3. RunnerTypeOK
  BY <1>1, <1>2 DEF RunnerTypeOK
<1>4. OneRun /\ Counted /\ GridInv
  BY <1>1, <1>2, Sizes DEF OneRun, Counted, Active, GridInv
<1> QED
  BY <1>3, <1>4 DEF RunnerInv

\* A start with an output file that exists leaves it as it is.
LEMMA StartKeeps ==
  ASSUME RunnerInv, Start
  PROVE  RunnerInv' /\ (GridInv => GridInv')
<1>1. /\ run' = run + 1 /\ jobs' \in JobNumbers /\ file' = file
      /\ work' = [seed \in 1 .. Seeds |-> <<>>] /\ busy' = {} /\ unwritten' = <<>>
  BY DEF Start, NoWork
<1>2. \/ /\ GridOk(jobs') /\ ~exists
         /\ exists' = TRUE /\ status' = "grid" /\ size' = 1
      \/ exists' = exists /\ status' = "failed"
  BY DEF Start, CreateNew
<1>3. <<>> \in Seq(RowType) /\ Len(<<>>) = 0 /\ DOMAIN <<>> = {}
  BY EmptySeq
<1>4. RunnerTypeOK'
  <2>1. status' \in {"idle", "grid", "write", "ok", "failed", "killed"} /\ exists' \in BOOLEAN
    BY <1>2 DEF RunnerInv, RunnerTypeOK
  <2>2. run' \in Nat /\ jobs' \in JobNumbers \cup {0} /\ file' \in Seq(RowType)
    BY <1>1 DEF RunnerInv, RunnerTypeOK
  <2>3. unwritten' \in Seq(RowType) /\ work' \in [1 .. Seeds -> Seq(RowType)]
    BY <1>1, <1>3
  <2> QED
    BY <2>1, <2>2, <2>3 DEF RunnerTypeOK
<1>5. CASE status' = "failed"
  <2>1. exists' = exists
    BY <1>2, <1>5
  <2>2. OneRun' /\ Counted'
    BY <1>1, <1>5, <2>1 DEF RunnerInv, OneRun, Counted, Active, Total
  <2>3. GridInv => GridInv'
    BY <1>1, <1>5 DEF GridInv, OfCell
  <2> QED
    BY <1>4, <2>2, <2>3 DEF RunnerInv
<1>6. CASE status' = "grid"
  <2>1. GridOk(jobs') /\ ~exists /\ exists' = TRUE /\ size' = 1
    BY <1>2, <1>6
  <2>2. file = <<>> /\ file' = <<>>
    BY <1>1, <2>1 DEF RunnerInv, OneRun
  <2>3. 1 \in 1 .. Len(LotSizes) /\ Len(Circuits) > 0
    BY <2>1, GridNotEmpty, Sizes
  <2>4. OneRun'
    BY <1>3, <1>6, <2>1, <2>2, <2>3 DEF OneRun
  <2>5. (size' - 1) * RowsPerSize = 0
    BY <2>1, Sizes
  <2>6. \A seed \in 1 .. Seeds : SeedRows(seed)'
    BY <1>1, <1>3, <2>3 DEF SeedRows
  <2>7. Counted'
    BY <1>3, <1>6, <2>2, <2>5, <2>6, Sizes DEF Counted, Total
  <2>8. GridInv => GridInv'
    BY <1>3, <1>6, <2>2 DEF GridInv
  <2> QED
    BY <1>4, <2>4, <2>7, <2>8 DEF RunnerInv
<1> QED
  BY <1>2, <1>5, <1>6

\* A worker takes a seed it has not begun.
LEMMA TakeKeeps ==
  ASSUME RunnerInv, NEW seed \in 1 .. Seeds, Take(seed)
  PROVE  RunnerInv' /\ (GridInv => GridInv')
<1>1. /\ status = "grid" /\ work[seed] = <<>> /\ busy' = busy \cup {seed}
      /\ UNCHANGED <<jobs, exists, file, run, status, size, work, unwritten>>
  BY DEF Take
<1>2. Len(<<>>) = 0 /\ Len(Circuits) > 0
  BY <1>1, EmptySeq, GridNotEmpty DEF RunnerInv, OneRun, Active
<1>3. RunnerTypeOK' /\ OneRun'
  BY <1>1 DEF RunnerInv, RunnerTypeOK, OneRun
<1>4. \A s \in 1 .. Seeds : SeedRows(s)'
  BY <1>1, <1>2 DEF RunnerInv, Counted, SeedRows
<1>5. Counted'
  BY <1>1, <1>4 DEF RunnerInv, Counted, Total
<1>6. GridInv => GridInv'
  BY <1>1 DEF GridInv, OfCell
<1> QED
  BY <1>3, <1>5, <1>6 DEF RunnerInv

\* A row is added to a seed that a worker is at.
LEMMA DoneKeeps ==
  ASSUME RunnerInv, NEW seed \in 1 .. Seeds, NEW ok \in BOOLEAN,
         status = "grid", seed \in busy, Done(seed, ok)
  PROVE  RunnerInv' /\ (GridInv => GridInv')
<1> DEFINE row == MetricRow(seed, ok)
           n == Len(work[seed])
<1>1. /\ work' = [work EXCEPT ![seed] = Append(work[seed], row)]
      /\ busy' = IF n + 1 = Len(Circuits) THEN busy \ {seed} ELSE busy
      /\ UNCHANGED <<jobs, exists, file, run, status, size, unwritten>>
  BY DEF Done
<1>2. /\ work \in [1 .. Seeds -> Seq(RowType)] /\ run \in Nat
      /\ size \in 1 .. Len(LotSizes)
      /\ \A s \in 1 .. Seeds : SeedRows(s)
  BY DEF RunnerInv, RunnerTypeOK, OneRun, Counted, Active
<1>3. n \in Nat /\ n < Len(Circuits) /\ work[seed] \in Seq(RowType)
  BY <1>2 DEF SeedRows
<1>4. row = [run |-> run, events |-> LotSizes[size], seed |-> seed,
             circuit |-> Circuits[n + 1], ok |-> ok]
  BY DEF MetricRow
<1>5. n + 1 \in 1 .. Len(Circuits)
  BY <1>3, Sizes
<1>6. LotSizes[size] \in Nat /\ Circuits[n + 1] \in STRING
  BY <1>2, <1>5, RunnerAssumption, ElementOfSeq
<1>7. row \in RowType
  BY <1>2, <1>4, <1>6 DEF RowType
<1> HIDE DEF row
<1>8. /\ Append(work[seed], row) \in Seq(RowType)
      /\ Len(Append(work[seed], row)) = n + 1
      /\ Append(work[seed], row)[n + 1] = row
      /\ \A i \in 1 .. n : Append(work[seed], row)[i] = work[seed][i]
  BY <1>3, <1>7, AppendProperties
<1>9. work' \in [1 .. Seeds -> Seq(RowType)]
  BY <1>1, <1>2, <1>8
<1>10. RunnerTypeOK' /\ OneRun'
  BY <1>1, <1>9 DEF RunnerInv, RunnerTypeOK, OneRun
<1>11. ASSUME NEW s \in 1 .. Seeds PROVE SeedRows(s)'
  <2>1. CASE s # seed
    <3>1. work'[s] = work[s] /\ (s \in busy' <=> s \in busy)
      BY <1>1, <1>2, <2>1
    <3> QED
      BY <1>1, <1>2, <3>1 DEF SeedRows
  <2>2. CASE s = seed
    <3>1. work'[s] = Append(work[seed], row)
      BY <1>1, <1>2, <2>2
    <3>2. Len(work'[s]) = n + 1 /\ DOMAIN work'[s] = 1 .. (n + 1)
      BY <1>8, <3>1
    <3>3. \A c \in 1 .. n :
            /\ work[seed][c].run = run /\ work[seed][c].events = LotSizes[size]
            /\ work[seed][c].seed = seed /\ work[seed][c].circuit = Circuits[c]
      BY <1>2, <1>3 DEF SeedRows
    <3>4. ASSUME NEW c \in 1 .. (n + 1)
          PROVE  /\ work'[s][c].run = run
                 /\ work'[s][c].events = LotSizes[size]
                 /\ work'[s][c].seed = s /\ work'[s][c].circuit = Circuits[c]
      <4>1. CASE c = n + 1
        <5>1. work'[s][c] = row
          BY <1>8, <3>1, <4>1
        <5> QED
          BY <1>4, <2>2, <4>1, <5>1
      <4>2. CASE c \in 1 .. n
        <5>1. work'[s][c] = work[seed][c]
          BY <1>8, <3>1, <4>2
        <5> QED
          BY <2>2, <3>3, <4>2, <5>1
      <4> QED
        BY <1>3, <4>1, <4>2
    <3>5. /\ s \in busy' => n + 1 # Len(Circuits)
          /\ s \notin busy' => n + 1 = Len(Circuits)
      BY <1>1, <2>2
    <3>6. /\ Len(work'[s]) <= Len(Circuits)
          /\ s \in busy' => Len(work'[s]) < Len(Circuits)
          /\ s \notin busy' => Len(work'[s]) = Len(Circuits)
      BY <1>5, <3>2, <3>5, Sizes
    <3>7. run' = run /\ size' = size
      BY <1>1
    <3>8. \A c \in DOMAIN work'[s] :
            /\ work'[s][c].run = run' /\ work'[s][c].events = LotSizes[size']
            /\ work'[s][c].seed = s /\ work'[s][c].circuit = Circuits[c]
      BY <3>2, <3>4, <3>7
    <3> QED
      BY <3>6, <3>8 DEF SeedRows
  <2> QED
    BY <2>1, <2>2
<1>12. Counted'
  BY <1>1, <1>11 DEF RunnerInv, Counted, Total
<1>13. GridInv => GridInv'
  BY <1>1 DEF GridInv, OfCell
<1> QED
  BY <1>10, <1>12, <1>13 DEF RunnerInv

\* All seeds are done: their rows are sorted and handed to the writer.
LEMMA GatherKeeps ==
  ASSUME RunnerInv, Gather
  PROVE  /\ RunnerInv'
         /\ Unrepeated \/ JobNumbers \subseteq {0, 1} => (GridInv => GridInv')
<1>1. /\ status = "grid" /\ unwritten' = Sorted /\ status' = "write"
      /\ work' = [seed \in 1 .. Seeds |-> <<>>]
      /\ UNCHANGED <<jobs, exists, file, run, size, busy>>
  BY DEF Gather, NoWork
<1>2. GridOk(jobs) /\ size \in 1 .. Len(LotSizes) /\ Len(file) = (size - 1) * RowsPerSize
  BY <1>1 DEF RunnerInv, OneRun, Counted, Active
<1>3. Len(Circuits) > 0 /\ RowsPerSize > 0 /\ 1 \in 1 .. RowsPerSize
  BY <1>2, GridNotEmpty, Sizes
<1>4. <<>> \in Seq(RowType)
  BY EmptySeq
<1>5. RunnerTypeOK'
  <2>1. work' \in [1 .. Seeds -> Seq(RowType)]
    BY <1>1, <1>4
  <2>2. unwritten' \in Seq(RowType)
    BY <1>1, SortedIsGrid
  <2> QED
    BY <1>1, <2>1, <2>2 DEF RunnerInv, RunnerTypeOK
<1>6. OneRun'
  BY <1>1 DEF RunnerInv, OneRun, Active
<1>7. Len(file') + Len(unwritten') = size' * RowsPerSize
  <2>1. Len(file) + RowsPerSize = size * RowsPerSize
    BY <1>2, <1>3, GridAt
  <2>2. Len(unwritten') = RowsPerSize
    BY <1>1, SortedIsGrid
  <2> QED
    BY <1>1, <2>1, <2>2
<1>8. DOMAIN unwritten' = 1 .. RowsPerSize /\ \A k \in DOMAIN unwritten' : unwritten'[k].run = run'
  BY <1>1, SortedIsGrid
<1>9. Counted'
  <2>1. work' = NoWork /\ busy' = {}
    BY DEF Gather
  <2> QED
    BY <1>1, <1>7, <1>8, <2>1 DEF RunnerInv, Counted, Total, NoWork
<1>10. ASSUME Unrepeated \/ JobNumbers \subseteq {0, 1}, GridInv
       PROVE  GridInv'
  <2>1. jobs = 1 \/ Unrepeated
    BY <1>2, <1>10 DEF GridOk, RunnerInv, RunnerTypeOK
  <2>2. \A k \in 1 .. RowsPerSize : OfCell(Sorted[k], Len(file) + k)
    BY <2>1, SortedIsGrid
  <2>3. \A k \in DOMAIN unwritten' : OfCell(unwritten'[k], Len(file') + k)
    BY <1>1, <1>8, <2>2
  <2> QED
    BY <1>1, <1>10, <2>3 DEF GridInv, OfCell
<1> QED
  BY <1>5, <1>6, <1>9, <1>10 DEF RunnerInv

\* The next row goes to the file.
LEMMA WriteKeeps ==
  ASSUME RunnerInv, Write
  PROVE  RunnerInv' /\ (GridInv => GridInv')
<1> DEFINE n == Len(file)
<1>1. /\ status = "write" /\ unwritten # <<>>
      /\ file' = Append(file, Head(unwritten)) /\ unwritten' = Tail(unwritten)
      /\ UNCHANGED <<jobs, exists, run, status, size, work, busy>>
  BY DEF Write
<1>2. /\ file \in Seq(RowType) /\ unwritten \in Seq(RowType)
      /\ n \in Nat /\ Len(unwritten) \in Nat /\ Len(unwritten) > 0
  BY <1>1, EmptySeq DEF RunnerInv, RunnerTypeOK
<1>3. /\ Head(unwritten) = unwritten[1] /\ Tail(unwritten) \in Seq(RowType)
      /\ unwritten[1] \in RowType /\ 1 \in DOMAIN unwritten
      /\ Len(unwritten') = Len(unwritten) - 1
      /\ \A k \in 1 .. (Len(unwritten) - 1) : unwritten'[k] = unwritten[k + 1]
  BY <1>1, <1>2, HeadTailProperties
<1>4. /\ file' \in Seq(RowType) /\ Len(file') = n + 1 /\ DOMAIN file' = 1 .. (n + 1)
      /\ file'[n + 1] = unwritten[1]
      /\ \A i \in 1 .. n : file'[i] = file[i]
  BY <1>1, <1>2, <1>3, AppendProperties
<1>5. /\ size \in 1 .. Len(LotSizes) /\ GridOk(jobs) /\ exists
      /\ \A i \in DOMAIN file : file[i].run = run
      /\ n + Len(unwritten) = size * RowsPerSize
      /\ \A k \in DOMAIN unwritten : unwritten[k].run = run
  BY <1>1 DEF RunnerInv, OneRun, Counted, Active
<1>6. RunnerTypeOK'
  BY <1>1, <1>3, <1>4 DEF RunnerInv, RunnerTypeOK
<1>7. \A i \in 1 .. (n + 1) : i \in 1 .. n \/ i = n + 1
  BY <1>2
<1>8. DOMAIN file = 1 .. n
  BY <1>2
<1>9. \A i \in DOMAIN file' : file'[i].run = run
  BY <1>3, <1>4, <1>5, <1>7, <1>8
<1>10. OneRun'
  BY <1>1, <1>5, <1>9 DEF OneRun
<1>11. size * RowsPerSize <= Total
  <2>1. Len(Circuits) > 0 /\ RowsPerSize > 0 /\ 1 \in 1 .. RowsPerSize
    BY <1>5, GridNotEmpty, Sizes
  <2> QED
    BY <1>5, <2>1, GridAt
<1>12. DOMAIN unwritten' = 1 .. (Len(unwritten) - 1) /\ DOMAIN unwritten = 1 .. Len(unwritten)
  BY <1>1, <1>2, <1>3
<1>13. \A k \in DOMAIN unwritten' : k + 1 \in DOMAIN unwritten /\ unwritten'[k] = unwritten[k + 1]
  BY <1>2, <1>3, <1>12
<1>14. Counted'
  <2>1. size * RowsPerSize \in Nat
    BY <1>5, Sizes
  <2>2. Len(file') <= Total /\ Len(file') + Len(unwritten') = size * RowsPerSize
    <3>1. Len(unwritten') \in Nat /\ Len(file') + Len(unwritten') = n + Len(unwritten)
      BY <1>2, <1>3, <1>4
    <3>2. Len(file') + Len(unwritten') = size * RowsPerSize
      BY <1>5, <3>1
    <3>3. Len(file') \in Nat
      BY <1>2, <1>4
    <3> QED
      BY <1>11, <2>1, <3>1, <3>2, <3>3, Sizes
  <2>3. \A k \in DOMAIN unwritten' : unwritten'[k].run = run
    BY <1>5, <1>13
  <2>4. work' = NoWork /\ busy' = {}
    BY <1>1 DEF RunnerInv, Counted, NoWork
  <2> QED
    BY <1>1, <2>2, <2>3, <2>4 DEF Counted, Total, NoWork
<1>15. ASSUME GridInv PROVE GridInv'
  <2>1. \A i \in DOMAIN file : OfCell(file[i], i)
    BY <1>15 DEF GridInv
  <2>2. \A k \in DOMAIN unwritten : OfCell(unwritten[k], n + k)
    BY <1>1, <1>15 DEF GridInv
  <2>3. \A i \in DOMAIN file' : OfCell(file'[i], i)
    BY <1>3, <1>4, <1>7, <1>8, <2>1, <2>2
  <2>4. \A k \in DOMAIN unwritten' : OfCell(unwritten'[k], Len(file') + k)
    <3> SUFFICES ASSUME NEW k \in DOMAIN unwritten'
                 PROVE  OfCell(unwritten'[k], Len(file') + k)
      OBVIOUS
    <3>1. OfCell(unwritten[k + 1], n + (k + 1)) /\ unwritten'[k] = unwritten[k + 1]
      BY <1>13, <2>2
    <3>2. n + (k + 1) = Len(file') + k
      BY <1>2, <1>4, <1>12
    <3> QED
      BY <3>1, <3>2
  <2> QED
    BY <2>3, <2>4 DEF GridInv, OfCell
<1> QED
  BY <1>6, <1>10, <1>14, <1>15 DEF RunnerInv

\* The rows of a size are written: the next size, or the end.
LEMMA NextSizeKeeps ==
  ASSUME RunnerInv, NextSize
  PROVE  RunnerInv' /\ (GridInv => GridInv')
<1>1. /\ status = "write" /\ unwritten = <<>>
      /\ UNCHANGED <<jobs, exists, file, run, work, busy, unwritten>>
      /\ size \in 1 .. Len(LotSizes) /\ GridOk(jobs) /\ exists
      /\ Len(file) + Len(unwritten) = size * RowsPerSize
  BY DEF NextSize, RunnerInv, OneRun, Counted, Active
<1>2. Len(file) = size * RowsPerSize
  BY <1>1, EmptySeq, Sizes DEF RunnerInv, RunnerTypeOK
<1>3. GridInv => GridInv'
  <2>1. status' # "write"
    BY DEF NextSize
  <2> QED
    BY <1>1, <2>1 DEF GridInv, OfCell
<1>4. CASE size < Len(LotSizes)
  <2>1. size' = size + 1 /\ status' = "grid"
    BY <1>4 DEF NextSize
  <2>2. size' \in 1 .. Len(LotSizes) /\ size' - 1 = size
    BY <1>1, <1>4, <2>1, Sizes
  <2>3. RunnerTypeOK' /\ OneRun'
    BY <1>1, <2>1, <2>2 DEF RunnerInv, RunnerTypeOK, OneRun, Active
  <2>4. \A seed \in 1 .. Seeds : SeedRows(seed)'
    <3>1. work' = [seed \in 1 .. Seeds |-> <<>>] /\ busy' = {}
      BY <1>1 DEF RunnerInv, Counted, NoWork
    <3>2. Len(<<>>) = 0 /\ DOMAIN <<>> = {}
      BY EmptySeq
    <3> QED
      BY <3>1, <3>2, Sizes DEF SeedRows
  <2>5. Counted'
    BY <1>1, <1>2, <2>1, <2>2, <2>4 DEF RunnerInv, Counted, Total
  <2> QED
    BY <1>3, <2>3, <2>5 DEF RunnerInv
<1>5. CASE ~ (size < Len(LotSizes))
  <2>1. size' = size /\ status' = IF Strict /\ Failures THEN "failed" ELSE "ok"
    BY <1>5 DEF NextSize
  <2>2. size = Len(LotSizes)
    BY <1>1, <1>5, Sizes
  <2>3. RunnerTypeOK' /\ OneRun'
    BY <1>1, <2>1 DEF RunnerInv, RunnerTypeOK, OneRun, Active
  <2>4. Len(file) = Total
    BY <1>2, <2>2 DEF Total
  <2>5. status' = "ok" /\ Strict => \A i \in DOMAIN file : file[i].ok
    BY <2>1 DEF Failures
  <2>6. Counted'
    BY <1>1, <2>1, <2>4, <2>5, Sizes DEF Counted, Total
  <2> QED
    BY <1>3, <2>3, <2>6 DEF RunnerInv
<1> QED
  BY <1>4, <1>5

\* A step that leaves the runner's variables as they are.
LEMMA RunnerStutters ==
  ASSUME RunnerInv, UNCHANGED runnerVars
  PROVE  RunnerInv' /\ (GridInv => GridInv')
<1>1. UNCHANGED <<jobs, exists, file, run, status, size, work, busy, unwritten>>
  BY DEF runnerVars
<1>2. RunnerTypeOK' /\ OneRun'
  BY <1>1 DEF RunnerInv, RunnerTypeOK, OneRun
<1>3. \A seed \in 1 .. Seeds : SeedRows(seed) => SeedRows(seed)'
  BY <1>1 DEF SeedRows
<1>4. Counted'
  BY <1>1, <1>3 DEF RunnerInv, Counted, Total, NoWork
<1>5. GridInv => GridInv'
  BY <1>1 DEF GridInv, OfCell
<1> QED
  BY <1>2, <1>4, <1>5 DEF RunnerInv

\* A kill loses what was not written and nothing else.
LEMMA KillKeeps ==
  ASSUME RunnerInv, Kill
  PROVE  RunnerInv' /\ (GridInv => GridInv')
<1>1. /\ status' = "killed"
      /\ UNCHANGED <<jobs, exists, file, run, size, work, busy, unwritten>>
  BY DEF Kill
<1>2. RunnerTypeOK' /\ OneRun' /\ Counted'
  BY <1>1 DEF RunnerInv, RunnerTypeOK, OneRun, Counted, Active, Total
<1>3. GridInv => GridInv'
  BY <1>1 DEF GridInv, OfCell
<1> QED
  BY <1>2, <1>3 DEF RunnerInv

\* A worker's step: it takes a seed, it is within a wrapper, or a row is done.
LEMMA WorkerKeeps ==
  ASSUME RunnerInv, NEW seed \in 1 .. Seeds,
         Take(seed) \/ RegularRow(seed) \/ BlockedRow(seed) \/ WrapperRow(seed)
  PROVE  RunnerInv' /\ (GridInv => GridInv')
<1>1. CASE Take(seed)
  BY <1>1, TakeKeeps
<1>2. CASE RegularRow(seed) \/ BlockedRow(seed) \/ WrapperRow(seed)
  <2>1. status = "grid" /\ seed \in busy
    BY <1>2 DEF RegularRow, BlockedRow, WrapperRow, AtCircuit
  <2>2. UNCHANGED runnerVars \/ \E ok \in BOOLEAN : Done(seed, ok)
    BY <1>2 DEF RegularRow, BlockedRow, WrapperRow
  <2> QED
    BY <2>1, <2>2, DoneKeeps, RunnerStutters
<1> QED
  BY <1>1, <1>2

\* The grid's rows stay in order through every step but the sort of a list with
\* a circuit twice; so the invariants are stated together under a hypothesis
\* that only the second needs.
LEMMA NextKeepsRunner ==
  ASSUME RunnerInv, [RunnerNext]_benchVars
  PROVE  /\ RunnerInv'
         /\ Unrepeated \/ JobNumbers \subseteq {0, 1} => (GridInv => GridInv')
<1>1. CASE Start \/ Write \/ NextSize \/ Kill
  BY <1>1, StartKeeps, WriteKeeps, NextSizeKeeps, KillKeeps
<1>2. CASE Gather
  BY <1>2, GatherKeeps
<1>3. CASE UNCHANGED benchVars
  <2>1. UNCHANGED runnerVars
    BY <1>3 DEF benchVars
  <2> QED
    BY <2>1, RunnerStutters
<1> QED
  BY <1>1, <1>2, <1>3, WorkerKeeps DEF RunnerNext

\* The invariant of the runner holds throughout, whichever circuits are listed.
THEOREM RunnerInductive == RunnerSpec => []RunnerInv
<1>1. RunnerInit => RunnerInv
  BY RunnerInitially
<1>2. RunnerInv /\ [RunnerNext]_benchVars => RunnerInv'
  BY NextKeepsRunner
<1> QED
  BY <1>1, <1>2, PTL DEF RunnerSpec

\* A run that reports success has written the whole grid itself, and a strict
\* one has no failed row in it, also when a circuit is listed twice.
THEOREM SuccessWhole == RunnerSpec => []SuccessIsWhole
<1>1. RunnerInv => SuccessIsWhole
  <2> SUFFICES ASSUME RunnerInv, status = "ok"
               PROVE  /\ Len(file) = Len(Grid) /\ file[1].run = run
                      /\ Strict => \A i \in DOMAIN file : file[i].ok
    BY DEF SuccessIsWhole
  <2>1. /\ Len(file) = Total /\ GridOk(jobs)
        /\ Strict => \A i \in DOMAIN file : file[i].ok
        /\ \A i \in DOMAIN file : file[i].run = run
        /\ file \in Seq(RowType)
    BY DEF RunnerInv, RunnerTypeOK, OneRun, Counted, Active
  <2>2. Total > 0
    <3>1. \A a, b \in Nat : a > 0 /\ b > 0 => a * b > 0
      OBVIOUS
    <3> QED
      BY <2>1, <3>1, GridNotEmpty, Sizes
  <2>3. 1 \in DOMAIN file
    BY <2>1, <2>2, Sizes
  <2>4. Len(Grid) = Total
    BY Sizes DEF Grid
  <2> QED
    BY <2>1, <2>3, <2>4
<1> QED
  BY <1>1, RunnerInductive, PTL

\* The file is the beginning of one run's grid, whatever order the workers
\* finish in and however often the program is killed and started: where no
\* circuit is listed twice or no more than one worker is asked for.  The sort
\* of several workers' rows moves a circuit's second row to its first.
THEOREM FileIsPrefix ==
  ASSUME Unrepeated \/ JobNumbers \subseteq {0, 1}
  PROVE  RunnerSpec => []OnePrefixOfGrid
<1>1. RunnerInit => RunnerInv /\ GridInv
  BY RunnerInitially
<1>2. RunnerInv /\ GridInv /\ [RunnerNext]_benchVars => RunnerInv' /\ GridInv'
  BY NextKeepsRunner
<1>3. RunnerInv /\ GridInv => OnePrefixOfGrid
  <2> SUFFICES ASSUME RunnerInv, GridInv PROVE OnePrefixOfGrid
    OBVIOUS
  <2>1. Len(Grid) = Total
    BY Sizes DEF Grid
  <2>2. \A i \in DOMAIN file : 1 \in DOMAIN file
    BY DEF RunnerInv, RunnerTypeOK
  <2> QED
    BY <2>1, <2>2
       DEF RunnerInv, OneRun, Counted, GridInv, OfCell, OnePrefixOfGrid
<1> QED
  BY <1>1, <1>2, <1>3, PTL DEF RunnerSpec

-----------------------------------------------------------------------------
(* Recursion over the naturals.                                              *)

\* Induction, for a set.
LEMMA Induction ==
  ASSUME NEW T \in SUBSET Nat, 0 \in T, \A n \in T : n + 1 \in T
  PROVE  T = Nat
<1> SUFFICES ASSUME Nat \ T # {} PROVE FALSE
  OBVIOUS
<1>1. Nat \ T \in SUBSET Nat
  OBVIOUS
<1>2. PICK x \in Nat \ T : \A y \in Nat \ T : x <= y
  BY <1>1, Least
<1>3. x # 0 /\ x - 1 \in Nat /\ x - 1 \in T
  BY <1>2
<1> QED
  BY <1>2, <1>3

Turns(S) == [Nat \X S -> S]

\* A function that begins with a value of S and goes on by a table of turns.
LEMMA Recursion ==
  ASSUME NEW S, NEW a \in S, NEW turn \in Turns(S)
  PROVE  \E f \in [Nat -> S] : f[0] = a /\ \A k \in Nat : f[k + 1] = turn[<<k, f[k]>>]
<1> USE DEF Turns
<1> DEFINE Fits(f, n) == /\ f \in [0 .. n -> S] /\ f[0] = a
                         /\ \A k \in Nat : k < n => f[k + 1] = turn[<<k, f[k]>>]
           T == {n \in Nat : \E f : Fits(f, n)}
           Upto(n) == CHOOSE f : Fits(f, n)
           all == [n \in Nat |-> Upto(n)[n]]
<1>1. 0 \in T
  <2> DEFINE f == [k \in 0 .. 0 |-> a]
  <2>1. Fits(f, 0)
    OBVIOUS
  <2> HIDE DEF f, Fits
  <2> QED
    BY <2>1
<1>2. ASSUME NEW n \in T PROVE n + 1 \in T
  <2>1. PICK f : Fits(f, n)
    OBVIOUS
  <2>2. n \in Nat /\ f[n] \in S /\ <<n, f[n]>> \in Nat \X S
    BY <2>1
  <2> DEFINE g == [k \in 0 .. n + 1 |-> IF k = n + 1 THEN turn[<<n, f[n]>>] ELSE f[k]]
  <2>3. g \in [0 .. n + 1 -> S]
    BY <2>1, <2>2
  <2>4. g[0] = a
    BY <2>1, <2>2
  <2>5. ASSUME NEW k \in Nat, k < n + 1 PROVE g[k + 1] = turn[<<k, g[k]>>]
    <3>1. CASE k = n
      <4>1. g[k + 1] = turn[<<n, f[n]>>] /\ g[k] = f[n]
        BY <2>2, <3>1
      <4> QED
        BY ONLY <3>1, <4>1
    <3>2. CASE k # n
      <4>1. k < n /\ k \in 0 .. n + 1 /\ k + 1 \in 0 .. n + 1 /\ k # n + 1 /\ k + 1 # n + 1
        BY <2>2, <2>5, <3>2
      <4>2. g[k] = f[k] /\ g[k + 1] = f[k + 1]
        BY <4>1
      <4>3. f[k + 1] = turn[<<k, f[k]>>]
        BY <2>1, <4>1
      <4> QED
        BY <4>2, <4>3
    <3> QED
      BY <3>1, <3>2
  <2>6. Fits(g, n + 1)
    <3> HIDE DEF g
    <3> QED
      BY <2>3, <2>4, <2>5
  <2> HIDE DEF g, Fits
  <2> QED
    BY <2>2, <2>6
<1>3. T = Nat
  <2>1. T \in SUBSET Nat
    OBVIOUS
  <2> HIDE DEF T
  <2> QED
    BY <1>1, <1>2, <2>1, Induction
<1>4. ASSUME NEW n \in Nat PROVE Fits(Upto(n), n)
  <2>1. \E f : Fits(f, n)
    BY <1>3
  <2> HIDE DEF Fits
  <2> QED
    BY <2>1
<1> HIDE DEF T, Upto
\* The functions for different lengths agree where both are defined.
<1>5. ASSUME NEW n \in Nat PROVE Upto(n + 1)[n] = Upto(n)[n]
  <2>1. PICK f : f = Upto(n + 1) /\ Fits(f, n + 1)
    BY <1>4
  <2>2. PICK g : g = Upto(n) /\ Fits(g, n)
    BY <1>4
  <2> DEFINE U == {k \in Nat : k <= n => f[k] = g[k]}
  <2>3. 0 \in U
    BY <2>1, <2>2
  <2>4. ASSUME NEW k \in U PROVE k + 1 \in U
    <3>1. k \in Nat /\ (k + 1 <= n => k < n /\ k < n + 1 /\ f[k] = g[k])
      OBVIOUS
    <3>2. k + 1 <= n => f[k + 1] = g[k + 1]
      BY <2>1, <2>2, <3>1
    <3> QED
      BY <3>1, <3>2
  <2>5. U = Nat
    <3>1. U \in SUBSET Nat
      OBVIOUS
    <3> HIDE DEF U
    <3> QED
      BY <2>3, <2>4, <3>1, Induction
  <2> QED
    BY <2>1, <2>2, <2>5
<1>6. ASSUME NEW n \in Nat PROVE Upto(n)[n] \in S
  BY <1>4
<1>7. ASSUME NEW k \in Nat PROVE all[k + 1] = turn[<<k, all[k]>>]
  <2>1. Fits(Upto(k + 1), k + 1)
    BY <1>4
  <2>2. Upto(k + 1)[k + 1] = turn[<<k, Upto(k + 1)[k]>>]
    BY <2>1
  <2> QED
    BY <1>5, <2>2
<1>8. all[0] = a
  BY <1>4
<1>9. all \in [Nat -> S]
  BY <1>6
<1> HIDE DEF all
<1> QED
  BY <1>7, <1>8, <1>9

-----------------------------------------------------------------------------
(* The heights of the traces.                                                *)

\* TwoTo is the function its recursion describes.
LEMMA Doubles ==
  /\ TwoTo \in [Nat -> Nat] /\ TwoTo[0] = 1
  /\ \A k \in Nat : TwoTo[k + 1] = 2 * TwoTo[k]
<1> DEFINE Grows(f) == f = [k \in Nat |-> IF k = 0 THEN 1 ELSE 2 * f[k - 1]]
           turn == [x \in Nat \X Nat |-> 2 * x[2]]
           power == CHOOSE f : Grows(f)
<1>1. PICK f \in [Nat -> Nat] : f[0] = 1 /\ \A k \in Nat : f[k + 1] = turn[<<k, f[k]>>]
  <2>1. PICK S, a : S = Nat /\ a = 1
    OBVIOUS
  <2>2. a \in S /\ turn \in Turns(S)
    BY <2>1 DEF Turns
  <2> HIDE DEF turn
  <2>3. \E f \in [Nat -> S] : f[0] = a /\ \A k \in Nat : f[k + 1] = turn[<<k, f[k]>>]
    BY ONLY <2>2, Recursion
  <2> QED
    BY <2>1, <2>3
<1>2. Grows(f)
  <2>1. ASSUME NEW k \in Nat PROVE f[k] = IF k = 0 THEN 1 ELSE 2 * f[k - 1]
    <3>1. CASE k # 0
      <4>1. k - 1 \in Nat /\ (k - 1) + 1 = k
        BY <3>1
      <4> QED
        BY <1>1, <3>1, <4>1
    <3> QED
      BY <1>1, <3>1
  <2> QED
    BY <2>1
<1>3. Grows(power)
  <2> HIDE DEF Grows
  <2> QED
    BY <1>2
<1>4. TwoTo = power
  BY DEF TwoTo
<1>5. PICK g : g = power /\ Grows(g)
  BY <1>3
<1>6. \A k \in Nat : g[k] = IF k = 0 THEN 1 ELSE 2 * g[k - 1]
  BY <1>5
<1>7. g[0] = 1 /\ \A k \in Nat : g[k + 1] = 2 * g[k]
  BY <1>6
<1> DEFINE T == {k \in Nat : g[k] \in Nat}
<1> HIDE DEF power, Grows
<1>8. T = Nat
  <2>1. T \in SUBSET Nat /\ 0 \in T /\ \A n \in T : n + 1 \in T
    BY <1>7
  <2> HIDE DEF T
  <2> QED
    BY <2>1, Induction
<1>9. g = [k \in Nat |-> g[k]]
  BY <1>5 DEF Grows
<1>10. g \in [Nat -> Nat]
  <2>1. \A k \in Nat : g[k] \in Nat
    BY <1>8
  <2> QED
    BY <1>9, <2>1
<1> QED
  BY <1>4, <1>5, <1>7, <1>10

\* A power of two exceeds its exponent, so that one can be found for any size.
LEMMA PowerExceeds == \A n \in Nat : TwoTo[n] > n
<1> DEFINE T == {n \in Nat : TwoTo[n] > n}
<1>1. T \in SUBSET Nat /\ 0 \in T
  BY Doubles
<1>2. ASSUME NEW n \in T PROVE n + 1 \in T
  <2>1. n \in Nat /\ TwoTo[n] \in Nat /\ TwoTo[n] > n /\ TwoTo[n + 1] = 2 * TwoTo[n]
    BY Doubles
  <2> QED
    BY <2>1
<1> HIDE DEF T
<1>3. T = Nat
  BY <1>1, <1>2, Induction
<1> QED
  BY <1>3 DEF T

\* The height of a trace is no less than what it is to hold.
LEMMA PowerFits ==
  ASSUME NEW n \in Nat, n > 0
  PROVE  NextPowerOfTwo(n) \in Nat /\ NextPowerOfTwo(n) >= n
<1> DEFINE Powers == {TwoTo[k] : k \in 0 .. n}
           Fits(p) == p >= n /\ (p = 1 \/ p \div 2 < n)
           K == {k \in Nat : TwoTo[k] >= n}
<1>1. n \in K
  BY PowerExceeds, Doubles
<1>2. PICK k \in K : \A j \in K : k <= j
  <2>1. K \in SUBSET Nat /\ K # {}
    BY <1>1
  <2> HIDE DEF K
  <2> QED
    BY <2>1, Least
<1>3. k \in 0 .. n
  BY <1>1, <1>2
<1>4. Fits(TwoTo[k])
  <2>1. CASE k = 0
    BY <1>2, <2>1, Doubles
  <2>2. CASE k # 0
    <3>1. k - 1 \in Nat /\ (k - 1) + 1 = k /\ k - 1 \notin K
      BY <1>2, <2>2
    <3>2. /\ TwoTo[k] = 2 * TwoTo[k - 1] /\ TwoTo[k - 1] \in Nat /\ TwoTo[k] >= n
          /\ ~ TwoTo[k - 1] >= n
      BY <1>2, <3>1, Doubles
    <3> QED
      BY <3>2
  <2> QED
    BY <2>1, <2>2
<1>5. TwoTo[k] \in Powers
  BY <1>3
<1>6. \A p \in Powers : p \in Nat
  BY Doubles
<1>7. NextPowerOfTwo(n) = CHOOSE p \in Powers : Fits(p)
  BY DEF NextPowerOfTwo
<1> DEFINE height == CHOOSE p \in Powers : Fits(p)
<1> HIDE DEF Powers
<1>8. height \in Powers /\ Fits(height)
  <2> HIDE DEF Fits
  <2> QED
    BY <1>4, <1>5
<1> HIDE DEF height
<1> QED
  BY <1>6, <1>7, <1>8 DEF height

\* The trace of C2 and C3 is never shorter than what is written to it.
LEMMA RowsFit == ASSUME NEW n \in Nat PROVE Rows(n) \in Nat /\ Rows(n) >= n /\ Rows(n) >= 1
<1>1. MinRows \in Nat /\ MinRows > 0
  BY TraceShapeAssumption
<1>2. CASE n <= MinRows
  BY <1>1, <1>2 DEF Rows
<1>3. CASE ~ n <= MinRows
  <2>1. Rows(n) = NextPowerOfTwo(n)
    BY <1>3 DEF Rows
  <2> QED
    BY <1>1, <1>3, <2>1, PowerFits
<1> QED
  BY <1>2, <1>3

-----------------------------------------------------------------------------
(* The prover: what is proved has passed every row.                          *)

\* Before it ends, the run has checked the rows before the next one; a proof has
\* the rows and public inputs of its job's witness, and every row holds.
ProverInv ==
  /\ job \in Jobs
  /\ phase \in {"witness", "prove", "proved", "failed"} /\ next \in Nat
  /\ phase = "witness" => next = 1
  /\ phase \in {"prove", "proved"} =>
       /\ HasWitness /\ trace = TraceAndPublics[1] /\ pis = TraceAndPublics[2]
       /\ \A i \in 1 .. next - 1 : Holds(i)
  /\ phase = "proved" => next - 1 = Len(trace)

\* A step of prove_and_verify keeps ProverInv.
LEMMA ProverKeeps == ProverInv /\ [ProverNext]_proverVars => ProverInv'
<1> SUFFICES ASSUME ProverInv, [ProverNext]_proverVars PROVE ProverInv'
  OBVIOUS
\* What a job has to prove does not change with the run.
<1> DEFINE Same == job' = job /\ trace' = trace /\ pis' = pis
<1>1. ASSUME job' = job
      PROVE  HasWitness' = HasWitness /\ TraceAndPublics' = TraceAndPublics
  BY <1>1 DEF HasWitness, TraceAndPublics, SpoiltC1
<1>2. ASSUME Same, NEW i PROVE Holds(i)' = Holds(i)
  BY <1>2 DEF Holds, RowHolds, TransitionHolds, LastHolds
<1>3. CASE BuildWitness
  <2>1. job' = job /\ next' = next /\ next = 1
    BY <1>3 DEF BuildWitness, ProverInv
  <2>2. CASE HasWitness
    <3>1. /\ trace' = TraceAndPublics[1] /\ pis' = TraceAndPublics[2] /\ phase' = "prove"
      BY <1>3, <2>2 DEF BuildWitness
    <3>2. 1 .. next' - 1 = {}
      BY <2>1
    <3> QED
      BY <1>1, <2>1, <2>2, <3>1, <3>2 DEF ProverInv
  <2>3. CASE ~ HasWitness
    BY <1>3, <2>1, <2>3 DEF BuildWitness, ProverInv
  <2> QED
    BY <2>2, <2>3
<1>4. CASE CheckRow
  <2>1. Same /\ next' = next + 1 /\ next \in Nat
    BY <1>4 DEF CheckRow, ProverInv
  <2>2. CASE ~ Holds(next)
    BY <1>4, <2>1, <2>2 DEF CheckRow, ProverInv
  <2>3. CASE Holds(next)
    <3>1. \A i \in 1 .. next' - 1 : Holds(i)
      <4>1. \A i \in 1 .. next' - 1 : i \in 1 .. next - 1 \/ i = next
        BY <2>1
      <4>2. phase = "prove"
        BY <1>4 DEF CheckRow
      <4> QED
        BY <2>3, <4>1, <4>2 DEF ProverInv
    <3>2. \A i \in 1 .. next' - 1 : Holds(i)'
      BY <1>2, <2>1, <3>1
    <3>3. phase' = IF next = Len(trace) THEN "proved" ELSE "prove"
      BY <1>4, <2>3 DEF CheckRow
    <3>4. phase' = "proved" => next' - 1 = Len(trace')
      BY <2>1, <3>3
    <3>5. HasWitness /\ trace = TraceAndPublics[1] /\ pis = TraceAndPublics[2] /\ job \in Jobs
      BY <1>4 DEF CheckRow, ProverInv
    <3> QED
      BY <1>1, <2>1, <3>2, <3>3, <3>4, <3>5 DEF ProverInv
  <2> QED
    BY <2>2, <2>3
<1>5. CASE UNCHANGED proverVars
  <2>1. Same /\ phase' = phase /\ next' = next
    BY <1>5 DEF proverVars
  <2> QED
    BY <1>1, <1>2, <2>1 DEF ProverInv
<1> QED
  BY <1>3, <1>4, <1>5 DEF ProverNext

\* A proof has the rows of its witness, and each of them holds.
LEMMA ProvedHolds ==
  ASSUME ProverInv, phase = "proved"
  PROVE  /\ job \in Jobs /\ HasWitness
         /\ trace = TraceAndPublics[1] /\ pis = TraceAndPublics[2]
         /\ \A i \in 1 .. Len(trace) : Holds(i)
BY DEF ProverInv

-----------------------------------------------------------------------------
(* The prover: the geofence circuit agrees with the geofence.                *)

\* A number is between two others in proportion to one that is.
LEMMA Between ==
  ASSUME NEW w \in Int, NEW q \in Int, NEW u \in Int, NEW d \in Int,
         0 < u, u <= d, w * u = d * q
  PROVE  (0 <= q /\ q <= w) \/ (w <= q /\ q <= 0)
<1>1. \A x, y, z \in Int : x <= y /\ z >= 0 => x * z <= y * z
  OBVIOUS
<1>2. \A x, y, z \in Int : x < y /\ z > 0 => x * z < y * z
  OBVIOUS
<1>3. \A x, y \in Int : x * y = y * x
  OBVIOUS
<1>4. \A x \in Int : 0 * x = 0
  OBVIOUS
<1>5. ASSUME q < 0 PROVE w <= q
  <2>1. q * d < 0
    BY <1>2, <1>4, <1>5
  <2>2. w < 0
    <3> SUFFICES ASSUME w >= 0 PROVE FALSE
      OBVIOUS
    <3>1. w * u >= 0
      BY <1>1, <1>4
    <3> QED
      BY <1>3, <2>1, <3>1
  <2>3. w * d <= w * u
    <3>1. u * (- w) <= d * (- w)
      BY <1>1, <2>2
    <3>2. u * (- w) = - (w * u) /\ d * (- w) = - (w * d)
      OBVIOUS
    <3>3. w * u \in Int /\ w * d \in Int
      OBVIOUS
    <3> QED
      BY <3>1, <3>2, <3>3
  <2>4. w * d <= q * d
    BY <1>3, <2>3
  <2> QED
    BY <1>2, <2>4
<1>6. ASSUME q > 0 PROVE q <= w
  <2>1. 0 < q * d
    BY <1>2, <1>4, <1>6
  <2>2. w > 0
    <3> SUFFICES ASSUME w <= 0 PROVE FALSE
      OBVIOUS
    <3>1. w * u <= 0
      BY <1>1, <1>4
    <3> QED
      BY <1>3, <2>1, <3>1
  <2>3. w * u <= w * d
    BY <1>1, <1>3, <2>2
  <2>4. q * d <= w * d
    BY <1>3, <2>3
  <2> QED
    BY <1>2, <2>4
<1> QED
  BY <1>5, <1>6

\* Where the circuit finds no touch, the point is not on the edge, and the
\* circuit counts a crossing where the policy does.
LEMMA EdgeAgrees ==
  ASSUME NEW r, r.a \in Point, r.b \in Point, r.point \in Point, ~ C1Touches(r)
  PROVE  /\ ~ PointOnSegment(r.a, r.b, r.point)
         /\ C1CrossesRight(r.point, r.a, r.b) <=> CrossesRight(r.a, r.b, r.point)
<1> DEFINE o == Orientation(r.a, r.b, r.point)
<1>1. /\ r.a.lat \in Int /\ r.a.lon \in Int /\ r.b.lat \in Int /\ r.b.lon \in Int
      /\ r.point.lat \in Int /\ r.point.lon \in Int
  BY DEF Point
<1>2. PICK al, ao, bl, bo, pl, po \in Int :
        /\ al = r.a.lat /\ ao = r.a.lon /\ bl = r.b.lat /\ bo = r.b.lon
        /\ pl = r.point.lat /\ po = r.point.lon
  BY <1>1
<1>3. o = (bo - ao) * (pl - al) - (bl - al) * (po - ao)
  BY <1>2 DEF Orientation
<1>4. o \in Int
  BY <1>3
<1>5. ~ (/\ o = 0
         /\ (al > pl) # (bl > pl) \/ al = pl \/ bl = pl
         /\ bl = al \/ (ao > po) # (bo > po) \/ ao = po \/ bo = po)
  BY <1>2 DEF C1Touches
<1>6. ~ PointOnSegment(r.a, r.b, r.point)
  <2>1. PointOnSegment(r.a, r.b, r.point) =>
          /\ o = 0
          /\ pl >= (IF al <= bl THEN al ELSE bl) /\ pl <= (IF al >= bl THEN al ELSE bl)
          /\ po >= (IF ao <= bo THEN ao ELSE bo) /\ po <= (IF ao >= bo THEN ao ELSE bo)
    <3>1. /\ Min({al, bl}) = IF al <= bl THEN al ELSE bl
          /\ Max({al, bl}) = IF al >= bl THEN al ELSE bl
          /\ Min({ao, bo}) = IF ao <= bo THEN ao ELSE bo
          /\ Max({ao, bo}) = IF ao >= bo THEN ao ELSE bo
      BY MinOfTwo, MaxOfTwo
    <3> HIDE DEF o
    <3> QED
      BY <1>2, <3>1 DEF PointOnSegment, o
  <2> HIDE DEF o
  <2> QED
    BY <1>4, <1>5, <2>1
\* On a slope, a point of the line at a height between the ends is between them.
<1>7. ASSUME o = 0, al > pl, bl <= pl PROVE FALSE
  <2> DEFINE w == bo - ao
             q == po - ao
             u == al - pl
             d == al - bl
  <2>1. w \in Int /\ q \in Int /\ u \in Int /\ d \in Int /\ 0 < u /\ u <= d
    BY <1>7
  <2>2. w * u = d * q
    <3>1. w * (- u) - (- d) * q = 0 /\ pl - al = - u /\ bl - al = - d
      BY <1>3, <1>7
    <3>2. \A x, y \in Int : x * (- y) = - (x * y) /\ (- x) * y = - (x * y) /\ x * y \in Int
      OBVIOUS
    <3> HIDE DEF w, q, u, d
    <3> QED
      BY <2>1, <3>1, <3>2
  <2>3. (0 <= q /\ q <= w) \/ (w <= q /\ q <= 0)
    <3> HIDE DEF w, q, u, d
    <3> QED
      BY <2>1, <2>2, Between
  <2>4. (ao > po) # (bo > po) \/ ao = po \/ bo = po
    BY <2>3
  <2> HIDE DEF o
  <2> QED
    BY <1>5, <1>7, <2>4
<1>8. /\ C1CrossesRight(r.point, r.a, r.b) <=> (al > pl) # (bl > pl) /\ (o > 0) = (bl > pl)
      /\ CrossesRight(r.a, r.b, r.point) <=>
           (al > pl) # (bl > pl) /\ IF bl > al THEN o > 0 ELSE o < 0
  BY <1>2 DEF C1CrossesRight, CrossesRight
<1> HIDE DEF o
<1> QED
  BY <1>4, <1>6, <1>7, <1>8

\* The padded polygon has the edges of the polygon, the last one at its end, and
\* otherwise edges without length.
LEMMA PaddedEdges ==
  ASSUME NEW vs \in Seq(Point), Len(vs) \in 3 .. MaxVertices
  PROVE  /\ C1Padded(vs) \in Seq(Point) /\ Len(C1Padded(vs)) = MaxVertices
         /\ \A i \in 1 .. Len(vs) : vs[i] \in Point /\ After(vs, i) \in Point
         /\ \A k \in 1 .. MaxVertices :
              /\ C1Padded(vs)[k] \in Point /\ After(C1Padded(vs), k) \in Point
              /\ k < Len(vs) => /\ C1Padded(vs)[k] = vs[k]
                                /\ After(C1Padded(vs), k) = After(vs, k)
              /\ k = MaxVertices => /\ C1Padded(vs)[k] = vs[Len(vs)]
                                    /\ After(C1Padded(vs), k) = After(vs, Len(vs))
              /\ k >= Len(vs) /\ k # MaxVertices => C1Padded(vs)[k] = After(C1Padded(vs), k)
<1>1. MaxVertices \in Nat /\ Len(vs) \in Nat
  BY GeofenceAssumption
<1>2. PICK padded : padded = C1Padded(vs)
  OBVIOUS
<1>3. padded = [i \in 1 .. MaxVertices |-> IF i <= Len(vs) THEN vs[i] ELSE vs[Len(vs)]]
  BY <1>2 DEF C1Padded
<1>4. \A i \in 1 .. Len(vs) : vs[i] \in Point
  OBVIOUS
<1>5. padded \in Seq(Point) /\ Len(padded) = MaxVertices
  BY <1>1, <1>3, <1>4
<1>6. /\ \A i \in 1 .. Len(vs) - 1 : After(vs, i) = vs[i + 1]
      /\ After(vs, Len(vs)) = vs[1]
  BY <1>1 DEF After
<1>7. /\ \A i \in 1 .. MaxVertices - 1 : After(padded, i) = padded[i + 1]
      /\ After(padded, MaxVertices) = padded[1]
  BY <1>1, <1>5 DEF After
<1>8. \A k \in 1 .. MaxVertices : padded[k] = IF k <= Len(vs) THEN vs[k] ELSE vs[Len(vs)]
  BY <1>3
<1>9. \A i \in 1 .. Len(vs) : After(vs, i) \in Point
  BY <1>1, <1>4, <1>6
<1>10. ASSUME NEW k \in 1 .. MaxVertices
       PROVE  /\ padded[k] \in Point /\ After(padded, k) \in Point
              /\ k < Len(vs) => padded[k] = vs[k] /\ After(padded, k) = After(vs, k)
              /\ k = MaxVertices => padded[k] = vs[Len(vs)] /\ After(padded, k) = After(vs, Len(vs))
              /\ k >= Len(vs) /\ k # MaxVertices => padded[k] = After(padded, k)
  <2>1. padded[k] \in Point
    BY <1>5
  <2>2. k < Len(vs) => padded[k] = vs[k] /\ After(padded, k) = After(vs, k)
    <3> SUFFICES ASSUME k < Len(vs) PROVE padded[k] = vs[k] /\ After(padded, k) = After(vs, k)
      OBVIOUS
    <3>1. /\ k \in 1 .. MaxVertices - 1 /\ k + 1 \in 1 .. MaxVertices /\ k \in 1 .. Len(vs) - 1
          /\ k <= Len(vs) /\ k + 1 <= Len(vs)
      BY <1>1
    <3> QED
      BY <1>6, <1>7, <1>8, <3>1
  <2>3. k = MaxVertices => padded[k] = vs[Len(vs)] /\ After(padded, k) = After(vs, Len(vs))
    <3>1. 1 \in 1 .. MaxVertices /\ 1 <= Len(vs)
      BY <1>1
    <3> QED
      BY <1>1, <1>6, <1>7, <1>8, <3>1
  <2>4. k >= Len(vs) /\ k # MaxVertices => padded[k] = After(padded, k)
    <3> SUFFICES ASSUME k >= Len(vs), k # MaxVertices PROVE padded[k] = After(padded, k)
      OBVIOUS
    <3>1. k \in 1 .. MaxVertices - 1 /\ k + 1 \in 1 .. MaxVertices /\ ~ k + 1 <= Len(vs)
      BY <1>1
    <3>2. padded[k] = vs[Len(vs)]
      BY <1>1, <1>8
    <3>3. padded[k + 1] = vs[Len(vs)]
      BY <1>8, <3>1
    <3> QED
      BY <1>7, <3>1, <3>2, <3>3
  <2>5. After(padded, k) \in Point
    <3>1. k = MaxVertices \/ (k \in 1 .. MaxVertices - 1 /\ k + 1 \in 1 .. MaxVertices)
      BY <1>1
    <3>2. 1 \in 1 .. MaxVertices
      BY <1>1
    <3> QED
      BY <1>5, <1>7, <3>1, <3>2
  <2> QED
    BY <2>1, <2>2, <2>3, <2>4, <2>5
<1> QED
  BY <1>2, <1>4, <1>5, <1>9, <1>10

\* The edges up to one that the circuit counts as crossed.
Crossings(vs, p, edge) ==
  Cardinality({j \in 0 .. edge : C1CrossesRight(p, vs[j + 1], After(vs, j + 1))})

\* Where an edge of the polygon is in the padded one.
Place(vs, i) == IF i < Len(vs) THEN i ELSE MaxVertices

\* It has the ends it has in the polygon.
LEMMA PlacedEdges ==
  ASSUME NEW vs \in Seq(Point), Len(vs) \in 3 .. MaxVertices, NEW i \in 1 .. Len(vs)
  PROVE  /\ Place(vs, i) \in 1 .. MaxVertices
         /\ C1Padded(vs)[Place(vs, i)] = vs[i]
         /\ After(C1Padded(vs), Place(vs, i)) = After(vs, i)
<1>1. MaxVertices \in Nat /\ Len(vs) \in Nat
  BY GeofenceAssumption
<1>2. PICK k : k = Place(vs, i) /\ k \in 1 .. MaxVertices
  BY <1>1 DEF Place
<1>3. CASE i < Len(vs)
  <2>1. k = i
    BY <1>2, <1>3 DEF Place
  <2> QED
    BY <1>2, <1>3, <2>1, PaddedEdges
<1>4. CASE i = Len(vs)
  <2>1. k = MaxVertices
    BY <1>1, <1>2, <1>4 DEF Place
  <2> QED
    BY <1>2, <1>4, <2>1, PaddedEdges
<1> QED
  BY <1>1, <1>3, <1>4

\* The circuit crosses as many edges of the padded polygon as the policy does of
\* the polygon.
LEMMA CrossedEdges ==
  ASSUME NEW vs \in Seq(Point), Len(vs) \in 3 .. MaxVertices, NEW p \in Point,
         NEW padded, padded = C1Padded(vs),
         \A k \in 1 .. MaxVertices :
           C1CrossesRight(p, padded[k], After(padded, k))
             <=> CrossesRight(padded[k], After(padded, k), p)
  PROVE  Cardinality({i \in 1 .. Len(vs) : CrossesRight(vs[i], After(vs, i), p)})
           = Crossings(padded, p, MaxVertices - 1)
<1>1. MaxVertices \in Nat /\ Len(vs) \in Nat
  BY GeofenceAssumption
<1>2. padded = C1Padded(vs)
  OBVIOUS
<1>3. ASSUME NEW k \in 1 .. MaxVertices
      PROVE  C1CrossesRight(p, padded[k], After(padded, k))
               <=> CrossesRight(padded[k], After(padded, k), p)
  OBVIOUS
<1> DEFINE place(i) == IF i < Len(vs) THEN i ELSE MaxVertices
<1>4. ASSUME NEW i \in 1 .. Len(vs)
      PROVE  /\ place(i) \in 1 .. MaxVertices
             /\ padded[place(i)] = vs[i] /\ After(padded, place(i)) = After(vs, i)
  BY <1>2, PlacedEdges DEF Place
<1> DEFINE S == {i \in 1 .. Len(vs) : CrossesRight(vs[i], After(vs, i), p)}
           T == {j \in 0 .. MaxVertices - 1 : C1CrossesRight(p, padded[j + 1], After(padded, j + 1))}
           f == [i \in S |-> place(i) - 1]
<1>6. f \in [S -> T]
  <2> SUFFICES ASSUME NEW i \in S PROVE place(i) - 1 \in T
    OBVIOUS
  <2>1. i \in 1 .. Len(vs) /\ CrossesRight(vs[i], After(vs, i), p)
    OBVIOUS
  <2>2. place(i) - 1 \in 0 .. MaxVertices - 1 /\ (place(i) - 1) + 1 = place(i)
    BY <1>1, <1>4, <2>1
  <2>3. C1CrossesRight(p, padded[place(i)], After(padded, place(i)))
    BY <1>3, <1>4, <2>1
  <2> HIDE DEF place
  <2> QED
    BY <2>2, <2>3
<1>7. ASSUME NEW i \in S, NEW j \in S, f[i] = f[j] PROVE i = j
  <2>1. i \in 1 .. Len(vs) /\ j \in 1 .. Len(vs) /\ place(i) = place(j)
    <3>1. f[i] = place(i) - 1 /\ f[j] = place(j) - 1 /\ i \in 1 .. Len(vs) /\ j \in 1 .. Len(vs)
      OBVIOUS
    <3>2. place(i) \in Int /\ place(j) \in Int
      BY <1>4, <3>1
    <3>3. place(i) - 1 = place(j) - 1
      BY <1>7, <3>1
    <3> HIDE DEF f, place
    <3>4. place(i) = place(j)
      BY ONLY <3>2, <3>3
    <3> QED
      BY <3>1, <3>4
  <2> QED
    BY <1>1, <2>1
\* An edge without length crosses nothing.
<1>8. ASSUME NEW j \in T PROVE \E i \in S : f[i] = j
  <2>1. j \in 0 .. MaxVertices - 1 /\ j + 1 \in 1 .. MaxVertices
    BY <1>1
  <2>2. CrossesRight(padded[j + 1], After(padded, j + 1), p)
    BY <1>3, <2>1
  <2>3. padded[j + 1] # After(padded, j + 1)
    BY <2>2 DEF CrossesRight
  <2>4. j + 1 < Len(vs) \/ j + 1 = MaxVertices
    BY <1>1, <1>2, <2>1, <2>3, PaddedEdges
  <2>5. PICK i \in 1 .. Len(vs) : place(i) = j + 1
    <3>1. CASE j + 1 < Len(vs)
      <4>1. j + 1 \in 1 .. Len(vs) /\ place(j + 1) = j + 1
        BY <1>1, <2>1, <3>1
      <4> QED
        BY <4>1
    <3>2. CASE j + 1 = MaxVertices
      <4>1. Len(vs) \in Nat /\ Len(vs) >= 3
        BY <1>1
      <4>2. Len(vs) \in 1 .. Len(vs) /\ ~ Len(vs) < Len(vs)
        BY ONLY <4>1
      <4>3. place(Len(vs)) = j + 1
        BY ONLY <3>2, <4>2
      <4> QED
        BY <4>2, <4>3
    <3> QED
      BY <2>4, <3>1, <3>2
  <2>6. CrossesRight(vs[i], After(vs, i), p)
    BY <1>4, <2>2, <2>5
  <2>7. i \in S /\ f[i] = place(i) - 1
    BY <2>6
  <2> HIDE DEF S, T, f, place
  <2> QED
    BY <2>1, <2>5, <2>7
<1>9. IsFiniteSet(S) /\ Cardinality(S) = Cardinality(T)
  <2>1. f \in Bijection(S, T)
    <3> HIDE DEF S, T, f
    <3>1. \A j \in T : \E i \in S : f[i] = j
      BY <1>8
    <3>2. \A i, j \in S : f[i] = f[j] => i = j
      BY <1>7
    <3> QED
      BY ONLY <1>6, <3>1, <3>2 DEF Bijection, Injection, IsInjective, Surjection
  <2>2. IsFiniteSet(1 .. Len(vs))
    BY <1>1, FS_Interval
  <2>3. IsFiniteSet(S)
    BY <2>2, FS_Subset
  <2>4. ExistsBijection(S, T)
    <3> HIDE DEF S, T, f
    <3> QED
      BY <2>1 DEF ExistsBijection
  <2> HIDE DEF S, T
  <2> QED
    BY <2>3, <2>4, FS_Bijection
<1> QED
  BY <1>9 DEF Crossings

\* What the rows say of the padded polygon is true of the polygon.
LEMMA OutsideByRows ==
  ASSUME NEW vs \in Seq(Point), Len(vs) \in 3 .. MaxVertices, NEW p \in Point,
         NEW r, \A k \in 1 .. MaxVertices :
                  /\ r[k].a = C1Padded(vs)[k] /\ r[k].b = After(C1Padded(vs), k)
                  /\ r[k].point = p /\ ~ C1Touches(r[k]),
         Crossings(C1Padded(vs), p, MaxVertices - 1) % 2 = 0
  PROVE  StrictlyOutside(vs, p)
<1>1. MaxVertices \in Nat /\ Len(vs) \in Nat
  BY GeofenceAssumption
<1>2. PICK padded : padded = C1Padded(vs)
  OBVIOUS
<1>3. ASSUME NEW k \in 1 .. MaxVertices
      PROVE  /\ ~ PointOnSegment(padded[k], After(padded, k), p)
             /\ C1CrossesRight(p, padded[k], After(padded, k))
                  <=> CrossesRight(padded[k], After(padded, k), p)
  <2>1. padded[k] \in Point /\ After(padded, k) \in Point
    BY <1>2, PaddedEdges
  <2>2. r[k].a = padded[k] /\ r[k].b = After(padded, k) /\ r[k].point = p /\ ~ C1Touches(r[k])
    BY <1>2
  <2> QED
    BY <2>1, <2>2, EdgeAgrees
<1>4. ASSUME NEW i \in 1 .. Len(vs)
      PROVE  \E k \in 1 .. MaxVertices : padded[k] = vs[i] /\ After(padded, k) = After(vs, i)
  BY <1>2, PlacedEdges
<1>5. ~ OnBoundary(vs, p)
  BY <1>3, <1>4 DEF OnBoundary
<1>6. Cardinality({i \in 1 .. Len(vs) : CrossesRight(vs[i], After(vs, i), p)}) % 2 = 0
  <2>1. Cardinality({i \in 1 .. Len(vs) : CrossesRight(vs[i], After(vs, i), p)})
          = Crossings(padded, p, MaxVertices - 1)
    BY <1>2, <1>3, CrossedEdges
  <2> QED
    BY <1>2, <2>1
<1> QED
  BY <1>5, <1>6 DEF StrictlyOutside, Quantify

\* Where the rows of an event and an edge are, and what they carry.
RowOf(e, edge) == 2 * (e * MaxVertices + edge)

\* The two rows of an event and an edge lie inside the trace; the first carries the
\* event's point and the edge, the second the polygon so far and the parity of the
\* crossings up to the edge.
LEMMA RowsOfEdge ==
  ASSUME NEW lot, Len(lot.events) \in Nat, MaxVertices > 0,
         NEW e \in 0 .. Len(lot.events) - 1, NEW edge \in 0 .. MaxVertices - 1
  PROVE  /\ RowOf(e, edge) \in Nat /\ C1Height(Len(lot.events)) \in Nat
         /\ RowOf(e, edge) + 2 <= C1Height(Len(lot.events))
         /\ C1Row(lot, RowOf(e, edge)).phase = 0 /\ C1Row(lot, RowOf(e, edge)).point = lot.events[e + 1].point
         /\ C1Row(lot, RowOf(e, edge)).a = C1Padded(lot.polygon)[edge + 1]
         /\ C1Row(lot, RowOf(e, edge)).b = After(C1Padded(lot.polygon), edge + 1)
         /\ C1Row(lot, RowOf(e, edge) + 1).phase = 1
         /\ C1Row(lot, RowOf(e, edge) + 1).last = (edge + 1 = MaxVertices)
         /\ C1Row(lot, RowOf(e, edge) + 1).output =
              Append(SubSeq(C1Padded(lot.polygon), 1, edge), C1Padded(lot.polygon)[edge + 1])
         /\ C1Row(lot, RowOf(e, edge) + 1).parity =
              Crossings(C1Padded(lot.polygon), lot.events[e + 1].point, edge) % 2
<1>1. PICK n, m, pair, k : /\ n = Len(lot.events) /\ m = MaxVertices /\ pair = e * m + edge
                           /\ k = 2 * pair /\ k = RowOf(e, edge)
  BY DEF RowOf
<1>2. n \in Nat /\ n > 0 /\ m \in Nat /\ m > 0 /\ e \in 0 .. n - 1 /\ edge \in 0 .. m - 1
  BY <1>1, GeofenceAssumption
<1>3. pair \in Nat /\ pair \div m = e /\ pair % m = edge /\ k = 2 * pair /\ k \in Nat
  <2>1. e * m \in Nat
    BY <1>2
  <2>2. (e * m + edge) \div m = e /\ (e * m + edge) % m = edge
    BY <1>2, DivOfSum
  <2> QED
    BY <1>1, <1>2, <2>1, <2>2
<1>4. k \div 2 = pair /\ (k + 1) \div 2 = pair /\ k % 2 = 0 /\ (k + 1) % 2 = 1
  BY <1>3
<1>5. Min({e, n - 1}) = e
  BY <1>2, MinOfTwo
<1>6. C1Height(n) \in Nat /\ k + 2 <= C1Height(n)
  <2>1. PICK h : h = NextPowerOfTwo(n) /\ h \in Nat /\ h >= n
    BY <1>2, PowerFits
  <2>2. C1Height(n) = (h * m) * 2
    BY <1>1, <2>1 DEF C1Height
  <2>3. \A x, y, z \in Nat : x <= y => x * z <= y * z
    OBVIOUS
  <2>4. (e + 1) * m <= h * m /\ (e + 1) * m = e * m + m /\ h * m \in Nat /\ e * m \in Nat
    BY <1>2, <2>1, <2>3
  <2>5. pair + 1 <= h * m
    BY <1>1, <1>2, <2>4
  <2> QED
    BY <1>3, <2>2, <2>4, <2>5
<1> DEFINE P == C1Padded(lot.polygon)
           p == lot.events[e + 1].point
<1>7. /\ C1Row(lot, k).phase = k % 2
      /\ C1Row(lot, k).point =
           lot.events[Min({(k \div 2) \div MaxVertices, Len(lot.events) - 1}) + 1].point
      /\ C1Row(lot, k).a = P[((k \div 2) % MaxVertices) + 1]
      /\ C1Row(lot, k).b = After(P, ((k \div 2) % MaxVertices) + 1)
  BY Zenon DEF C1Row, C1Aux
<1>8. PICK r, point : /\ r = C1Row(lot, k + 1)
                      /\ point = lot.events[Min({((k + 1) \div 2) \div MaxVertices,
                                                 Len(lot.events) - 1}) + 1].point
  OBVIOUS
<1>9. PICK at, ph : at = ((k + 1) \div 2) % MaxVertices /\ ph = (k + 1) % 2
  OBVIOUS
<1>10. /\ r.phase = ph /\ r.last = (at + 1 = MaxVertices)
       /\ (ph # 0 => r.output = Append(SubSeq(P, 1, at), P[at + 1]))
       /\ r.parity = Cardinality({j \in 0 .. (at - Bit(ph = 0)) :
                                    C1CrossesRight(point, P[j + 1], After(P, j + 1))}) % 2
  BY <1>8, <1>9, Zenon DEF C1Row, C1Aux, Quantify
<1>11. at = edge /\ ph = 1 /\ point = p /\ at - Bit(ph = 0) = edge
  <2>1. at = edge /\ ph = 1
    BY <1>1, <1>3, <1>4, <1>9
  <2>2. point = p
    BY <1>1, <1>3, <1>4, <1>5, <1>8
  <2>3. Bit(ph = 0) = 0
    BY <2>1 DEF Bit
  <2> QED
    BY <1>2, <2>1, <2>2, <2>3
<1>12. C1Row(lot, k).phase = 0 /\ C1Row(lot, k).point = p
       /\ C1Row(lot, k).a = P[edge + 1] /\ C1Row(lot, k).b = After(P, edge + 1)
  <2> HIDE DEF P
  <2> QED
    BY <1>1, <1>3, <1>4, <1>5, <1>7
<1>13. /\ r.phase = 1 /\ r.last = (edge + 1 = MaxVertices)
       /\ r.output = Append(SubSeq(P, 1, edge), P[edge + 1])
       /\ r.parity = Crossings(P, p, edge) % 2
  <2> HIDE DEF P, p
  <2>1. ph = 1 /\ ph # 0 /\ at = edge /\ point = p /\ at - Bit(ph = 0) = edge
    BY <1>11
  <2>2. r.phase = 1 /\ r.last = (edge + 1 = MaxVertices)
    BY <1>10, <2>1
  <2>3. r.output = Append(SubSeq(P, 1, edge), P[edge + 1])
    BY <1>10, <2>1
  <2>4. r.parity = Crossings(P, p, edge) % 2
    BY ONLY <1>10, <2>1 DEF Crossings
  <2> QED
    BY <2>2, <2>3, <2>4
<1> HIDE DEF P, p
<1> QED
  BY <1>1, <1>3, <1>6, <1>8, <1>12, <1>13 DEF P, p

\* No sequence is itself with something appended.
LEMMA Longer ==
  ASSUME NEW n \in Nat, NEW f, f = [i \in 1 .. n |-> f[i]], NEW x
  PROVE  Append(f, x) # f
<1>1. PICK S : S = {f[i] : i \in 1 .. n}
  OBVIOUS
<1>2. f \in Seq(S) /\ Len(f) = n
  BY <1>1
<1>3. Append(f, x) \in Seq(S \cup {x}) /\ Len(Append(f, x)) = n + 1
  BY <1>2
<1> QED
  BY <1>2, <1>3

\* A row has absorbed half as many words as there are rows before it.
LEMMA BatchIs ==
  ASSUME NEW lot, NEW row, NEW half, half = (row + 1) \div 2
  PROVE  C1Row(lot, row).batch = [k \in 1 .. half |-> C1Row(lot, row).batch[k]]
<1>1. PICK r : r = C1Row(lot, row)
  OBVIOUS
<1>2. DOMAIN r.batch = 1 .. half /\ r.batch = [k \in DOMAIN r.batch |-> r.batch[k]]
  BY <1>1 DEF C1Row
<1> QED
  BY <1>1, <1>2

\* A proof of C1 is of a lot of an allowed length whose points are all strictly
\* outside, and the public polygon and events are its own.
LEMMA SoundC1 ==
  ASSUME ProverInv, phase = "proved", job.circuit = "C1"
  PROVE  Statement
<1>0. PICK lot, n, height, P :
        /\ lot = job.lot /\ n = Len(lot.events) /\ height = C1Height(n)
        /\ P = C1Padded(lot.polygon)
  OBVIOUS
<1>1. /\ job.tamper \in {"none", "polygon", "events"}
      /\ lot.polygon \in Seq(Point) /\ Len(lot.polygon) \in 3 .. MaxVertices
      /\ lot.events \in Seq([id : Int, point : Point])
  <2>1. Tampers["C1"] = {"polygon", "events"}
    BY DEF Tampers
  <2>2. job \in Jobs
    BY ProvedHolds
  <2>3. /\ job.tamper \in {"none"} \cup Tampers["C1"]
        /\ lot.polygon \in Seq(Point) /\ SimplePolygon(lot.polygon)
        /\ lot.events \in Seq([id : Int, point : Point])
    BY <1>0, <2>2, E1ProverAssumption
  <2> QED
    BY <2>1, <2>3 DEF SimplePolygon
<1>2. /\ n \in MinLotEvents .. MaxLotEvents
      /\ \A i \in 1 .. n : InBounds(lot.events[i].point)
  BY <1>0, ProvedHolds DEF HasWitness, C1Witness
<1>3. n \in Nat /\ n > 0 /\ MaxVertices \in Nat /\ MaxVertices >= 3
  BY <1>0, <1>1, <1>2, LotLengthAssumption, GeofenceAssumption
<1>4. trace = C1Trace(lot) /\ pis = SpoiltC1
  BY <1>0, ProvedHolds DEF TraceAndPublics
<1>5. Len(trace) = height /\ \A i \in 1 .. height : trace[i] = C1Row(lot, i - 1)
  <2>1. height \in Nat
    <3>1. NextPowerOfTwo(n) \in Nat
      BY <1>3, PowerFits
    <3> QED
      BY <1>0, <1>3, <3>1 DEF C1Height
  <2>2. trace = [i \in 1 .. height |-> C1Row(lot, i - 1)]
    BY <1>0, <1>4 DEF C1Trace
  <2> QED
    BY <2>1, <2>2
<1>6. \A i \in 1 .. height : C1EveryRow(C1Row(lot, i - 1), pis)
  <2>1. \A i \in 1 .. height : RowHolds(trace[i], i = 1)
    BY <1>5, ProvedHolds DEF Holds
  <2>2. \A i \in 1 .. height : C1EveryRow(trace[i], pis)
    BY <2>1 DEF RowHolds
  <2> QED
    BY <1>5, <2>2
<1>10. ASSUME NEW e \in 0 .. n - 1, NEW edge \in 0 .. MaxVertices - 1
       PROVE  /\ RowOf(e, edge) \in Nat /\ height \in Nat /\ RowOf(e, edge) + 2 <= height
              /\ C1Row(lot, RowOf(e, edge)).phase = 0
              /\ C1Row(lot, RowOf(e, edge)).point = lot.events[e + 1].point
              /\ C1Row(lot, RowOf(e, edge)).a = P[edge + 1]
              /\ C1Row(lot, RowOf(e, edge)).b = After(P, edge + 1)
              /\ C1Row(lot, RowOf(e, edge) + 1).phase = 1
              /\ C1Row(lot, RowOf(e, edge) + 1).last = (edge + 1 = MaxVertices)
              /\ C1Row(lot, RowOf(e, edge) + 1).output = Append(SubSeq(P, 1, edge), P[edge + 1])
              /\ C1Row(lot, RowOf(e, edge) + 1).parity =
                   Crossings(P, lot.events[e + 1].point, edge) % 2
              /\ C1EveryRow(C1Row(lot, RowOf(e, edge)), pis)
              /\ C1EveryRow(C1Row(lot, RowOf(e, edge) + 1), pis)
  <2>1. MaxVertices > 0 /\ Len(lot.events) \in Nat /\ e \in 0 .. Len(lot.events) - 1
    BY <1>0, <1>3
  <2>2. /\ RowOf(e, edge) \in Nat /\ height \in Nat /\ RowOf(e, edge) + 2 <= height
    BY ONLY <1>0, <2>1, edge \in 0 .. MaxVertices - 1, RowsOfEdge
  <2>3. /\ RowOf(e, edge) + 1 \in 1 .. height /\ (RowOf(e, edge) + 1) - 1 = RowOf(e, edge)
        /\ RowOf(e, edge) + 2 \in 1 .. height /\ (RowOf(e, edge) + 2) - 1 = RowOf(e, edge) + 1
    BY <2>2
  <2>4. /\ C1EveryRow(C1Row(lot, RowOf(e, edge)), pis)
        /\ C1EveryRow(C1Row(lot, RowOf(e, edge) + 1), pis)
    BY <1>6, <2>3
  <2>5. /\ C1Row(lot, RowOf(e, edge)).phase = 0
        /\ C1Row(lot, RowOf(e, edge)).point = lot.events[e + 1].point
        /\ C1Row(lot, RowOf(e, edge)).a = P[edge + 1]
        /\ C1Row(lot, RowOf(e, edge)).b = After(P, edge + 1)
    BY ONLY <1>0, <2>1, edge \in 0 .. MaxVertices - 1, RowsOfEdge
  <2>6. /\ C1Row(lot, RowOf(e, edge) + 1).phase = 1
        /\ C1Row(lot, RowOf(e, edge) + 1).last = (edge + 1 = MaxVertices)
        /\ C1Row(lot, RowOf(e, edge) + 1).output = Append(SubSeq(P, 1, edge), P[edge + 1])
    BY ONLY <1>0, <2>1, edge \in 0 .. MaxVertices - 1, RowsOfEdge
  <2>7. C1Row(lot, RowOf(e, edge) + 1).parity = Crossings(P, lot.events[e + 1].point, edge) % 2
    BY ONLY <1>0, <2>1, edge \in 0 .. MaxVertices - 1, RowsOfEdge
  <2> QED
    BY ONLY <2>2, <2>4, <2>5, <2>6, <2>7
\* The last edge of the first event closes the polygon that is published.
<1>7. job.tamper # "polygon"
  <2> SUFFICES ASSUME job.tamper = "polygon" PROVE FALSE
    OBVIOUS
  <2>1. pis.polygon = Append(P, PointAt(0, 0))
    BY <1>0, <1>4 DEF SpoiltC1, C1Publics
  <2>2. PICK e, edge, k : e = 0 /\ edge = MaxVertices - 1 /\ k = RowOf(e, edge)
    OBVIOUS
  <2>3. e \in 0 .. n - 1 /\ edge \in 0 .. MaxVertices - 1 /\ edge + 1 = MaxVertices
    BY <1>3, <2>2
  <2>4. k \in Nat /\ height \in Nat /\ k + 2 <= height
    BY <1>10, <2>2, <2>3
  <2>5. PICK r : r = C1Row(lot, k + 1)
    OBVIOUS
  <2>6. r.phase = 1 /\ r.last /\ r.output = Append(SubSeq(P, 1, edge), P[MaxVertices])
    BY <1>10, <2>2, <2>3, <2>5, ZenonT(40)
  <2>7. C1EveryRow(r, pis)
    BY <1>10, <2>2, <2>3, <2>5
  <2>8. r.output = Append(P, PointAt(0, 0))
    BY <2>1, <2>6, <2>7 DEF C1EveryRow
  <2>9. P \in Seq(Point) /\ Len(P) = MaxVertices
    BY <1>0, <1>1, PaddedEdges
  <2>10. PointAt(0, 0) \in Point
    BY DEF PointAt, Point
  <2>11. SubSeq(P, 1, edge) \in Seq(Point) /\ Len(SubSeq(P, 1, edge)) = edge /\ P[MaxVertices] \in Point
    BY <1>3, <2>2, <2>3, <2>9
  <2>12. Len(r.output) = edge + 1 /\ Len(r.output) = MaxVertices + 1
    <3>1. Len(Append(P, PointAt(0, 0))) = MaxVertices + 1
      BY <2>9, <2>10
    <3>2. Len(Append(SubSeq(P, 1, edge), P[MaxVertices])) = edge + 1
      BY <2>11
    <3> QED
      BY <2>6, <2>8, <3>1, <3>2
  <2> QED
    BY <1>3, <2>3, <2>12
\* The last row has absorbed what is published of the events.
<1>8. job.tamper # "events"
  <2> SUFFICES ASSUME job.tamper = "events" PROVE FALSE
    OBVIOUS
  <2>1. PICK r : r = C1Row(lot, height - 1)
    OBVIOUS
  <2>2. pis.events = Append(r.batch, 0)
    BY <1>0, <1>4, <2>1 DEF SpoiltC1, C1Publics
  <2>3. height \in Nat /\ height >= 2
    <3>1. 0 \in 0 .. n - 1 /\ 0 \in 0 .. MaxVertices - 1
      BY <1>3
    <3>2. RowOf(0, 0) \in Nat /\ height \in Nat /\ RowOf(0, 0) + 2 <= height
      BY <1>10, <3>1
    <3> QED
      BY <3>2
  <2>4. LastHolds(trace[height])
    BY <1>5, <2>3, ProvedHolds DEF Holds
  <2>5. r.batch = Append(r.batch, 0)
    BY <1>5, <2>1, <2>2, <2>3, <2>4 DEF LastHolds, C1LastRow
  <2>6. PICK half : half = ((height - 1) + 1) \div 2
    OBVIOUS
  <2>7. r.batch = [k \in 1 .. half |-> r.batch[k]]
    BY <2>1, <2>6, BatchIs
  <2> QED
    BY <2>3, <2>5, <2>6, <2>7, Longer
<1>9. AllOutside(lot)
  <2> SUFFICES ASSUME NEW i \in DOMAIN lot.events
               PROVE  StrictlyOutside(lot.polygon, lot.events[i].point)
    BY DEF AllOutside
  <2>1. PICK e, p : e = i - 1 /\ p = lot.events[i].point
    OBVIOUS
  <2>2. e \in 0 .. n - 1 /\ e + 1 = i /\ p \in Point
    <3>1. i \in 1 .. n /\ lot.events[i] \in [id : Int, point : Point]
      <4>1. PICK events : events = lot.events /\ events \in Seq([id : Int, point : Point])
        BY <1>1
      <4>2. Len(events) = n /\ i \in DOMAIN events /\ DOMAIN events = 1 .. Len(events)
        BY <1>0, <4>1
      <4>3. events[i] \in [id : Int, point : Point]
        <5>1. \A S, s : s \in Seq(S) => \A k \in 1 .. Len(s) : s[k] \in S
          OBVIOUS
        <5>2. i \in 1 .. Len(events)
          BY <4>2
        <5> QED
          BY ONLY <4>1, <5>1, <5>2
      <4> QED
        BY <4>1, <4>2, <4>3
    <3> QED
      BY <1>3, <2>1, <3>1
  <2> DEFINE at(k) == RowOf(e, k - 1)
             r == [k \in 1 .. MaxVertices |-> C1Row(lot, at(k))]
  <2>3. ASSUME NEW k \in 1 .. MaxVertices
        PROVE  /\ r[k].a = P[k] /\ r[k].b = After(P, k)
               /\ r[k].point = p /\ ~ C1Touches(r[k])
    <3>1. PICK edge, row : edge = k - 1 /\ row = RowOf(e, edge)
      OBVIOUS
    <3>2. edge \in 0 .. MaxVertices - 1 /\ edge + 1 = k
      BY <1>3, <3>1
    <3>3. /\ row \in Nat /\ height \in Nat /\ row + 2 <= height
          /\ C1Row(lot, row).phase = 0 /\ C1Row(lot, row).point = lot.events[e + 1].point
          /\ C1Row(lot, row).a = P[edge + 1] /\ C1Row(lot, row).b = After(P, edge + 1)
      BY <1>10, <2>2, <3>1, <3>2
    <3>4. r[k] = C1Row(lot, row)
      BY <3>1
    <3>5. C1EveryRow(C1Row(lot, row), pis)
      BY <1>10, <2>2, <3>1, <3>2
    <3>6. ~ C1Touches(C1Row(lot, row))
      BY <3>3, <3>5 DEF C1EveryRow
    <3> HIDE DEF r
    <3> QED
      BY <2>1, <2>2, <3>2, <3>3, <3>4, <3>6
  <2>4. Crossings(P, p, MaxVertices - 1) % 2 = 0
    <3>1. PICK edge, row : edge = MaxVertices - 1 /\ row = RowOf(e, edge)
      OBVIOUS
    <3>2. edge \in 0 .. MaxVertices - 1 /\ edge + 1 = MaxVertices
      BY <1>3, <3>1
    <3>3. row \in Nat /\ height \in Nat /\ row + 2 <= height
      BY <1>10, <2>2, <3>1, <3>2
    <3>4. PICK s : s = C1Row(lot, row + 1)
      OBVIOUS
    <3>5. /\ s.phase = 1 /\ s.last = (edge + 1 = MaxVertices)
          /\ s.parity = Crossings(P, lot.events[e + 1].point, edge) % 2
      BY <1>10, <2>2, <3>1, <3>2, <3>4
    <3>6. C1EveryRow(s, pis)
      BY <1>10, <2>2, <3>1, <3>2, <3>4
    <3>7. s.parity = 0
      BY <3>2, <3>5, <3>6 DEF C1EveryRow
    <3> QED
      BY <2>1, <2>2, <3>1, <3>5, <3>7
  <2> HIDE DEF r
  <2>5. StrictlyOutside(lot.polygon, p)
    <3>1. \A k \in 1 .. MaxVertices :
            /\ r[k].a = C1Padded(lot.polygon)[k] /\ r[k].b = After(C1Padded(lot.polygon), k)
            /\ r[k].point = p /\ ~ C1Touches(r[k])
      BY <1>0, <2>3
    <3>2. Crossings(C1Padded(lot.polygon), p, MaxVertices - 1) % 2 = 0
      BY <1>0, <2>4
    <3>3. p \in Point /\ lot.polygon \in Seq(Point) /\ Len(lot.polygon) \in 3 .. MaxVertices
      BY <1>1, <2>2
    <3> QED
      BY ONLY <3>1, <3>2, <3>3, OutsideByRows
  <2> QED
    BY <2>1, <2>5
<1>11. \A i \in DOMAIN lot.events : InBounds(lot.events[i].point)
  <2>1. PICK events : events = lot.events /\ events \in Seq([id : Int, point : Point])
    BY <1>1
  <2>2. DOMAIN events = 1 .. n
    BY <1>0, <2>1
  <2> QED
    BY <1>2, <2>1, <2>2
<1> QED
  BY <1>0, <1>1, <1>2, <1>7, <1>8, <1>9, <1>11 DEF Statement

-----------------------------------------------------------------------------
(* The prover: the circuits whose statement is a range or a bound.           *)

\* A proof of C3 is of readings under the threshold and of growing timestamps.
LEMMA SoundC3 ==
  ASSUME ProverInv, phase = "proved", job.circuit = "C3"
  PROVE  Statement
<1>1. PICK lot, events : lot = job.lot /\ events = job.events
  OBVIOUS
<1>2. /\ job.tamper = "none" /\ events \in Nat
      /\ lot.readings \in Seq(Int) /\ lot.timestamps \in Seq(Int)
  <2>1. Tampers["C3"] = {}
    BY DEF Tampers
  <2>2. job \in Jobs
    BY ProvedHolds
  <2> QED
    BY <1>1, <2>1, <2>2, E1ProverAssumption
<1>3. /\ events > 0 /\ Len(lot.readings) >= events /\ Len(lot.timestamps) >= events
      /\ \A i \in 1 .. events : lot.readings[i] <= Threshold
  BY <1>1, ProvedHolds DEF HasWitness, C3Witness
<1>4. PICK height : height = Rows(events) /\ height \in Nat /\ height >= events
  BY <1>2, RowsFit
<1>5. trace = C3Trace(lot, events)
  BY <1>1, ProvedHolds DEF TraceAndPublics
<1>6. Len(trace) = height /\ \A i \in 1 .. height : trace[i] = C3Row(lot, events, i - 1)
  BY <1>4, <1>5 DEF C3Trace
<1>7. ASSUME NEW i \in 1 .. events
      PROVE  {C3Row(lot, events, i - 1).reading, C3Row(lot, events, i - 1).delta}
               \subseteq 0 .. C3MaxRangeValue
  <2>1. i \in 1 .. height
    BY <1>2, <1>4
  <2>2. RowHolds(trace[i], i = 1)
    BY <1>6, <2>1, ProvedHolds DEF Holds
  <2>3. C3EveryRow(C3Row(lot, events, i - 1), pis)
    BY <1>6, <2>1, <2>2 DEF RowHolds
  <2> QED
    BY <2>3 DEF C3EveryRow
<1>8. C3MaxRangeValue \in Int /\ C3MaxRangeValue + 1 = TwoTo[RangeBits]
      /\ TwoTo[RangeBits] \in Nat /\ Threshold \in Nat
  BY Doubles, RangeAssumption DEF C3MaxRangeValue
<1>9. ASSUME NEW i \in 1 .. events
      PROVE  /\ lot.readings[i] \in 0 .. Threshold
             /\ i > 1 => lot.timestamps[i] - lot.timestamps[i - 1] \in 1 .. TwoTo[RangeBits]
  <2>1. lot.readings[i] \in Int /\ lot.timestamps[i] \in Int
    <3>1. i \in 1 .. Len(lot.readings) /\ i \in 1 .. Len(lot.timestamps)
      BY <1>2, <1>3
    <3> QED
      BY <1>2, <3>1
  <2>2. lot.readings[i] \in 0 .. Threshold
    <3>1. C3Row(lot, events, i - 1).reading = lot.readings[i]
      <4>1. i - 1 < events /\ (i - 1) + 1 = i
        BY <1>2
      <4> QED
        BY <4>1 DEF C3Row
    <3>2. lot.readings[i] >= 0
      BY <1>7, <1>8, <2>1, <3>1
    <3> QED
      BY <1>3, <1>8, <2>1, <3>2
  <2>3. ASSUME i > 1 PROVE lot.timestamps[i] - lot.timestamps[i - 1] \in 1 .. TwoTo[RangeBits]
    <3>1. PICK h : h = i - 1 /\ h \in 1 .. events /\ h - 1 = i - 2
      BY <1>2, <2>3
    <3>2. lot.timestamps[h] \in Int
      <4>1. h \in 1 .. Len(lot.timestamps)
        BY <1>2, <1>3, <3>1
      <4> QED
        BY <1>2, <4>1
    <3>3. C3Row(lot, events, h - 1).delta = lot.timestamps[i] - lot.timestamps[h] - 1
      <4>1. (h - 1) + 1 < events /\ (h - 1) + 2 = i /\ (h - 1) + 1 = h
        BY <1>2, <3>1
      <4> QED
        BY <4>1 DEF C3Row
    <3>4. lot.timestamps[i] - lot.timestamps[h] - 1 \in 0 .. C3MaxRangeValue
      BY <1>7, <3>1, <3>3
    <3> QED
      BY <1>8, <2>1, <3>1, <3>2, <3>4
  <2> QED
    BY <2>2, <2>3
<1> QED
  BY <1>1, <1>2, <1>3, <1>9 DEF Statement

\* No actor with another secret, role or commitment has a proof of C4.
LEMMA SoundC4 ==
  ASSUME ProverInv, phase = "proved", job.circuit = "C4"
  PROVE  Statement
<1>1. PICK lot, tamper : lot = job.lot /\ tamper = job.tamper
  OBVIOUS
<1>2. /\ tamper \in {"none", "secret", "role", "commitment"}
      /\ lot.secret # Off(lot.secret) /\ lot.role # Off(lot.role)
  <2>1. Tampers["C4"] = {"secret", "role", "commitment"}
    BY DEF Tampers
  <2>2. job \in Jobs
    BY ProvedHolds
  <2>3. /\ job.tamper \in {"none"} \cup Tampers["C4"]
        /\ job.lot.secret # Off(job.lot.secret) /\ job.lot.role # Off(job.lot.role)
    BY <2>2, E1ProverAssumption
  <2> QED
    BY <1>1, <2>1, <2>3
<1>3. trace = C4Trace(lot, tamper) /\ pis = C4Publics(lot, tamper)
  BY <1>1, ProvedHolds DEF TraceAndPublics
<1>4. PICK r : /\ r = trace[1] /\ Len(trace) \in Nat /\ Len(trace) >= 1
               /\ r.input = C4Input(lot.actor,
                                    IF tamper = "secret" THEN Off(lot.secret) ELSE lot.secret,
                                    lot.role)
  <2>1. MinRows \in Nat /\ 1 \in 1 .. MinRows
    BY TraceShapeAssumption
  <2> QED
    BY <1>3, <2>1 DEF C4Trace
<1>5. C4FirstRow(r, pis)
  <2>1. RowHolds(trace[1], 1 = 1)
    BY <1>4, ProvedHolds DEF Holds
  <2> QED
    BY <1>4, <2>1 DEF RowHolds
<1>6. r.input = <<"actor", lot.actor, IF tamper = "secret" THEN Off(lot.secret) ELSE lot.secret,
                  lot.role>>
  BY <1>4 DEF C4Input
<1>7. tamper # "secret"
  <2> SUFFICES ASSUME tamper = "secret" PROVE FALSE
    OBVIOUS
  <2>1. pis.commitment = <<"actor", lot.actor, lot.secret, lot.role>>
    BY <1>3 DEF C4Publics, C4Input
  <2>2. r.input[3] = Off(lot.secret) /\ pis.commitment[3] = lot.secret
    BY <1>6, <2>1
  <2> QED
    BY <1>2, <1>5, <2>2 DEF C4FirstRow
<1>8. tamper # "role"
  <2> SUFFICES ASSUME tamper = "role" PROVE FALSE
    OBVIOUS
  <2>1. pis.role = Off(lot.role) /\ r.input[4] = lot.role
    BY <1>3, <1>6 DEF C4Publics
  <2> QED
    BY <1>2, <1>5, <2>1 DEF C4FirstRow
<1>9. tamper # "commitment"
  <2> SUFFICES ASSUME tamper = "commitment" PROVE FALSE
    OBVIOUS
  <2>1. pis.commitment = <<"off", C4Input(lot.actor, lot.secret, lot.role)>>
    BY <1>3 DEF C4Publics, Off
  <2>2. pis.commitment[1] = "off" /\ r.input[1] = "actor"
    BY <1>6, <2>1
  <2> QED
    BY <1>5, <2>2 DEF C4FirstRow
<1> QED
  BY <1>1, <1>2, <1>7, <1>8, <1>9 DEF Statement

-----------------------------------------------------------------------------
(* The prover: the trees.                                                    *)

\* The nodes of a tree over the given leaves, from which Nodes is built.
Tree(f, tag, depth, leaf) ==
  f = [k \in 0 .. depth |->
         [i \in Nat |-> IF k = 0 THEN leaf[i]
                        ELSE Parent(tag, f[k - 1][2 * i], f[k - 1][2 * i + 1])]]

\* There are such nodes over any leaves, of any height.
LEMMA TreeExists ==
  ASSUME NEW tag, NEW leaf, NEW depth \in Nat
  PROVE  \E f : Tree(f, tag, depth, leaf)
<1> DEFINE level(k, f) == [i \in Nat |-> IF k = 0 THEN leaf[i]
                             ELSE Parent(tag, f[k - 1][2 * i], f[k - 1][2 * i + 1])]
           T == {n \in Nat : \E f : f = [k \in 0 .. n |-> level(k, f)]}
<1>1. 0 \in T
  <2> DEFINE f == [k \in 0 .. 0 |-> [i \in Nat |-> leaf[i]]]
  <2>1. ASSUME NEW k \in 0 .. 0 PROVE f[k] = level(k, f)
    <3>1. k = 0
      OBVIOUS
    <3> QED
      BY <3>1
  <2>2. f = [k \in 0 .. 0 |-> f[k]]
    OBVIOUS
  <2> HIDE DEF f, level
  <2>3. f = [k \in 0 .. 0 |-> level(k, f)]
    BY <2>1, <2>2
  <2> QED
    BY <2>3
<1>2. ASSUME NEW n \in T PROVE n + 1 \in T
  <2>1. PICK f : f = [k \in 0 .. n |-> level(k, f)]
    OBVIOUS
  <2>2. n \in Nat
    OBVIOUS
  <2> DEFINE g == [k \in 0 .. n + 1 |-> IF k = n + 1 THEN level(n + 1, f) ELSE f[k]]
  <2>3. ASSUME NEW k \in 0 .. n + 1 PROVE g[k] = level(k, g)
    <3>1. CASE k = 0
      <4>1. f[0] = level(0, f) /\ g[0] = f[0]
        BY <2>1, <2>2
      <4>2. level(0, f) = level(0, g)
        OBVIOUS
      <4> QED
        BY <3>1, <4>1, <4>2
    <3>2. CASE k # 0
      <4>1. k - 1 \in 0 .. n /\ k - 1 # n + 1 /\ k - 1 \in 0 .. n + 1
        BY <2>2, <3>2
      <4>2. g[k - 1] = f[k - 1]
        BY <4>1
      <4>3. level(k, g) = level(k, f)
        <5> HIDE DEF g
        <5> QED
          BY <4>2
      <4>4. g[k] = level(k, f)
        <5>1. CASE k = n + 1
          BY <5>1
        <5>2. CASE k # n + 1
          <6>1. k \in 0 .. n /\ g[k] = f[k]
            BY <2>2, <5>2
          <6> HIDE DEF g, level
          <6> QED
            BY <2>1, <6>1
        <5> QED
          BY <5>1, <5>2
      <4> QED
        BY ONLY <4>3, <4>4
    <3> QED
      BY <3>1, <3>2
  <2>4. g = [k \in 0 .. n + 1 |-> g[k]]
    OBVIOUS
  <2> HIDE DEF g, level
  <2>5. g = [k \in 0 .. n + 1 |-> level(k, g)]
    BY <2>3, <2>4
  <2> QED
    BY <2>2, <2>5
<1>3. T = Nat
  <2>1. T \in SUBSET Nat
    OBVIOUS
  <2> HIDE DEF T
  <2> QED
    BY <1>1, <1>2, <2>1, Induction
<1>4. PICK f : f = [k \in 0 .. depth |-> level(k, f)]
  <2> HIDE DEF level
  <2> QED
    BY <1>3
<1> QED
  BY <1>4 DEF Tree

\* The leaves are at height 0, and a node is the parent of the two below it.
LEMMA TreeLevels ==
  ASSUME NEW tag, NEW leaf, NEW depth \in Nat, NEW f, Tree(f, tag, depth, leaf), NEW i \in Nat
  PROVE  /\ f[0][i] = leaf[i]
         /\ \A k \in 1 .. depth : f[k][i] = Parent(tag, f[k - 1][2 * i], f[k - 1][2 * i + 1])
<1> DEFINE level(k) == [j \in Nat |-> IF k = 0 THEN leaf[j]
                          ELSE Parent(tag, f[k - 1][2 * j], f[k - 1][2 * j + 1])]
<1>1. f = [k \in 0 .. depth |-> level(k)]
  BY DEF Tree
<1>2. \A k \in 0 .. depth : f[k] = level(k)
  <2> HIDE DEF level
  <2> QED
    BY <1>1
<1>3. f[0][i] = leaf[i]
  <2>1. 0 \in 0 .. depth
    OBVIOUS
  <2>2. f[0] = level(0)
    BY ONLY <1>2, <2>1
  <2>3. level(0)[i] = leaf[i]
    OBVIOUS
  <2> QED
    BY ONLY <2>2, <2>3
<1>4. ASSUME NEW k \in 1 .. depth
      PROVE  f[k][i] = Parent(tag, f[k - 1][2 * i], f[k - 1][2 * i + 1])
  <2>1. k \in 0 .. depth /\ k # 0
    OBVIOUS
  <2> QED
    BY <1>2, <2>1
<1> QED
  BY <1>3, <1>4

\* The credential tree of C2.
CertTree(lot, events, depth) ==
  Nodes("cert", depth, LAMBDA i : C2Leaf(lot, i, events))

\* It is the tree over the leaves of its events and fillers.
LEMMA CertIsTree ==
  ASSUME NEW lot, NEW events, NEW depth \in Nat
  PROVE  Tree(CertTree(lot, events, depth), "cert", depth, [i \in Nat |-> C2Leaf(lot, i, events)])
<1> DEFINE leaf == [i \in Nat |-> C2Leaf(lot, i, events)]
           Grows(f) == f = [k \in 0 .. depth |->
                              [i \in Nat |-> IF k = 0 THEN C2Leaf(lot, i, events)
                                 ELSE Parent("cert", f[k - 1][2 * i], f[k - 1][2 * i + 1])]]
           node == CHOOSE f : Grows(f)
<1>1. ASSUME NEW f PROVE Grows(f) <=> Tree(f, "cert", depth, leaf)
  <2> DEFINE own(k) == [i \in Nat |-> IF k = 0 THEN C2Leaf(lot, i, events)
                          ELSE Parent("cert", f[k - 1][2 * i], f[k - 1][2 * i + 1])]
             other(k) == [i \in Nat |-> IF k = 0 THEN leaf[i]
                            ELSE Parent("cert", f[k - 1][2 * i], f[k - 1][2 * i + 1])]
  <2>1. ASSUME NEW k PROVE own(k) = other(k)
    <3>1. \A i \in Nat : leaf[i] = C2Leaf(lot, i, events)
      OBVIOUS
    <3> HIDE DEF leaf
    <3> QED
      BY <3>1
  <2>2. Grows(f) <=> f = [k \in 0 .. depth |-> own(k)]
    OBVIOUS
  <2>3. Tree(f, "cert", depth, leaf) <=> f = [k \in 0 .. depth |-> other(k)]
    BY DEF Tree
  <2> HIDE DEF own, other, Grows
  <2> QED
    BY <2>1, <2>2, <2>3
<1>2. \E f : Tree(f, "cert", depth, leaf)
  BY TreeExists
<1>3. CertTree(lot, events, depth) = node
  BY DEF CertTree, Nodes
<1>4. Grows(node)
  <2> HIDE DEF Grows, leaf
  <2> QED
    BY <1>1, <1>2
<1> HIDE DEF node, Grows, leaf
<1> QED
  BY <1>1, <1>3, <1>4 DEF leaf

\* A proof of C2 is of an event of its tree, under its own root, path and index.
LEMMA SoundC2 ==
  ASSUME ProverInv, phase = "proved", job.circuit = "C2"
  PROVE  Statement
<1>1. PICK lot, events, depth, seed, tamper :
        /\ lot = job.lot /\ events = job.events /\ depth = job.depth /\ seed = job.seed
        /\ tamper = job.tamper
  OBVIOUS
<1>2. /\ tamper \in {"none", "root", "path", "index"}
      /\ events \in Nat /\ seed \in Nat /\ depth \in Nat /\ depth >= 1
  <2>1. Tampers["C2"] = {"root", "path", "index"}
    BY DEF Tampers
  <2>2. job \in Jobs
    BY ProvedHolds
  <2>3. /\ job.tamper \in {"none"} \cup Tampers["C2"]
        /\ job.events \in Nat /\ job.seed \in Nat /\ job.depth \in Nat \ {0}
    BY <2>2, E1ProverAssumption
  <2> QED
    BY <1>1, <2>1, <2>3
<1>3. /\ events > 0 /\ events <= TwoTo[depth]
      /\ events \in 1 .. TwoTo[depth] /\ Len(lot.facts) >= events
  <2>1. events \in 1 .. TwoTo[depth] /\ TwoTo[depth] \in Nat /\ Len(lot.facts) >= events
    BY <1>1, <1>2, ProvedHolds, Doubles DEF HasWitness, C2Witness
  <2> QED
    BY <2>1
<1>4. PICK index, path, tree :
        /\ index = seed % events /\ path = C2Path(lot, events, depth, index)
        /\ tree = CertTree(lot, events, depth)
  OBVIOUS
<1>5. index \in Nat /\ index \div 2 \in Nat /\ index % 2 \in {0, 1}
      /\ index = 2 * (index \div 2) + (index % 2)
  BY <1>2, <1>3, <1>4
<1>6. PICK height : height = Rows(depth + 2) /\ height \in Nat /\ height >= depth + 2
  BY <1>2, RowsFit
<1>7. trace = C2Trace(lot, seed, events, depth, tamper)
      /\ pis = C2Publics(lot, seed, events, depth, tamper)
  BY <1>1, ProvedHolds DEF TraceAndPublics
\* The rows along the path, and the first one after it.
<1>8. /\ Len(trace) = height
      /\ \A row \in 1 .. depth + 1 :
           /\ trace[row].real
           /\ trace[row].input = IF row = 2 /\ tamper = "path"
                                   THEN [path[2] EXCEPT ![3] = Off(path[2][3])] ELSE path[row]
      /\ trace[2].bit = IF tamper = "index" THEN 1 - (Halve(index, 0) % 2) ELSE Halve(index, 0) % 2
      /\ ~ trace[depth + 2].real
  <2> DEFINE bit(k) == Halve(index, k - 2) % 2
             Input(k) == IF k = 2 /\ tamper = "path"
                           THEN [path[2] EXCEPT ![3] = Off(path[2][3])] ELSE path[k]
             RowAt(row) == [input |-> IF row <= depth + 1 THEN Input(row) ELSE Zero,
                          bit |-> IF row \in 2 .. depth + 1
                                    THEN IF row = 2 /\ tamper = "index" THEN 1 - bit(row) ELSE bit(row)
                                    ELSE 0,
                          real |-> row <= depth + 1,
                          level |-> IF row <= depth + 1 THEN row - 1 ELSE depth]
  <2>1. trace = [row \in 1 .. height |-> RowAt(row)]
    BY <1>4, <1>6, <1>7 DEF C2Trace
  <2>2. Len(trace) = height /\ \A row \in 1 .. height : trace[row] = RowAt(row)
    <3> HIDE DEF RowAt
    <3> QED
      BY <1>6, <2>1
  <2>3. ASSUME NEW row \in 1 .. depth + 1 PROVE trace[row].real /\ trace[row].input = Input(row)
    <3>1. row \in 1 .. height /\ row <= depth + 1
      BY <1>2, <1>6
    <3>2. RowAt(row).real /\ RowAt(row).input = Input(row)
      BY <3>1
    <3> HIDE DEF RowAt, Input
    <3> QED
      BY <2>2, <3>1, <3>2
  <2>4. trace[2].bit = IF tamper = "index" THEN 1 - (Halve(index, 0) % 2) ELSE Halve(index, 0) % 2
    <3>1. 2 \in 1 .. height /\ 2 \in 2 .. depth + 1 /\ 2 - 2 = 0
      BY <1>2, <1>6
    <3>2. RowAt(2).bit = IF tamper = "index" THEN 1 - (Halve(index, 0) % 2) ELSE Halve(index, 0) % 2
      BY <3>1
    <3> HIDE DEF RowAt
    <3> QED
      BY <2>2, <3>1, <3>2
  <2>5. ~ trace[depth + 2].real
    <3>1. depth + 2 \in 1 .. height /\ ~ depth + 2 <= depth + 1
      BY <1>2, <1>6
    <3>2. ~ RowAt(depth + 2).real
      BY <3>1
    <3> HIDE DEF RowAt
    <3> QED
      BY <2>2, <3>1, <3>2
  <2> HIDE DEF RowAt
  <2> QED
    BY <2>2, <2>3, <2>4, <2>5
<1>9. ASSUME NEW row \in 1 .. depth + 1 PROVE C2Transition(trace[row], trace[row + 1], pis)
  <2>1. row \in 1 .. Len(trace) /\ row < Len(trace)
    BY <1>2, <1>6, <1>8
  <2>2. TransitionHolds(trace[row], trace[row + 1])
    BY <2>1, ProvedHolds DEF Holds
  <2> QED
    BY <2>2 DEF TransitionHolds
\* Two rows of the path, and its end.
<1>10. ASSUME NEW row \in 1 .. depth
       PROVE  /\ trace[row + 1].bit \in {0, 1} /\ trace[row + 1].input[1] = "cert"
              /\ trace[row + 1].input[2 + trace[row + 1].bit] = trace[row].input
  <2>1. row \in 1 .. depth + 1 /\ row + 1 \in 1 .. depth + 1
    BY <1>2
  <2> QED
    BY <1>8, <1>9, <2>1 DEF C2Transition
<1>11. trace[depth + 1].input = pis.root
  <2>1. depth + 1 \in 1 .. depth + 1 /\ (depth + 1) + 1 = depth + 2
    BY <1>2
  <2> QED
    BY <1>8, <1>9, <2>1 DEF C2Transition
<1>12. pis.root = IF tamper = "root" THEN <<"off", path[depth + 1]>> ELSE path[depth + 1]
  BY <1>4, <1>7 DEF C2Publics, Off
<1>13. /\ \A row \in 1 .. depth + 1 : path[row] = tree[row - 1][Halve(index, row - 1)]
       /\ Halve(index, 0) = index /\ Halve(index, 1) = index \div 2
       /\ \A k \in 0 .. depth : Halve(index, k) \in Nat
  <2>1. path = [k \in 1 .. depth + 1 |-> tree[k - 1][Halve(index, k - 1)]]
    BY <1>4 DEF C2Path, CertTree
  <2>2. TwoTo[0] = 1 /\ TwoTo[1] = 2 /\ \A k \in Nat : TwoTo[k] \in Nat /\ TwoTo[k] > 0
    BY Doubles, PowerExceeds
  <2>3. Halve(index, 0) = index /\ Halve(index, 1) = index \div 2
    BY <1>5, <2>2 DEF Halve
  <2>4. \A k \in 0 .. depth : Halve(index, k) \in Nat
    BY <1>5, <2>2 DEF Halve
  <2> QED
    BY <2>1, <2>3, <2>4
<1> DEFINE leaf(i) == C2Leaf(lot, i, events)
<1>14. ASSUME NEW i \in Nat
       PROVE  /\ tree[0][i] = leaf(i)
              /\ \A k \in 1 .. depth : tree[k][i] = <<"cert", tree[k - 1][2 * i], tree[k - 1][2 * i + 1]>>
  <2>1. Tree(tree, "cert", depth, [j \in Nat |-> C2Leaf(lot, j, events)])
    BY <1>2, <1>4, CertIsTree
  <2>2. PICK leaves : leaves = [j \in Nat |-> C2Leaf(lot, j, events)]
    OBVIOUS
  <2>3. leaves[i] = leaf(i)
    BY <2>2
  <2>4. /\ tree[0][i] = leaves[i]
        /\ \A k \in 1 .. depth : tree[k][i] = Parent("cert", tree[k - 1][2 * i], tree[k - 1][2 * i + 1])
    <3>1. Tree(tree, "cert", depth, leaves)
      BY <2>1, <2>2
    <3> QED
      BY ONLY <1>2, <3>1, i \in Nat, TreeLevels
  <2> QED
    BY <2>3, <2>4 DEF Parent
<1>15. \A i : leaf(i)[1] \in {"event", "filler"} /\ leaf(i)[3] = i
  BY DEF C2Leaf
<1> HIDE DEF leaf
\* The nodes over the leaves.
<1>16. ASSUME NEW i \in Nat PROVE tree[1][i] = <<"cert", leaf(2 * i), leaf(2 * i + 1)>>
  <2>1. 1 \in 1 .. depth /\ 1 - 1 = 0 /\ 2 * i \in Nat /\ 2 * i + 1 \in Nat
    BY <1>2
  <2> QED
    BY <1>14, <2>1
<1>17. path[1] = leaf(index)
       /\ path[2] = <<"cert", leaf(2 * (index \div 2)), leaf(2 * (index \div 2) + 1)>>
  <2>1. 1 \in 1 .. depth + 1 /\ 2 \in 1 .. depth + 1 /\ 1 - 1 = 0 /\ 2 - 1 = 1
    BY <1>2
  <2>2. path[1] = tree[0][index] /\ path[2] = tree[1][index \div 2]
    BY <1>13, <2>1
  <2> QED
    BY <1>5, <1>14, <1>16, <2>2
<1>18. tamper # "root"
  <2> SUFFICES ASSUME tamper = "root" PROVE FALSE
    OBVIOUS
  <2>1. trace[depth + 1].input = <<"off", path[depth + 1]>>
    BY <1>11, <1>12
  <2>2. trace[depth + 1].input[1] = "cert"
    <3>1. depth \in 1 .. depth
      BY <1>2
    <3> QED
      BY <1>10, <3>1
  <2> QED
    BY <2>1, <2>2
<1>19. tamper # "path"
  <2> SUFFICES ASSUME tamper = "path" PROVE FALSE
    OBVIOUS
  <2>1. PICK a, b : a = leaf(2 * (index \div 2)) /\ b = leaf(2 * (index \div 2) + 1)
    OBVIOUS
  <2>2. trace[2].input = [path[2] EXCEPT ![3] = Off(path[2][3])]
    <3>1. 2 \in 1 .. depth + 1
      BY <1>2
    <3> QED
      BY <1>8, <3>1
  <2>3. path[2] = <<"cert", a, b>> /\ trace[2].input = <<"cert", a, <<"off", b>>>>
    <3>1. path[2] = <<"cert", a, b>>
      BY <1>17, <2>1
    <3> QED
      BY <2>2, <3>1 DEF Off
  <2>4. ASSUME NEW i PROVE <<"off", b>> # leaf(i)
    <3>1. leaf(i)[1] # "off"
      BY <1>15
    <3> QED
      BY <3>1
  <2>5. CASE depth = 1
    <3>1. <<"cert", a, <<"off", b>>>> = <<"cert", a, b>>
      BY <1>11, <1>12, <2>3, <2>5
    <3>2. <<"off", b>> = b
      BY <3>1
    <3> QED
      BY <2>1, <2>4, <3>2
  <2>6. CASE depth > 1
    <3>1. 2 \in 1 .. depth /\ 3 \in 1 .. depth + 1 /\ 2 \in 0 .. depth /\ 3 - 1 = 2
      BY <1>2, <2>6
    <3>2. PICK i : i = Halve(index, 2) /\ i \in Nat
      BY <1>13, <3>1
    <3>3. trace[3].input = path[3] /\ path[3] = tree[2][i]
      BY <1>8, <1>13, <3>1, <3>2
    <3>4. tree[2][i] = <<"cert", tree[1][2 * i], tree[1][2 * i + 1]>>
      BY <1>14, <3>1, <3>2
    <3>5. /\ trace[3].bit \in {0, 1}
          /\ trace[3].input[2 + trace[3].bit] = trace[2].input
      <4>1. 2 + 1 = 3
        OBVIOUS
      <4> QED
        BY <1>10, <3>1, <4>1
    <3>6. \E j \in Nat : trace[2].input = tree[1][j]
      <4>1. 2 * i \in Nat /\ 2 * i + 1 \in Nat
        BY <3>2
      <4>2. trace[2].input = tree[1][2 * i] \/ trace[2].input = tree[1][2 * i + 1]
        BY <3>3, <3>4, <3>5
      <4> QED
        BY <4>1, <4>2
    <3>7. PICK j \in Nat : <<"cert", a, <<"off", b>>>> = <<"cert", leaf(2 * j), leaf(2 * j + 1)>>
      BY <1>16, <2>3, <3>6
    <3>8. <<"off", b>> = leaf(2 * j + 1)
      BY <3>7
    <3> QED
      BY <2>4, <3>8
  <2> QED
    BY <1>2, <2>5, <2>6
<1>20. tamper # "index"
  <2> SUFFICES ASSUME tamper = "index" PROVE FALSE
    OBVIOUS
  <2>1. PICK j, b : j = index \div 2 /\ b = index % 2 /\ j \in Nat /\ b \in {0, 1} /\ index = 2 * j + b
    BY <1>5
  <2>2. trace[1].input = leaf(index) /\ trace[2].input = <<"cert", leaf(2 * j), leaf(2 * j + 1)>>
    <3>1. 1 \in 1 .. depth + 1 /\ 2 \in 1 .. depth + 1
      BY <1>2
    <3> QED
      BY <1>8, <1>17, <2>1, <3>1
  <2>3. trace[2].bit = 1 - b
    BY <1>8, <1>13, <2>1
  <2>4. trace[2].input[2 + trace[2].bit] = trace[1].input
    <3>1. 1 \in 1 .. depth /\ 1 + 1 = 2
      BY <1>2
    <3> QED
      BY <1>10, <3>1
  <2>5. PICK i : i # index /\ leaf(i) = leaf(index)
    <3>1. CASE b = 0
      <4>1. 2 + trace[2].bit = 3 /\ 2 * j + 1 # index
        <5>1. 2 + 1 = 3 /\ 1 - 0 = 1
          OBVIOUS
        <5>2. trace[2].bit = 1
          BY <2>3, <5>1, <3>1
        <5>3. j \in Nat /\ index = 2 * j + 0
          BY <2>1, <3>1
        <5>4. 2 * j + 1 # index
          BY <5>3
        <5> QED
          BY <5>1, <5>2, <5>4
      <4>2. trace[2].input[3] = leaf(index)
        BY <2>2, <2>4, <4>1
      <4>3. trace[2].input[3] = leaf(2 * j + 1)
        BY <2>2
      <4> QED
        BY <4>1, <4>2, <4>3
    <3>2. CASE b = 1
      <4>1. 2 + trace[2].bit = 2 /\ 2 * j # index
        <5>1. 2 + 0 = 2 /\ 1 - 1 = 0
          OBVIOUS
        <5>2. trace[2].bit = 0
          BY <2>3, <5>1, <3>2
        <5>3. j \in Nat /\ index = 2 * j + 1
          BY <2>1, <3>2
        <5>4. 2 * j # index
          BY <5>3
        <5> QED
          BY <5>1, <5>2, <5>4
      <4>2. trace[2].input[2] = leaf(index)
        BY <2>2, <2>4, <4>1
      <4>3. trace[2].input[2] = leaf(2 * j)
        BY <2>2
      <4> QED
        BY <4>1, <4>2, <4>3
    <3> QED
      BY <2>1, <3>1, <3>2
  <2> QED
    BY <1>15, <2>5
<1> QED
  BY <1>1, <1>2, <1>3, <1>18, <1>19, <1>20 DEF Statement

\* The sparse tree of C5 is the tree over the leaves of its places.
LEMMA SparseIsTree ==
  ASSUME NEW used
  PROVE  Tree(C5Tree(used), "empty", SparseDepth,
              [j \in Nat |-> C5Leaf(IF j \in used THEN 1 ELSE 0)])
<1> DEFINE leaf == [j \in Nat |-> C5Leaf(IF j \in used THEN 1 ELSE 0)]
           Grows(f) == f = [k \in 0 .. SparseDepth |->
                              [j \in Nat |-> IF k = 0 THEN C5Leaf(IF j \in used THEN 1 ELSE 0)
                                 ELSE Parent("empty", f[k - 1][2 * j], f[k - 1][2 * j + 1])]]
           node == CHOOSE f : Grows(f)
<1>1. SparseDepth \in Nat
  BY SparseAssumption
<1>2. ASSUME NEW f PROVE Grows(f) <=> Tree(f, "empty", SparseDepth, leaf)
  <2> DEFINE own(k) == [j \in Nat |-> IF k = 0 THEN C5Leaf(IF j \in used THEN 1 ELSE 0)
                          ELSE Parent("empty", f[k - 1][2 * j], f[k - 1][2 * j + 1])]
             other(k) == [j \in Nat |-> IF k = 0 THEN leaf[j]
                            ELSE Parent("empty", f[k - 1][2 * j], f[k - 1][2 * j + 1])]
  <2>1. ASSUME NEW k PROVE own(k) = other(k)
    <3>1. \A j \in Nat : leaf[j] = C5Leaf(IF j \in used THEN 1 ELSE 0)
      OBVIOUS
    <3> HIDE DEF leaf
    <3> QED
      BY <3>1
  <2>2. Grows(f) <=> f = [k \in 0 .. SparseDepth |-> own(k)]
    OBVIOUS
  <2>3. Tree(f, "empty", SparseDepth, leaf) <=> f = [k \in 0 .. SparseDepth |-> other(k)]
    BY DEF Tree
  <2> HIDE DEF own, other, Grows
  <2> QED
    BY <2>1, <2>2, <2>3
<1>3. \E f : Tree(f, "empty", SparseDepth, leaf)
  BY <1>1, TreeExists
<1>4. C5Tree(used) = node
  BY DEF C5Tree, Nodes
<1> HIDE DEF Grows, leaf
<1>5. Grows(node)
  BY <1>2, <1>3
<1> HIDE DEF node
<1>6. Tree(node, "empty", SparseDepth, leaf)
  BY <1>2, <1>5
<1> QED
  BY <1>4, <1>6 DEF leaf

\* Its leaves, and its nodes from those below them.
LEMMA SparseNodes ==
  ASSUME NEW used, NEW i \in Nat
  PROVE  /\ C5Tree(used)[0][i] = C5Leaf(IF i \in used THEN 1 ELSE 0)
         /\ \A k \in 1 .. SparseDepth :
              C5Tree(used)[k][i] =
                Parent("empty", C5Tree(used)[k - 1][2 * i], C5Tree(used)[k - 1][2 * i + 1])
<1>1. SparseDepth \in Nat
  BY SparseAssumption
<1>2. PICK f, leaves : f = C5Tree(used) /\ leaves = [j \in Nat |-> C5Leaf(IF j \in used THEN 1 ELSE 0)]
  OBVIOUS
<1>3. Tree(f, "empty", SparseDepth, leaves)
  BY <1>2, SparseIsTree
<1>4. /\ f[0][i] = leaves[i]
      /\ \A k \in 1 .. SparseDepth :
           f[k][i] = Parent("empty", f[k - 1][2 * i], f[k - 1][2 * i + 1])
  BY <1>1, <1>3, TreeLevels
<1> QED
  BY <1>2, <1>4

\* The lanes of a path.
LEMMA LanesAre ==
  ASSUME NEW leaf, NEW bit, NEW sibling, NEW path, path = C5Lanes(leaf, bit, sibling)
  PROVE  /\ path[0] = leaf /\ path = [k \in 0 .. SparseDepth |-> path[k]]
         /\ \A k \in 1 .. SparseDepth :
              path[k] = IF bit[k] = 0 THEN Parent("empty", path[k - 1], sibling[k])
                                      ELSE Parent("empty", sibling[k], path[k - 1])
<1> DEFINE lane(k, f) == IF k = 0 THEN leaf
                         ELSE IF bit[k] = 0 THEN Parent("empty", f[k - 1], sibling[k])
                                            ELSE Parent("empty", sibling[k], f[k - 1])
           T == {n \in Nat : \E f : f = [k \in 0 .. n |-> lane(k, f)]}
<1>1. 0 \in T
  <2> DEFINE f == [k \in 0 .. 0 |-> leaf]
  <2>1. ASSUME NEW k \in 0 .. 0 PROVE f[k] = lane(k, f)
    <3>1. k = 0
      OBVIOUS
    <3> QED
      BY <3>1
  <2>2. f = [k \in 0 .. 0 |-> f[k]]
    OBVIOUS
  <2> HIDE DEF f, lane
  <2>3. f = [k \in 0 .. 0 |-> lane(k, f)]
    BY <2>1, <2>2
  <2> QED
    BY <2>3
<1>2. ASSUME NEW n \in T PROVE n + 1 \in T
  <2>1. PICK f : f = [k \in 0 .. n |-> lane(k, f)]
    OBVIOUS
  <2>2. n \in Nat
    OBVIOUS
  <2> DEFINE g == [k \in 0 .. n + 1 |-> IF k = n + 1 THEN lane(n + 1, f) ELSE f[k]]
  <2>3. ASSUME NEW k \in 0 .. n + 1 PROVE g[k] = lane(k, g)
    <3>1. lane(k, g) = lane(k, f)
      <4>1. k = 0 \/ (k - 1 \in 0 .. n /\ k - 1 # n + 1 /\ k - 1 \in 0 .. n + 1)
        BY <2>2
      <4>2. k = 0 \/ g[k - 1] = f[k - 1]
        BY <4>1
      <4> HIDE DEF g
      <4> QED
        BY <4>2
    <3>2. CASE k = n + 1
      BY <3>1, <3>2
    <3>3. CASE k # n + 1
      <4>1. k \in 0 .. n /\ g[k] = f[k]
        BY <2>2, <3>3
      <4> HIDE DEF g, lane
      <4> QED
        BY <2>1, <3>1, <4>1
    <3> QED
      BY <3>2, <3>3
  <2>4. g = [k \in 0 .. n + 1 |-> g[k]]
    OBVIOUS
  <2> HIDE DEF g, lane
  <2>5. g = [k \in 0 .. n + 1 |-> lane(k, g)]
    BY <2>3, <2>4
  <2> QED
    BY <2>2, <2>5
<1>3. T = Nat
  <2>1. T \in SUBSET Nat
    OBVIOUS
  <2> HIDE DEF T
  <2> QED
    BY <1>1, <1>2, <2>1, Induction
<1>4. SparseDepth \in T
  BY <1>3, SparseAssumption
<1>5. C5Lanes(leaf, bit, sibling) = CHOOSE f : f = [k \in 0 .. SparseDepth |-> lane(k, f)]
  BY DEF C5Lanes
<1>6. path = [k \in 0 .. SparseDepth |-> lane(k, path)]
  <2> HIDE DEF lane
  <2> QED
    BY <1>4, <1>5
<1>7. \A k \in 0 .. SparseDepth : path[k] = lane(k, path)
  <2> HIDE DEF lane
  <2> QED
    BY <1>6
<1>8. path = [k \in 0 .. SparseDepth |-> path[k]]
  <2> HIDE DEF lane
  <2> QED
    BY <1>6
<1>9. path[0] = leaf
  <2>1. 0 \in 0 .. SparseDepth
    BY SparseAssumption
  <2> QED
    BY <1>7, <2>1
<1>10. ASSUME NEW k \in 1 .. SparseDepth
       PROVE  path[k] = IF bit[k] = 0 THEN Parent("empty", path[k - 1], sibling[k])
                                      ELSE Parent("empty", sibling[k], path[k - 1])
  <2>1. k \in 0 .. SparseDepth /\ k # 0
    BY SparseAssumption
  <2> QED
    BY <1>7, <2>1
<1> QED
  BY <1>8, <1>9, <1>10

\* A proof of C5 is of a nullifier whose place was free, with its own roots, path,
\* index, secret and state.
LEMMA SoundC5 ==
  ASSUME ProverInv, phase = "proved", job.circuit = "C5"
  PROVE  Statement
<1>1. PICK lot, prior, tamper : lot = job.lot /\ prior = job.prior /\ tamper = job.tamper
  OBVIOUS
<1>2. /\ tamper \in {"none", "duplicate", "old root", "new root", "path", "index", "secret",
                     "state", "replay"}
      /\ lot.secret # Off(lot.secret) /\ NullifierIndex[lot.id] \in Nat
  <2>1. Tampers["C5"] = {"duplicate", "old root", "new root", "path", "index", "secret",
                         "state", "replay"}
    BY DEF Tampers
  <2>2. job \in Jobs
    BY ProvedHolds
  <2>3. /\ job.tamper \in {"none"} \cup Tampers["C5"]
        /\ job.lot.secret # Off(job.lot.secret) /\ NullifierIndex[job.lot.id] \in Nat
    BY <2>2, E1ProverAssumption
  <2> QED
    BY <1>1, <2>1, <2>3
<1>3. C5Index(lot) \notin {C5Index(q) : q \in prior}
  BY <1>1, ProvedHolds DEF HasWitness, C5Witness
<1>4. SparseDepth \in Nat /\ SparseDepth >= 1 /\ 1 \in 1 .. SparseDepth /\ SparseDepth \in 1 .. SparseDepth
  BY SparseAssumption
<1>5. PICK used, index : /\ used = {C5Index(q) : q \in prior} /\ index = C5Index(lot)
                         /\ index \in Nat
  <2>1. PICK n, m : n = NullifierIndex[lot.id] /\ m = TwoTo[SparseDepth]
    OBVIOUS
  <2>2. n \in Nat /\ m \in Nat /\ m > 0
    <3>1. TwoTo[SparseDepth] \in Nat /\ TwoTo[SparseDepth] > SparseDepth
      BY <1>4, PowerExceeds, Doubles
    <3>2. n \in Nat
      BY <1>2, <2>1
    <3>3. m \in Nat /\ m > SparseDepth
      BY <2>1, <3>1
    <3> QED
      BY <1>4, <3>2, <3>3
  <2>3. n % m \in Nat
    BY <2>2
  <2> QED
    BY <2>1, <2>3 DEF C5Index
<1>6. PICK at : at = Halve(index, 0) /\ at = index
  BY <1>5, Doubles DEF Halve
<1>7. PICK tree, bit, sibling :
        /\ tree = C5Tree(used)
        /\ bit = [k \in 1 .. SparseDepth |-> Halve(index, k - 1) % 2]
        /\ sibling = [k \in 1 .. SparseDepth |->
                        tree[k - 1][IF Halve(index, k - 1) % 2 = 0
                                      THEN Halve(index, k - 1) + 1 ELSE Halve(index, k - 1) - 1]]
  OBVIOUS
<1>8. PICK oldLeaf, old, new :
        /\ oldLeaf = C5Leaf(IF tamper \in {"duplicate", "replay"} THEN 1 ELSE 0)
        /\ old = C5Lanes(oldLeaf, bit, sibling) /\ new = C5Lanes(C5Leaf(1), bit, sibling)
  OBVIOUS
<1>9. PICK r :
        /\ r = C5Trace(lot, prior, tamper)
        /\ r.nullifier = C5Nullifier(lot, IF tamper = "secret" THEN Off(lot.secret) ELSE lot.secret)
        /\ r.old = IF tamper = "path" THEN [old EXCEPT ![1][3] = Off(old[1][3])] ELSE old
        /\ r.new = new /\ r.sibling = sibling
        /\ r.bit = IF tamper = "index" THEN [bit EXCEPT ![1] = 1 - bit[1]] ELSE bit
  <2> DEFINE record ==
               [nullifier |-> C5Nullifier(lot, IF tamper = "secret" THEN Off(lot.secret) ELSE lot.secret),
                indexOf |-> C5Nullifier(lot, lot.secret),
                old |-> IF tamper = "path" THEN [old EXCEPT ![1][3] = Off(old[1][3])] ELSE old,
                new |-> new,
                sibling |-> sibling,
                bit |-> IF tamper = "index" THEN [bit EXCEPT ![1] = 1 - bit[1]] ELSE bit,
                quotient |-> C5Quotient(lot)]
  <2>1. C5Trace(lot, prior, tamper) = record
    BY <1>5, <1>7, <1>8, Zenon DEF C5Trace
  <2> QED
    BY <2>1
<1>10. PICK publics :
         /\ publics = pis /\ publics = C5Publics(lot, prior, tamper)
         /\ C5EveryRow(r, publics)
  <2>1. /\ trace = [i \in 1 .. MinRows |-> C5Trace(lot, prior, tamper)]
        /\ pis = C5Publics(lot, prior, tamper)
    BY <1>1, ProvedHolds DEF TraceAndPublics
  <2>2. MinRows \in Nat /\ 1 \in 1 .. MinRows
    BY TraceShapeAssumption
  <2>3. Len(trace) = MinRows /\ trace[1] = r
    <3>1. trace = [i \in 1 .. MinRows |-> r]
      BY <1>9, <2>1
    <3> QED
      BY <2>2, <3>1
  <2>4. RowHolds(trace[1], 1 = 1)
    BY <2>2, <2>3, ProvedHolds DEF Holds
  <2>5. C5EveryRow(r, pis)
    BY <2>3, <2>4 DEF RowHolds
  <2> QED
    BY <2>1, <2>5
<1>11. /\ publics.state = 1 /\ r.nullifier = publics.nullifier
       /\ r.old[0] = C5Leaf(0) /\ C5PathHolds(r, r.old) /\ C5PathHolds(r, r.new)
       /\ r.old[SparseDepth] = publics.oldRoot /\ r.new[SparseDepth] = publics.newRoot
  BY <1>10 DEF C5EveryRow
<1>12. /\ publics.nullifier = C5Nullifier(lot, lot.secret)
       /\ publics.state = IF tamper = "state" THEN 0 ELSE 1
       /\ tamper = "old root" => \E root : publics.oldRoot = Off(root)
       /\ tamper = "new root" => \E root : publics.newRoot = Off(root)
  <2>1. PICK oldRoot, newRoot :
          publics = [oldRoot |-> IF tamper = "old root" THEN Off(oldRoot) ELSE oldRoot,
                     newRoot |-> IF tamper = "new root" THEN Off(newRoot) ELSE newRoot,
                     nullifier |-> C5Nullifier(lot, lot.secret),
                     state |-> IF tamper = "state" THEN 0 ELSE 1]
    <3>1. PICK a, b :
            /\ a = C5Tree(IF tamper = "replay" THEN {C5Index(lot)}
                          ELSE {C5Index(q) : q \in prior})[SparseDepth][0]
            /\ b = C5Tree({C5Index(q) : q \in prior} \cup {C5Index(lot)})[SparseDepth][0]
      OBVIOUS
    <3>2. C5Publics(lot, prior, tamper) =
            [oldRoot |-> IF tamper = "old root" THEN Off(a) ELSE a,
             newRoot |-> IF tamper = "new root" THEN Off(b) ELSE b,
             nullifier |-> C5Nullifier(lot, lot.secret),
             state |-> IF tamper = "state" THEN 0 ELSE 1]
      BY <3>1, Zenon DEF C5Publics
    <3> QED
      BY <1>10, <3>2
  <2>2. /\ publics.nullifier = C5Nullifier(lot, lot.secret)
        /\ publics.state = IF tamper = "state" THEN 0 ELSE 1
    BY <2>1
  <2>3. tamper = "old root" => publics.oldRoot = Off(oldRoot)
    BY <2>1
  <2>4. tamper = "new root" => publics.newRoot = Off(newRoot)
    BY <2>1
  <2> QED
    BY <2>2, <2>3, <2>4
\* Both paths, and the leaf beside the lot's.
<1>13. /\ old[0] = oldLeaf /\ old = [k \in 0 .. SparseDepth |-> old[k]]
       /\ \A k \in 1 .. SparseDepth :
            old[k] = IF bit[k] = 0 THEN Parent("empty", old[k - 1], sibling[k])
                                   ELSE Parent("empty", sibling[k], old[k - 1])
  <2>1. old = C5Lanes(oldLeaf, bit, sibling)
    BY <1>8
  <2>2. old[0] = oldLeaf
    BY ONLY <2>1, LanesAre
  <2>3. old = [k \in 0 .. SparseDepth |-> old[k]]
    BY ONLY <2>1, LanesAre
  <2>4. \A k \in 1 .. SparseDepth :
          old[k] = IF bit[k] = 0 THEN Parent("empty", old[k - 1], sibling[k])
                                 ELSE Parent("empty", sibling[k], old[k - 1])
    BY ONLY <2>1, LanesAre
  <2> QED
    BY ONLY <2>2, <2>3, <2>4
<1>14. new[0] = C5Leaf(1)
  <2>1. PICK leaf : leaf = C5Leaf(1)
    OBVIOUS
  <2>2. new = C5Lanes(leaf, bit, sibling)
    BY <1>8, <2>1
  <2> QED
    BY ONLY <2>1, <2>2, LanesAre
<1>15. bit[1] \in {0, 1} /\ bit[1] = index % 2
  <2>1. bit[1] = at % 2
    BY <1>4, <1>6, <1>7
  <2> QED
    BY <1>5, <1>6, <2>1
<1>16. \E s : sibling[1] = C5Leaf(s)
  <2>1. PICK i : i = (IF index % 2 = 0 THEN index + 1 ELSE index - 1) /\ i \in Nat
    BY <1>5
  <2>2. sibling[1] = tree[0][i]
    BY <1>4, <1>6, <1>7, <2>1
  <2>3. tree[0][i] = C5Leaf(IF i \in used THEN 1 ELSE 0)
    BY <1>7, <2>1, SparseNodes
  <2> QED
    BY <2>2, <2>3
<1>17. ASSUME NEW s, NEW t, C5Leaf(s) = C5Leaf(t) PROVE s = t
  BY <1>17 DEF C5Leaf
<1>18. ASSUME NEW path, C5PathHolds(r, path), NEW k \in 1 .. SparseDepth
       PROVE  path[k] = IF r.bit[k] = 0 THEN Parent("empty", path[k - 1], r.sibling[k])
                                        ELSE Parent("empty", r.sibling[k], path[k - 1])
  BY <1>18 DEF C5PathHolds
<1>19. ASSUME NEW path, C5PathHolds(r, path) PROVE \A root : path[SparseDepth] # Off(root)
  <2>1. path[SparseDepth][1] = "empty"
    <3>1. \A l, m : Parent("empty", l, m)[1] = "empty"
      BY DEF Parent
    <3>2. SparseDepth \in 1 .. SparseDepth
      BY <1>4
    <3>3. path[SparseDepth] =
            IF r.bit[SparseDepth] = 0
              THEN Parent("empty", path[SparseDepth - 1], r.sibling[SparseDepth])
              ELSE Parent("empty", r.sibling[SparseDepth], path[SparseDepth - 1])
      BY ONLY <1>18, <1>19, <3>2
    <3> QED
      BY <3>1, <3>3
  <2> QED
    BY <2>1 DEF Off
<1>20. tamper \notin {"old root", "new root"}
  <2>1. (\A root : r.old[SparseDepth] # Off(root)) /\ \A root : r.new[SparseDepth] # Off(root)
    BY <1>11, <1>19
  <2>2. CASE tamper = "old root"
    BY <1>11, <1>12, <2>1, <2>2
  <2>3. CASE tamper = "new root"
    BY <1>11, <1>12, <2>1, <2>3
  <2> QED
    BY <2>2, <2>3
<1>21. tamper # "state"
  <2> SUFFICES ASSUME tamper = "state" PROVE FALSE
    OBVIOUS
  <2>1. publics.state = 0 /\ publics.state = 1
    BY <1>11, <1>12
  <2> QED
    BY <2>1
<1>22. tamper # "secret"
  <2> SUFFICES ASSUME tamper = "secret" PROVE FALSE
    OBVIOUS
  <2>1. r.nullifier[3] = Off(lot.secret) /\ publics.nullifier[3] = lot.secret
    BY <1>9, <1>12 DEF C5Nullifier
  <2> QED
    BY <1>2, <1>11, <2>1
<1>23. r.old[0] = old[0]
  <2>1. 0 \in 0 .. SparseDepth /\ 0 # 1
    BY <1>4
  <2>2. CASE tamper = "path"
    <3>1. r.old = [old EXCEPT ![1] = [old[1] EXCEPT ![3] = Off(old[1][3])]]
      BY <1>9, <2>2
    <3> QED
      BY <1>13, <2>1, <3>1
  <2>3. CASE tamper # "path"
    BY <1>9, <2>3
  <2> QED
    BY <2>2, <2>3
<1>24. tamper \notin {"duplicate", "replay"}
  <2> SUFFICES ASSUME tamper \in {"duplicate", "replay"} PROVE FALSE
    OBVIOUS
  <2>1. C5Leaf(1) = C5Leaf(0)
    BY <1>8, <1>11, <1>13, <1>23
  <2> QED
    BY <1>17, <2>1
<1>25. tamper # "path"
  <2> SUFFICES ASSUME tamper = "path" PROVE FALSE
    OBVIOUS
  <2>1. PICK a, b : old[1] = <<"empty", a, b>> /\ (b = C5Leaf(0) \/ b = sibling[1])
    <3>1. 1 - 1 = 0
      OBVIOUS
    <3>2. old[1] = IF bit[1] = 0 THEN Parent("empty", old[0], sibling[1])
                                 ELSE Parent("empty", sibling[1], old[0])
      BY <1>4, <1>13, <3>1
    <3>3. old[0] = C5Leaf(0)
      BY <1>11, <1>23
    <3> QED
      BY <3>2, <3>3 DEF Parent
  <2>2. PICK s : b = C5Leaf(s)
    BY <1>16, <2>1
  <2>3. r.old[1] = <<"empty", a, Off(b)>>
    <3>1. r.old = [old EXCEPT ![1] = [old[1] EXCEPT ![3] = Off(old[1][3])]]
      BY <1>9
    <3>2. 1 \in 0 .. SparseDepth
      BY <1>4
    <3>3. r.old[1] = [old[1] EXCEPT ![3] = Off(old[1][3])]
      BY <1>13, <3>1, <3>2
    <3> QED
      BY <2>1, <3>3
  <2>4. Off(b) = C5Leaf(0) \/ Off(b) = sibling[1]
    <3>1. r.old[1] = IF r.bit[1] = 0 THEN Parent("empty", r.old[0], sibling[1])
                                     ELSE Parent("empty", sibling[1], r.old[0])
      <4>1. 1 - 1 = 0
        OBVIOUS
      <4> QED
        BY <1>4, <1>9, <1>11, <1>18, <4>1
    <3> QED
      BY <1>11, <2>3, <3>1 DEF Parent
  <2>5. PICK t : Off(b) = C5Leaf(t)
    BY <1>16, <2>4
  <2> QED
    BY <2>5 DEF Off, C5Leaf
<1>26. tamper # "index"
  <2> SUFFICES ASSUME tamper = "index" PROVE FALSE
    OBVIOUS
  <2>1. r.old = old /\ r.bit[1] = 1 - bit[1] /\ r.sibling = sibling
    <3>1. r.bit = [bit EXCEPT ![1] = 1 - bit[1]]
      BY <1>9
    <3>2. 1 \in DOMAIN bit
      BY <1>4, <1>7
    <3> QED
      BY <1>9, <3>1, <3>2
  \* A path under the spoilt bit: its leaf is the sibling.
  <2>2. ASSUME NEW path, path = old \/ path = new,
               path[1] = IF bit[1] = 0 THEN Parent("empty", path[0], sibling[1])
                                       ELSE Parent("empty", sibling[1], path[0]),
               C5PathHolds(r, path)
        PROVE  path[0] = sibling[1]
    <3>1. 1 - 1 = 0
      OBVIOUS
    <3>2. path[1] = IF r.bit[1] = 0 THEN Parent("empty", path[0], sibling[1])
                                    ELSE Parent("empty", sibling[1], path[0])
      BY <1>4, <1>18, <2>1, <2>2, <3>1
    <3>3. CASE bit[1] = 0
      <4>1. r.bit[1] # 0
        BY <2>1, <3>3
      <4> QED
        BY <2>2, <3>2, <3>3, <4>1 DEF Parent
    <3>4. CASE bit[1] = 1
      <4>1. r.bit[1] = 0
        BY <2>1, <3>4
      <4> QED
        BY <2>2, <3>2, <3>4, <4>1 DEF Parent
    <3> QED
      BY <1>15, <3>3, <3>4
  <2>3. /\ old[1] = IF bit[1] = 0 THEN Parent("empty", old[0], sibling[1])
                                  ELSE Parent("empty", sibling[1], old[0])
        /\ new[1] = IF bit[1] = 0 THEN Parent("empty", new[0], sibling[1])
                                  ELSE Parent("empty", sibling[1], new[0])
    <3>1. 1 - 1 = 0
      OBVIOUS
    <3>2. PICK leaf : leaf = C5Leaf(1)
      OBVIOUS
    <3>3. new = C5Lanes(leaf, bit, sibling)
      BY <1>8, <3>2
    <3>4. \A k \in 1 .. SparseDepth :
            new[k] = IF bit[k] = 0 THEN Parent("empty", new[k - 1], sibling[k])
                                   ELSE Parent("empty", sibling[k], new[k - 1])
      BY ONLY <3>3, LanesAre
    <3> QED
      BY <1>4, <1>13, <3>1, <3>4
  <2>4. old[0] = sibling[1] /\ new[0] = sibling[1]
    BY <1>9, <1>11, <2>1, <2>2, <2>3
  <2>5. C5Leaf(0) = C5Leaf(1)
    BY <1>11, <1>14, <1>23, <2>4
  <2> QED
    BY <1>17, <2>5
<1>27. tamper = "none"
  BY <1>2, <1>20, <1>21, <1>22, <1>24, <1>25, <1>26
<1> QED
  BY <1>1, <1>3, <1>27 DEF Statement

\* The rows checked and the witness, on every reachable state.
THEOREM ProverInductive == ProverSpec => []ProverInv
<1>1. ProverInit => ProverInv
  BY DEF ProverInit, ProverInv
<1> QED
  BY <1>1, ProverKeeps, PTL DEF ProverSpec

\* NoFalseProof: no lot that breaks its circuit's policy, and no tampered witness
\* or public input, has a proof (prove_and_verify of templates.rs).
THEOREM OnlyTrueProofs == ProverSpec => []NoFalseProof
<1>1. ProverInv => NoFalseProof
  <2> SUFFICES ASSUME ProverInv, phase = "proved" PROVE Statement
    BY DEF NoFalseProof
  <2>1. job.circuit \in {"C1", "C2", "C3", "C4", "C5"}
    <3>1. DOMAIN Tampers = {"C1", "C2", "C3", "C4", "C5"}
      BY DEF Tampers
    <3>2. job \in Jobs
      BY ProvedHolds
    <3> QED
      BY <3>1, <3>2, E1ProverAssumption
  <2> QED
    BY <2>1, SoundC1, SoundC2, SoundC3, SoundC4, SoundC5
<1> QED
  BY <1>1, ProverInductive, PTL

-----------------------------------------------------------------------------
(* The prover: what fails has no witness or breaks a row.                    *)

\* Whatever the circuit, there is a row to check.
LEMMA TraceStarts ==
  ASSUME job \in Jobs, HasWitness
  PROVE  Len(TraceAndPublics[1]) \in Nat /\ Len(TraceAndPublics[1]) >= 1
<1>1. job.circuit \in {"C1", "C2", "C3", "C4", "C5"}
  <2>1. DOMAIN Tampers = {"C1", "C2", "C3", "C4", "C5"}
    BY DEF Tampers
  <2> QED
    BY <2>1, E1ProverAssumption
<1>2. CASE job.circuit = "C1"
  <2>1. PICK lot, n, height : lot = job.lot /\ n = Len(lot.events) /\ height = C1Height(n)
    OBVIOUS
  <2>2. n \in MinLotEvents .. MaxLotEvents
    BY <1>2, <2>1 DEF HasWitness, C1Witness
  <2>3. lot.events \in Seq([id : Int, point : Point]) /\ Len(lot.polygon) \in 3 .. MaxVertices
    BY <1>2, <2>1, E1ProverAssumption DEF SimplePolygon
  <2>4. n \in Nat /\ n > 0 /\ MaxVertices \in Nat /\ MaxVertices > 0
    <3>1. lot.polygon \in Seq(Point)
      BY <1>2, <2>1, E1ProverAssumption
    <3>2. n \in Nat /\ Len(lot.polygon) \in Nat
      BY <2>1, <2>3, <3>1
    <3> QED
      BY <2>2, <2>3, <3>2, LotLengthAssumption, GeofenceAssumption
  <2>5. height \in Nat /\ height >= 1
    <3>1. 0 \in 0 .. n - 1 /\ 0 \in 0 .. MaxVertices - 1
      BY <2>4
    <3>2. RowOf(0, 0) \in Nat /\ height \in Nat /\ RowOf(0, 0) + 2 <= height
      BY <2>1, <2>4, <3>1, RowsOfEdge
    <3> QED
      BY <3>2
  <2>6. TraceAndPublics[1] = [row \in 1 .. height |-> C1Row(lot, row - 1)]
    BY <1>2, <2>1 DEF TraceAndPublics, C1Trace
  <2> QED
    BY <2>5, <2>6
<1>3. CASE job.circuit = "C2"
  <2>1. PICK height : height = Rows(job.depth + 2) /\ height \in Nat /\ height >= 1
    <3>1. job.depth + 2 \in Nat
      BY <1>3, E1ProverAssumption
    <3> QED
      BY <3>1, RowsFit
  <2>2. \E f : TraceAndPublics[1] = [row \in 1 .. height |-> f[row]]
    <3>1. PICK t : t = C2Trace(job.lot, job.seed, job.events, job.depth, job.tamper)
      OBVIOUS
    <3>2. DOMAIN t = 1 .. height /\ t = [row \in DOMAIN t |-> t[row]]
      BY <2>1, <3>1 DEF C2Trace
    <3>3. TraceAndPublics[1] = t
      BY <1>3, <3>1 DEF TraceAndPublics
    <3> QED
      BY <3>2, <3>3
  <2> QED
    BY <2>1, <2>2
<1>4. CASE job.circuit = "C3"
  <2>1. PICK height : height = Rows(job.events) /\ height \in Nat /\ height >= 1
    <3>1. job.events \in Nat
      BY <1>4, E1ProverAssumption
    <3> QED
      BY <3>1, RowsFit
  <2>2. TraceAndPublics[1] = [row \in 1 .. height |-> C3Row(job.lot, job.events, row - 1)]
    BY <1>4, <2>1 DEF TraceAndPublics, C3Trace
  <2> QED
    BY <2>1, <2>2
<1>5. MinRows \in Nat /\ MinRows >= 1
  BY TraceShapeAssumption
<1>6. CASE job.circuit = "C4"
  <2>1. \E x : TraceAndPublics[1] = [row \in 1 .. MinRows |-> x]
    BY <1>6 DEF TraceAndPublics, C4Trace
  <2> QED
    BY <1>5, <2>1
<1>7. CASE job.circuit = "C5"
  <2>1. PICK x : x = C5Trace(job.lot, job.prior, job.tamper)
    OBVIOUS
  <2>2. TraceAndPublics[1] = [row \in 1 .. MinRows |-> x]
    BY <1>7, <2>1 DEF TraceAndPublics
  <2> QED
    BY <1>5, <2>2
<1> QED
  BY <1>1, <1>2, <1>3, <1>4, <1>6, <1>7

\* The run checks a row of the trace, and one that has failed had no witness or
\* has a row that does not hold.
FailInv ==
  /\ ProverInv
  /\ phase = "prove" => Len(trace) \in Nat /\ next \in 1 .. Len(trace)
  /\ phase = "failed" =>
       \/ ~ HasWitness
       \/ /\ trace = TraceAndPublics[1] /\ pis = TraceAndPublics[2]
          /\ \E i \in 1 .. Len(trace) : ~ Holds(i)

\* A step of prove_and_verify keeps FailInv.
LEMMA FailKeeps == FailInv /\ [ProverNext]_proverVars => FailInv'
<1> SUFFICES ASSUME FailInv, [ProverNext]_proverVars PROVE FailInv'
  OBVIOUS
<1>1. ProverInv'
  BY ProverKeeps DEF FailInv
<1>2. job \in Jobs /\ job' = job
  BY DEF FailInv, ProverInv, ProverNext, BuildWitness, CheckRow, proverVars
<1>3. HasWitness' = HasWitness /\ TraceAndPublics' = TraceAndPublics
  BY <1>2 DEF HasWitness, TraceAndPublics, SpoiltC1
<1>4. ASSUME trace' = trace, pis' = pis, NEW i PROVE Holds(i)' = Holds(i)
  BY <1>2, <1>4 DEF Holds, RowHolds, TransitionHolds, LastHolds
<1>5. CASE BuildWitness
  <2>1. phase = "witness" /\ next' = 1
    BY <1>5 DEF BuildWitness, FailInv, ProverInv
  <2>2. CASE HasWitness
    <3>1. trace' = TraceAndPublics[1] /\ phase' = "prove"
      BY <1>5, <2>2 DEF BuildWitness
    <3>2. Len(trace') \in Nat /\ next' \in 1 .. Len(trace')
      BY <1>2, <2>1, <2>2, <3>1, TraceStarts
    <3> QED
      BY <1>1, <3>1, <3>2 DEF FailInv
  <2>3. CASE ~ HasWitness
    BY <1>1, <1>3, <1>5, <2>3 DEF BuildWitness, FailInv
  <2> QED
    BY <2>2, <2>3
<1>6. CASE CheckRow
  <2>1. /\ phase = "prove" /\ trace' = trace /\ pis' = pis /\ next' = next + 1
        /\ Len(trace) \in Nat /\ next \in 1 .. Len(trace)
        /\ trace = TraceAndPublics[1] /\ pis = TraceAndPublics[2]
    BY <1>6 DEF CheckRow, FailInv, ProverInv
  <2>2. CASE ~ Holds(next)
    <3>1. phase' = "failed"
      BY <1>6, <2>2 DEF CheckRow
    <3>2. \E i \in 1 .. Len(trace') : ~ Holds(i)'
      BY <1>4, <2>1, <2>2
    <3> QED
      BY <1>1, <1>3, <2>1, <3>1, <3>2 DEF FailInv
  <2>3. CASE Holds(next)
    <3>1. phase' = IF next = Len(trace) THEN "proved" ELSE "prove"
      BY <1>6, <2>3 DEF CheckRow
    <3>2. phase' = "prove" => Len(trace') \in Nat /\ next' \in 1 .. Len(trace')
      BY <2>1, <3>1
    <3> QED
      BY <1>1, <3>1, <3>2 DEF FailInv
  <2> QED
    BY <2>2, <2>3
<1>7. CASE UNCHANGED proverVars
  BY <1>1, <1>3, <1>4, <1>7 DEF proverVars, FailInv
<1> QED
  BY <1>5, <1>6, <1>7 DEF ProverNext

-----------------------------------------------------------------------------
(* The prover: every true statement of C3 and C4 is proved.                  *)

\* Readings in range and growing timestamps make a witness of C3, and every row
\* of its trace holds.
LEMMA CompleteC3 ==
  ASSUME job \in Jobs, job.circuit = "C3", Statement
  PROVE  /\ HasWitness
         /\ trace = TraceAndPublics[1] /\ pis = TraceAndPublics[2] =>
              \A i \in 1 .. Len(trace) : Holds(i)
<1>1. PICK lot, events : lot = job.lot /\ events = job.events
  OBVIOUS
<1>2. events \in Nat /\ lot.readings \in Seq(Int) /\ lot.timestamps \in Seq(Int)
  BY <1>1, E1ProverAssumption
<1>3. /\ events > 0 /\ Len(lot.readings) >= events /\ Len(lot.timestamps) >= events
      /\ \A i \in 1 .. events :
           /\ lot.readings[i] \in 0 .. Threshold
           /\ i > 1 => lot.timestamps[i] - lot.timestamps[i - 1] \in 1 .. TwoTo[RangeBits]
  BY <1>1 DEF Statement
<1>4. /\ C3MaxRangeValue \in Int /\ C3MaxRangeValue + 1 = TwoTo[RangeBits]
      /\ TwoTo[RangeBits] \in Nat /\ Threshold \in Nat /\ Threshold <= C3MaxRangeValue
  BY Doubles, RangeAssumption DEF C3MaxRangeValue
<1>5. \A i \in 1 .. events : lot.readings[i] \in Int /\ lot.timestamps[i] \in Int
  <2>1. \A i \in 1 .. events : i \in 1 .. Len(lot.readings) /\ i \in 1 .. Len(lot.timestamps)
    BY <1>2, <1>3
  <2> QED
    BY <1>2, <2>1
\* Between two events, the time less one is in range.
<1>6. ASSUME NEW i \in 1 .. events, i < events
      PROVE  /\ i + 1 \in 1 .. events
             /\ lot.timestamps[i + 1] - lot.timestamps[i] - 1 \in 0 .. C3MaxRangeValue
  <2>1. PICK h : h = i + 1 /\ h \in 1 .. events /\ h > 1 /\ h - 1 = i
    BY <1>2, <1>6
  <2>2. lot.timestamps[h] - lot.timestamps[i] \in 1 .. TwoTo[RangeBits]
    BY <1>3, <2>1
  <2>3. lot.timestamps[h] \in Int /\ lot.timestamps[i] \in Int
    BY <1>5, <2>1
  <2>4. lot.timestamps[h] - lot.timestamps[i] - 1 \in 0 .. C3MaxRangeValue
    BY <1>4, <2>2, <2>3
  <2> QED
    BY <2>1, <2>4
<1>7. HasWitness
  <2>1. ASSUME NEW i \in 1 .. events
        PROVE  /\ lot.readings[i] <= Threshold /\ lot.readings[i] <= C3MaxRangeValue
               /\ Threshold - lot.readings[i] <= C3MaxRangeValue
    <3>1. lot.readings[i] \in 0 .. Threshold
      BY <1>3
    <3> QED
      BY <1>4, <3>1
  <2>2. ASSUME NEW i \in 1 .. events, i > 1
        PROVE  lot.timestamps[i] > lot.timestamps[i - 1]
    <3>1. i - 1 \in 1 .. events
      BY <1>2, <2>2
    <3>2. lot.timestamps[i] - lot.timestamps[i - 1] \in 1 .. TwoTo[RangeBits]
      BY <1>3, <2>2
    <3>3. lot.timestamps[i] \in Int /\ lot.timestamps[i - 1] \in Int
      BY <1>5, <3>1
    <3> QED
      BY <1>4, <3>2, <3>3
  <2>3. C3Witness(lot, events)
    BY <1>3, <1>6, <2>1, <2>2 DEF C3Witness
  <2> QED
    BY <1>1, <2>3 DEF HasWitness
<1>8. SUFFICES ASSUME trace = TraceAndPublics[1], pis = TraceAndPublics[2],
                      NEW i \in 1 .. Len(trace)
               PROVE  Holds(i)
  BY <1>7
<1>9. PICK height : height = Rows(events) /\ height \in Nat /\ height >= events /\ height >= 1
  BY <1>2, RowsFit
<1>10. /\ trace = [row \in 1 .. height |-> C3Row(lot, events, row - 1)]
       /\ pis.threshold = Threshold /\ pis.events = events
  <2>1. trace = C3Trace(lot, events) /\ pis = C3Publics(events)
    BY <1>1, <1>8 DEF TraceAndPublics
  <2> QED
    BY <1>9, <2>1 DEF C3Trace, C3Publics
<1>11. Len(trace) = height /\ \A k \in 1 .. height : trace[k] = C3Row(lot, events, k - 1)
  BY <1>9, <1>10
<1> DEFINE src(k) == IF k <= events THEN k ELSE events
\* A row of the trace, by its number.
<1>12. ASSUME NEW k \in 1 .. height
       PROVE  /\ src(k) \in 1 .. events
              /\ trace[k].reading = lot.readings[src(k)]
              /\ trace[k].timestamp = lot.timestamps[src(k)]
              /\ trace[k].diff = Threshold - lot.readings[src(k)]
              /\ trace[k].delta = IF k < events THEN lot.timestamps[k + 1] - lot.timestamps[k] - 1 ELSE 0
              /\ trace[k].real = (k <= events) /\ trace[k].enabled = (k < events)
              /\ trace[k].count = src(k)
  <2>1. PICK row : row = k - 1 /\ row \in Nat /\ row + 1 = k /\ row + 2 = k + 1
                   /\ (row < events <=> k <= events)
    BY <1>2, <1>9
  <2>2. trace[k] = C3Row(lot, events, row)
    BY <1>11, <2>1
  <2>3. src(k) = (IF row < events THEN row + 1 ELSE events)
    BY <2>1
  <2>4. src(k) \in 1 .. events
    BY <1>2, <1>3, <1>9
  <2>5. PICK s : s = src(k)
    OBVIOUS
  <2>6. /\ trace[k].reading = lot.readings[s] /\ trace[k].timestamp = lot.timestamps[s]
        /\ trace[k].diff = Threshold - lot.readings[s] /\ trace[k].count = s
        /\ trace[k].real = (row < events) /\ trace[k].enabled = (row + 1 < events)
        /\ trace[k].delta = IF row + 1 < events
                              THEN lot.timestamps[row + 2] - lot.timestamps[row + 1] - 1 ELSE 0
    <3>1. PICK r, x : /\ r = C3Row(lot, events, row)
                      /\ x = (IF row < events THEN row + 1 ELSE events)
      OBVIOUS
    <3>2. r = [reading |-> lot.readings[x], timestamp |-> lot.timestamps[x],
               diff |-> Threshold - lot.readings[x],
               delta |-> IF row + 1 < events THEN lot.timestamps[row + 2] - lot.timestamps[row + 1] - 1
                                             ELSE 0,
               real |-> row < events, enabled |-> row + 1 < events, count |-> x]
      BY <3>1, Zenon DEF C3Row
    <3>3. trace[k] = r /\ x = s
      BY <2>2, <2>3, <2>5, <3>1
    <3> HIDE DEF src
    <3> QED
      BY <3>2, <3>3
  <2>7. trace[k].real = (k <= events)
    BY <2>1, <2>6
  <2> HIDE DEF src
  <2> QED
    BY <2>1, <2>4, <2>5, <2>6, <2>7
<1> HIDE DEF src
<1>13. C3EveryRow(trace[i], pis)
  <2>1. i \in 1 .. height
    BY <1>11
  <2>2. PICK s : s = src(i) /\ s \in 1 .. events /\ lot.readings[s] \in 0 .. Threshold
    BY <1>3, <1>12, <2>1
  <2>3. trace[i].reading = lot.readings[s] /\ trace[i].diff = Threshold - lot.readings[s]
    BY <1>12, <2>1, <2>2
  <2>4. trace[i].delta \in 0 .. C3MaxRangeValue
    <3>1. CASE i < events
      <4>1. i \in 1 .. events
        BY <1>2, <2>1, <3>1
      <4> QED
        BY <1>6, <1>12, <2>1, <3>1, <4>1
    <3>2. CASE ~ i < events
      BY <1>4, <1>12, <2>1, <3>2
    <3> QED
      BY <3>1, <3>2
  <2>5. /\ trace[i].reading + trace[i].diff = Threshold
        /\ trace[i].reading \in 0 .. C3MaxRangeValue /\ trace[i].diff \in 0 .. C3MaxRangeValue
    BY <1>4, <2>2, <2>3
  <2> QED
    BY <1>10, <2>4, <2>5 DEF C3EveryRow
<1>14. i = 1 => C3FirstRow(trace[i], pis)
  <2>1. 1 \in 1 .. height /\ 1 <= events
    BY <1>2, <1>3, <1>9
  <2>2. src(1) = 1
    BY <2>1 DEF src
  <2> QED
    BY <1>12, <2>1, <2>2 DEF C3FirstRow
<1>15. ASSUME i < height PROVE C3Transition(trace[i], trace[i + 1])
  <2>1. PICK n : n = i + 1 /\ n \in 1 .. height /\ i \in 1 .. height
    BY <1>9, <1>11, <1>15
  <2>2. /\ trace[i].real = (i <= events) /\ trace[i].enabled = (i < events)
        /\ trace[i].count = src(i) /\ trace[i].timestamp = lot.timestamps[src(i)]
        /\ trace[i].delta = IF i < events THEN lot.timestamps[i + 1] - lot.timestamps[i] - 1 ELSE 0
        /\ trace[n].real = (n <= events) /\ trace[n].count = src(n)
        /\ trace[n].timestamp = lot.timestamps[src(n)]
    BY <1>12, <2>1
  <2>3. CASE i < events
    <3>1. i <= events /\ n <= events /\ src(i) = i /\ src(n) = n /\ i \in 1 .. events /\ n \in 1 .. events
      BY <1>2, <2>1, <2>3 DEF src
    <3>2. lot.timestamps[i] \in Int /\ lot.timestamps[n] \in Int
      BY <1>5, <3>1
    <3>3. trace[n].timestamp = trace[i].timestamp + trace[i].delta + 1
      BY <2>1, <2>2, <2>3, <3>1, <3>2
    <3>4. trace[n].count = trace[i].count + Bit(trace[n].real)
      BY <2>1, <2>2, <3>1 DEF Bit
    <3> QED
      BY <2>1, <2>2, <2>3, <3>1, <3>3, <3>4 DEF C3Transition
  <2>4. CASE ~ i < events
    <3>1. ~ n <= events /\ src(i) = events /\ src(n) = events
      BY <1>2, <2>1, <2>4 DEF src
    <3>2. trace[n].real = FALSE /\ trace[i].enabled = FALSE
      <4>1. (n <= events) = FALSE /\ (i < events) = FALSE
        BY <2>4, <3>1
      <4> QED
        BY <2>2, <4>1, Zenon
    <3>3. trace[n].count = events /\ trace[i].count = events
      BY <2>2, <3>1, Zenon
    <3>4. trace[n].count = trace[i].count + Bit(trace[n].real)
      <4>1. Bit(trace[n].real) = 0
        BY <3>2, Zenon DEF Bit
      <4>2. events = events + 0
        BY <1>2
      <4> QED
        BY <3>3, <4>1, <4>2
    <3> QED
      BY <2>1, <3>2, <3>4 DEF C3Transition
  <2> QED
    BY <2>3, <2>4
<1>16. ASSUME ~ i < height PROVE C3LastRow(trace[i], pis)
  <2>1. i = height /\ i \in 1 .. height /\ ~ i < events
    BY <1>2, <1>9, <1>11, <1>16
  <2>2. src(i) = events
    BY <1>2, <1>9, <2>1 DEF src
  <2>3. ~ trace[i].enabled /\ trace[i].count = events
    BY <1>12, <2>1, <2>2
  <2> QED
    BY <1>10, <2>3 DEF C3LastRow
<1>17. RowHolds(trace[i], i = 1)
  BY <1>13, <1>14 DEF RowHolds
<1>18. IF i < height THEN TransitionHolds(trace[i], trace[i + 1]) ELSE LastHolds(trace[i])
  BY <1>15, <1>16 DEF TransitionHolds, LastHolds
<1> QED
  BY <1>11, <1>17, <1>18 DEF Holds

\* An untampered job of C4 has a trace whose rows hold.
LEMMA CompleteC4 ==
  ASSUME job \in Jobs, job.circuit = "C4", Statement
  PROVE  /\ HasWitness
         /\ trace = TraceAndPublics[1] /\ pis = TraceAndPublics[2] =>
              \A i \in 1 .. Len(trace) : Holds(i)
<1>1. HasWitness
  BY DEF HasWitness
<1>2. SUFFICES ASSUME trace = TraceAndPublics[1], pis = TraceAndPublics[2],
                      NEW i \in 1 .. Len(trace)
               PROVE  Holds(i)
  BY <1>1
<1>3. PICK lot : lot = job.lot
  OBVIOUS
<1>4. job.tamper = "none"
  BY DEF Statement
<1>5. PICK input : input = C4Input(lot.actor, lot.secret, lot.role)
  OBVIOUS
<1>6. /\ trace = [row \in 1 .. MinRows |-> [input |-> input]]
      /\ pis.actor = lot.actor /\ pis.role = lot.role /\ pis.commitment = input
  BY <1>2, <1>3, <1>4, <1>5 DEF TraceAndPublics, C4Trace, C4Publics
<1>7. MinRows \in Nat
  BY TraceShapeAssumption
<1>8. trace[i].input = input
  BY <1>6, <1>7
<1>9. input[2] = lot.actor /\ input[4] = lot.role
  BY <1>5 DEF C4Input
<1>10. RowHolds(trace[i], i = 1)
  BY <1>6, <1>8, <1>9 DEF RowHolds, C4FirstRow
<1> QED
  BY <1>10 DEF Holds, TransitionHolds, LastHolds

-----------------------------------------------------------------------------
(* The prover: every true statement of C2 is proved.                         *)

\* The node above a place has half its number.
LEMMA Halving ==
  ASSUME NEW n \in Nat, NEW k \in Nat
  PROVE  /\ Halve(n, k) \in Nat /\ Halve(n, 0) = n
         /\ Halve(n, k) % 2 \in {0, 1}
         /\ Halve(n, k + 1) = Halve(n, k) \div 2
         /\ Halve(n, k) = 2 * Halve(n, k + 1) + (Halve(n, k) % 2)
<1>1. PICK m : m = TwoTo[k] /\ m \in Nat /\ m > 0
  BY PowerExceeds, Doubles
<1>2. TwoTo[k + 1] = 2 * m
  BY <1>1, Doubles
<1>3. PICK q, s : q = n \div m /\ s = n % m /\ q \in Nat /\ s \in 0 .. m - 1 /\ n = m * q + s
  <2>1. n \div m \in Nat /\ n % m \in 0 .. m - 1 /\ n = m * (n \div m) + (n % m)
    <3>1. m \in Nat /\ m > 0 /\ n \in Nat
      BY <1>1
    <3> QED
      BY ONLY <3>1
  <2> QED
    BY <2>1
<1>4. PICK j, b : j = q \div 2 /\ b = q % 2 /\ j \in Nat /\ b \in {0, 1} /\ q = 2 * j + b
  BY <1>3
<1>5. n \div (2 * m) = j
  <2>1. b * m + s \in 0 .. 2 * m - 1
    <3>0. m \in Nat /\ m > 0 /\ s \in 0 .. m - 1
      BY <1>1, <1>3
    <3>1. CASE b = 0
      <4>1. b * m = 0
        BY <1>1, <3>1
      <4> QED
        BY ONLY <3>0, <4>1
    <3>2. CASE b = 1
      <4>1. b * m = m
        BY <1>1, <3>2
      <4> QED
        BY ONLY <3>0, <4>1
    <3> QED
      BY <1>4, <3>1, <3>2
  <2>2. n = j * (2 * m) + (b * m + s)
    <3>1. m * (2 * j + b) = j * (2 * m) + b * m
      <4>1. m \in Nat /\ j \in Nat /\ b \in Nat
        BY <1>1, <1>4
      <4>2. m * (2 * j + b) = m * (2 * j) + m * b
        BY ONLY <4>1
      <4>3. m * (2 * j) = j * (2 * m) /\ m * b = b * m
        BY ONLY <4>1
      <4> QED
        BY ONLY <4>2, <4>3
    <3>2. m * q = j * (2 * m) + b * m
      BY <1>4, <3>1
    <3>3. j * (2 * m) \in Nat /\ b * m \in Nat
      BY <1>1, <1>4
    <3> QED
      BY <1>3, <3>2, <3>3
  <2>3. PICK d, r : d = 2 * m /\ r = b * m + s /\ d \in Nat /\ d > 0 /\ r \in 0 .. d - 1
    BY <1>1, <2>1
  <2>4. (j * d + r) \div d = j
    BY <1>4, <2>3, DivOfSum
  <2> QED
    BY <2>2, <2>3, <2>4
<1>6. Halve(n, k) = q /\ Halve(n, k + 1) = j
  BY <1>1, <1>2, <1>3, <1>5 DEF Halve
<1>7. Halve(n, 0) = n
  BY Doubles DEF Halve
<1> QED
  BY <1>3, <1>4, <1>6, <1>7

\* An event of a tree that holds them all has a witness of C2, and every row of its
\* trace holds.
LEMMA CompleteC2 ==
  ASSUME job \in Jobs, job.circuit = "C2", Statement
  PROVE  /\ HasWitness
         /\ trace = TraceAndPublics[1] /\ pis = TraceAndPublics[2] =>
              \A i \in 1 .. Len(trace) : Holds(i)
<1>1. PICK lot, events, depth, seed :
        lot = job.lot /\ events = job.events /\ depth = job.depth /\ seed = job.seed
  OBVIOUS
<1>2. events \in Nat /\ seed \in Nat /\ depth \in Nat /\ depth >= 1
  BY <1>1, E1ProverAssumption
<1>3. job.tamper = "none" /\ events \in 1 .. TwoTo[depth] /\ Len(lot.facts) >= events
  BY <1>1 DEF Statement
<1>4. HasWitness
  BY <1>1, <1>3 DEF HasWitness, C2Witness
<1>5. SUFFICES ASSUME trace = TraceAndPublics[1], pis = TraceAndPublics[2],
                      NEW i \in 1 .. Len(trace)
               PROVE  Holds(i)
  BY <1>4
<1>6. PICK index, path, tree :
        /\ index = seed % events /\ path = C2Path(lot, events, depth, index)
        /\ tree = CertTree(lot, events, depth)
  OBVIOUS
<1>7. index \in Nat
  <2>1. events > 0
    BY <1>2, <1>3, Doubles
  <2>2. seed % events \in Nat
    BY ONLY <1>2, <2>1, ModNat
  <2> QED
    BY ONLY <1>6, <2>2
<1>8. PICK height : height = Rows(depth + 2) /\ height \in Nat /\ height >= depth + 2
  BY <1>2, RowsFit, SMTT(40)
<1>9. \A k \in 1 .. depth + 1 : path[k] = tree[k - 1][Halve(index, k - 1)]
  BY <1>2, <1>6 DEF C2Path, CertTree
<1>10. trace = C2Trace(lot, seed, events, depth, "none")
       /\ pis = C2Publics(lot, seed, events, depth, "none")
  BY <1>1, <1>3, <1>5 DEF TraceAndPublics
<1>11. pis.root = path[depth + 1] /\ pis.depth = depth
  BY <1>6, <1>10 DEF C2Publics
\* A row of the trace, by its number.
<1> DEFINE RowAt(row) ==
             [input |-> IF row <= depth + 1 THEN path[row] ELSE Zero,
              bit |-> IF row \in 2 .. depth + 1 THEN Halve(index, row - 2) % 2 ELSE 0,
              real |-> row <= depth + 1,
              level |-> IF row <= depth + 1 THEN row - 1 ELSE depth]
<1>12. Len(trace) = height /\ \A k \in 1 .. height : trace[k] = RowAt(k)
  <2>1. trace = [row \in 1 .. height |-> RowAt(row)]
    BY <1>6, <1>8, <1>10 DEF C2Trace
  <2> HIDE DEF RowAt
  <2> QED
    BY <1>8, <2>1
<1>13. ASSUME NEW k \in 1 .. height, k <= depth + 1
       PROVE  /\ trace[k].input = path[k] /\ trace[k].real = TRUE /\ trace[k].level = k - 1
              /\ trace[k].bit = IF k \in 2 .. depth + 1 THEN Halve(index, k - 2) % 2 ELSE 0
  <2>1. (k <= depth + 1) = TRUE
    BY <1>13
  <2>2. /\ trace[k].input = IF k <= depth + 1 THEN path[k] ELSE Zero
        /\ trace[k].bit = IF k \in 2 .. depth + 1 THEN Halve(index, k - 2) % 2 ELSE 0
        /\ trace[k].real = (k <= depth + 1)
        /\ trace[k].level = IF k <= depth + 1 THEN k - 1 ELSE depth
    <3>1. PICK r : r = trace[k] /\ r = RowAt(k)
      BY <1>12
    <3> QED
      BY ONLY <3>1
  <2> QED
    BY <2>1, <2>2, Zenon
<1>14. ASSUME NEW k \in 1 .. height, ~ k <= depth + 1
       PROVE  trace[k].real = FALSE /\ trace[k].level = depth
  <2>1. (k <= depth + 1) = FALSE
    BY <1>14
  <2>2. /\ trace[k].real = (k <= depth + 1)
        /\ trace[k].level = IF k <= depth + 1 THEN k - 1 ELSE depth
    <3>1. PICK r : r = trace[k] /\ r = RowAt(k)
      BY <1>12
    <3> QED
      BY ONLY <3>1
  <2> QED
    BY <2>1, <2>2, Zenon
<1> HIDE DEF RowAt
\* The nodes of the path.
<1>15. ASSUME NEW j \in Nat
       PROVE  /\ tree[0][j] = C2Leaf(lot, j, events)
              /\ \A k \in 1 .. depth : tree[k][j] = Parent("cert", tree[k - 1][2 * j], tree[k - 1][2 * j + 1])
  <2>1. PICK f, leaves : f = tree /\ leaves = [n \in Nat |-> C2Leaf(lot, n, events)]
    OBVIOUS
  <2>2. Tree(f, "cert", depth, leaves)
    BY <1>2, <1>6, <2>1, CertIsTree
  <2>3. /\ f[0][j] = leaves[j]
        /\ \A k \in 1 .. depth : f[k][j] = Parent("cert", f[k - 1][2 * j], f[k - 1][2 * j + 1])
    BY ONLY <1>2, <2>2, j \in Nat, TreeLevels
  <2> QED
    BY <2>1, <2>3
<1>16. C2FirstRow(trace[1], pis)
  <2>1. 1 \in 1 .. height /\ 1 <= depth + 1 /\ 1 \in 1 .. depth + 1 /\ 1 - 1 = 0 /\ ~ 1 \in 2 .. depth + 1
    BY <1>2, <1>8
  <2>2. trace[1].bit = 0 /\ trace[1].real = TRUE /\ trace[1].level = 0 /\ trace[1].input = path[1]
    BY <1>13, <2>1
  <2>3. path[1] = C2Leaf(lot, index, events)
    <3>1. Halve(index, 0) = index
      BY <1>7, Halving
    <3>2. path[1] = tree[0][index]
      BY <1>9, <2>1, <3>1
    <3> QED
      BY <1>7, <1>15, <3>2
  <2>4. path[1][1] \in {"event", "filler"}
    BY <2>3 DEF C2Leaf
  <2> QED
    BY <2>2, <2>4 DEF C2FirstRow
<1>17. ASSUME i < height PROVE C2Transition(trace[i], trace[i + 1], pis)
  <2>1. PICK n : n = i + 1 /\ n \in 1 .. height /\ i \in 1 .. height
    BY <1>8, <1>12, <1>17
  <2>2. CASE n <= depth + 1
    <3>1. i <= depth + 1 /\ n \in 2 .. depth + 1 /\ i \in 1 .. depth /\ n - 2 = i - 1 /\ n - 1 = i
          /\ i \in 1 .. depth + 1 /\ n \in 1 .. depth + 1 /\ i - 1 \in Nat /\ (i - 1) + 1 = i
      BY <1>2, <2>1, <2>2
    <3>2. PICK h, j, b : h = Halve(index, i - 1) /\ j = Halve(index, i) /\ b = h % 2
                         /\ h \in Nat /\ j \in Nat /\ b \in {0, 1} /\ h = 2 * j + b
      <4>1. /\ Halve(index, i - 1) \in Nat /\ Halve(index, (i - 1) + 1) \in Nat
            /\ Halve(index, i - 1) % 2 \in {0, 1}
            /\ Halve(index, i - 1) = 2 * Halve(index, (i - 1) + 1) + (Halve(index, i - 1) % 2)
        <5>1. (i - 1) + 1 \in Nat
          BY <3>1
        <5> QED
          BY <1>7, <3>1, <5>1, Halving
      <4> QED
        BY <3>1, <4>1
    <3>3. trace[i].input = tree[i - 1][h] /\ trace[n].input = tree[i][j] /\ trace[n].bit = b
      <4>1. trace[i].input = path[i] /\ trace[n].input = path[n] /\ trace[n].bit = Halve(index, n - 2) % 2
        BY <1>13, <2>1, <2>2, <3>1
      <4>2. path[i] = tree[i - 1][Halve(index, i - 1)] /\ path[n] = tree[n - 1][Halve(index, n - 1)]
        BY <1>9, <3>1
      <4> QED
        BY <3>1, <3>2, <4>1, <4>2
    <3>4. tree[i][j] = <<"cert", tree[i - 1][2 * j], tree[i - 1][2 * j + 1]>>
      BY <1>15, <3>1, <3>2 DEF Parent
    <3>5. trace[n].input[1] = "cert" /\ trace[n].input[2 + trace[n].bit] = trace[i].input
      <4>1. CASE b = 0
        <5>1. h = 2 * j /\ 2 + b = 2
          BY <3>2, <4>1
        <5> QED
          BY <3>3, <3>4, <5>1
      <4>2. CASE b = 1
        <5>1. h = 2 * j + 1 /\ 2 + b = 3
          BY <3>2, <4>2
        <5> QED
          BY <3>3, <3>4, <5>1
      <4> QED
        BY <3>2, <4>1, <4>2
    <3>6. /\ trace[i].real = TRUE /\ trace[n].real = TRUE /\ trace[i].level = i - 1 /\ trace[n].level = n - 1
      BY <1>13, <2>1, <2>2, <3>1
    <3>7. trace[n].level = trace[i].level + Bit(trace[n].real)
      <4>1. Bit(trace[n].real) = 1
        BY <3>6, Zenon DEF Bit
      <4>2. n - 1 = (i - 1) + 1
        BY <2>1
      <4> QED
        BY <3>6, <4>1, <4>2
    <3> QED
      BY <2>1, <3>2, <3>3, <3>5, <3>6, <3>7 DEF C2Transition
  <2>3. CASE ~ n <= depth + 1
    <3>1. trace[n].real = FALSE /\ trace[n].level = depth
      BY <1>14, <2>1, <2>3
    <3>2. trace[i].level = depth /\ (trace[i].real => trace[i].input = pis.root)
      <4>1. CASE i <= depth + 1
        <5>1. i = depth + 1 /\ i - 1 = depth
          BY <1>2, <2>1, <2>3, <4>1
        <5> QED
          BY <1>11, <1>13, <2>1, <4>1, <5>1
      <4>2. CASE ~ i <= depth + 1
        BY <1>14, <2>1, <4>2
      <4> QED
        BY <4>1, <4>2
    <3>3. trace[n].level = trace[i].level + Bit(trace[n].real)
      <4>1. Bit(trace[n].real) = 0
        BY <3>1, Zenon DEF Bit
      <4>2. depth = depth + 0
        BY <1>2
      <4> QED
        BY <3>1, <3>2, <4>1, <4>2
    <3> QED
      BY <1>11, <2>1, <3>1, <3>2, <3>3 DEF C2Transition
  <2> QED
    BY <2>2, <2>3
<1>18. ASSUME ~ i < height PROVE C2LastRow(trace[i])
  <2>1. i \in 1 .. height /\ ~ i <= depth + 1
    BY <1>2, <1>8, <1>12, <1>18
  <2> QED
    BY <1>14, <2>1 DEF C2LastRow
<1>19. RowHolds(trace[i], i = 1)
  BY <1>16 DEF RowHolds
<1>20. IF i < height THEN TransitionHolds(trace[i], trace[i + 1]) ELSE LastHolds(trace[i])
  BY <1>17, <1>18 DEF TransitionHolds, LastHolds
<1> QED
  BY <1>12, <1>19, <1>20 DEF Holds

-----------------------------------------------------------------------------
(* The prover: every true statement of C5 is proved.                         *)

\* The binary digits of a number, up to a height, are what the number lacks to a
\* multiple of that power of two.
LEMMA DigitsAre ==
  ASSUME NEW index \in Nat, NEW r,
         \A k \in 1 .. SparseDepth : r.bit[k] = Halve(index, k - 1) % 2
  PROVE  C5BitsValue(r) = index - Halve(index, SparseDepth) * TwoTo[SparseDepth]
<1> DEFINE Grows(f) == f = [k \in 0 .. SparseDepth |->
                              IF k = 0 THEN 0 ELSE f[k - 1] + r.bit[k] * TwoTo[k - 1]]
           low(k) == index - Halve(index, k) * TwoTo[k]
           sum == CHOOSE f : Grows(f)
<1>1. SparseDepth \in Nat
  BY SparseAssumption
<1>2. low(0) = 0
  BY Doubles, Halving
<1>3. ASSUME NEW k \in 1 .. SparseDepth
      PROVE  low(k) = low(k - 1) + r.bit[k] * TwoTo[k - 1]
  <2>1. PICK j : j = k - 1 /\ j \in Nat /\ j + 1 = k
    BY <1>1
  <2>2. PICK h, g, b, t :
          /\ h = Halve(index, j) /\ g = Halve(index, k) /\ b = r.bit[k] /\ t = TwoTo[j]
          /\ h \in Nat /\ g \in Nat /\ b \in {0, 1} /\ t \in Nat /\ h = 2 * g + b
          /\ TwoTo[k] = 2 * t
    <3>1. /\ Halve(index, j) \in Nat /\ Halve(index, j + 1) \in Nat /\ Halve(index, j) % 2 \in {0, 1}
          /\ Halve(index, j) = 2 * Halve(index, j + 1) + (Halve(index, j) % 2)
      <4>1. j + 1 \in Nat
        BY <2>1
      <4> QED
        BY <2>1, <4>1, Halving
    <3>2. r.bit[k] = Halve(index, j) % 2
      BY <2>1
    <3>3. TwoTo[j] \in Nat /\ TwoTo[j + 1] = 2 * TwoTo[j]
      BY <2>1, Doubles
    <3> QED
      BY <2>1, <3>1, <3>2, <3>3
  <2>3. index - g * (2 * t) = (index - h * t) + b * t
    <3>1. g \in Nat /\ b \in Nat /\ t \in Nat /\ h = 2 * g + b
      BY <2>2
    <3>2. h * t = (2 * g) * t + b * t /\ (2 * g) * t = g * (2 * t)
      BY ONLY <3>1
    <3>3. h * t \in Nat /\ b * t \in Nat /\ g * (2 * t) \in Nat
      BY ONLY <3>1
    <3> QED
      BY <3>2, <3>3
  <2>4. low(k) = index - g * (2 * t) /\ low(k - 1) = index - h * t
    BY <2>1, <2>2
  <2> HIDE DEF low
  <2> QED
    BY <2>1, <2>2, <2>3, <2>4
<1> HIDE DEF low
<1>4. Grows([k \in 0 .. SparseDepth |-> low(k)])
  <2> DEFINE f == [k \in 0 .. SparseDepth |-> low(k)]
  <2>1. ASSUME NEW k \in 0 .. SparseDepth
        PROVE  low(k) = IF k = 0 THEN 0 ELSE f[k - 1] + r.bit[k] * TwoTo[k - 1]
    <3>1. CASE k = 0
      BY <1>2, <3>1
    <3>2. CASE k # 0
      <4>1. k \in 1 .. SparseDepth /\ k - 1 \in 0 .. SparseDepth
        BY <1>1, <3>2
      <4>2. f[k - 1] = low(k - 1)
        BY <4>1
      <4> HIDE DEF f
      <4> QED
        BY <1>3, <3>2, <4>1, <4>2
    <3> QED
      BY <3>1, <3>2
  <2> QED
    BY <2>1
<1>5. Grows(sum)
  <2> HIDE DEF Grows
  <2> QED
    BY <1>4
<1>6. C5BitsValue(r) = sum[SparseDepth]
  BY DEF C5BitsValue
<1>7. PICK f : f = sum /\ \A k \in 0 .. SparseDepth :
                            f[k] = IF k = 0 THEN 0 ELSE f[k - 1] + r.bit[k] * TwoTo[k - 1]
  <2>1. PICK f : f = sum /\ Grows(f)
    BY <1>5
  <2>2. \A k \in 0 .. SparseDepth : f[k] = IF k = 0 THEN 0 ELSE f[k - 1] + r.bit[k] * TwoTo[k - 1]
    <3> HIDE DEF sum
    <3> QED
      BY <2>1
  <2> QED
    BY <2>1, <2>2, SMTT(40)
<1> HIDE DEF sum, Grows
<1> DEFINE T == {n \in Nat : n <= SparseDepth => f[n] = low(n)}
<1>8. 0 \in T
  <2>1. f[0] = 0
    <3>1. 0 \in 0 .. SparseDepth
      BY <1>1
    <3> QED
      BY <1>7, <3>1
  <2> QED
    BY <1>2, <2>1
<1>9. ASSUME NEW n \in T PROVE n + 1 \in T
  <2> SUFFICES ASSUME n + 1 <= SparseDepth PROVE f[n + 1] = low(n + 1)
    OBVIOUS
  <2>1. PICK k : k = n + 1 /\ k \in 0 .. SparseDepth /\ k \in 1 .. SparseDepth /\ k # 0 /\ k - 1 = n
    BY <1>1
  <2>2. f[n] = low(n)
    BY <1>1
  <2>3. f[k] = f[n] + r.bit[k] * TwoTo[n]
    BY <1>7, <2>1
  <2>4. low(k) = low(n) + r.bit[k] * TwoTo[n]
    BY <1>3, <2>1
  <2> QED
    BY <2>1, <2>2, <2>3, <2>4
<1>10. T = Nat
  <2>1. T \in SUBSET Nat
    OBVIOUS
  <2> HIDE DEF T
  <2> QED
    BY <1>8, <1>9, <2>1, Induction
<1>11. f[SparseDepth] = low(SparseDepth)
  BY <1>1, <1>10
<1> QED
  BY <1>6, <1>7, <1>11 DEF low

\* The place beside the one of a height that leads to the index.
Beside(index, k) ==
  IF Halve(index, k) % 2 = 0 THEN Halve(index, k) + 1 ELSE Halve(index, k) - 1

\* It is another place, and the two have one above them.
LEMMA BesideIs ==
  ASSUME NEW index \in Nat, NEW k \in Nat
  PROVE  /\ Beside(index, k) \in Nat /\ Beside(index, k) # Halve(index, k)
         /\ Halve(index, k) % 2 = 0 =>
              Halve(index, k) = 2 * Halve(index, k + 1) /\ Beside(index, k) = 2 * Halve(index, k + 1) + 1
         /\ Halve(index, k) % 2 # 0 =>
              Halve(index, k) = 2 * Halve(index, k + 1) + 1 /\ Beside(index, k) = 2 * Halve(index, k + 1)
<1>1. PICK h, j, b : h = Halve(index, k) /\ j = Halve(index, k + 1) /\ b = h % 2
  OBVIOUS
<1>2. h \in Nat /\ j \in Nat /\ b \in {0, 1} /\ h = 2 * j + b
  <2>1. k + 1 \in Nat
    OBVIOUS
  <2>2. h \in Nat /\ b \in {0, 1} /\ h = 2 * j + b
    BY <1>1, Halving
  <2>3. j \in Nat
    BY <1>1, <2>1, Halving
  <2> QED
    BY <2>2, <2>3
<1>3. Beside(index, k) = IF b = 0 THEN h + 1 ELSE h - 1
  BY <1>1 DEF Beside
<1>4. PICK beside : beside = Beside(index, k)
  OBVIOUS
<1>5. CASE b = 0
  <2>1. h = 2 * j /\ beside = 2 * j + 1 /\ beside \in Nat /\ beside # h
    BY <1>2, <1>3, <1>4, <1>5
  <2> QED
    BY <1>1, <1>4, <1>5, <2>1
<1>6. CASE b = 1
  <2>1. h = 2 * j + 1 /\ beside = 2 * j /\ beside \in Nat /\ beside # h
    BY <1>2, <1>3, <1>4, <1>6
  <2> QED
    BY <1>1, <1>4, <1>6, <2>1
<1> QED
  BY <1>2, <1>5, <1>6

\* Every node but a leaf is made of the two below it.
LEMMA SparseParent ==
  ASSUME NEW used, NEW k \in 1 .. SparseDepth, NEW j \in Nat
  PROVE  C5Tree(used)[k][j] = Parent("empty", C5Tree(used)[k - 1][2 * j], C5Tree(used)[k - 1][2 * j + 1])
<1>1. \A m \in 1 .. SparseDepth :
        C5Tree(used)[m][j] = Parent("empty", C5Tree(used)[m - 1][2 * j], C5Tree(used)[m - 1][2 * j + 1])
  BY SparseNodes, ZenonT(60)
<1> QED
  BY ONLY <1>1, k \in 1 .. SparseDepth

\* The bits and siblings of a row are those of the way up from an index.
Climbs(used, index, bit, sibling) ==
  \A k \in 1 .. SparseDepth :
    /\ bit[k] = Halve(index, k - 1) % 2
    /\ sibling[k] = C5Tree(used)[k - 1][Beside(index, k - 1)]

\* The lanes from an index up, over the nodes beside, are the nodes above it.
LEMMA PathIsUp ==
  ASSUME NEW used, NEW index \in Nat, NEW bit, NEW sibling, NEW leaf, NEW path,
         leaf = C5Leaf(IF index \in used THEN 1 ELSE 0),
         path = C5Lanes(leaf, bit, sibling),
         Climbs(used, index, bit, sibling)
  PROVE  path[SparseDepth] = C5Tree(used)[SparseDepth][Halve(index, SparseDepth)]
<1>1. SparseDepth \in Nat
  BY SparseAssumption
<1>2. PICK tree : tree = C5Tree(used)
  OBVIOUS
<1>3. /\ path[0] = leaf
      /\ \A k \in 1 .. SparseDepth :
           path[k] = IF bit[k] = 0 THEN Parent("empty", path[k - 1], sibling[k])
                                   ELSE Parent("empty", sibling[k], path[k - 1])
  <2>1. path = C5Lanes(leaf, bit, sibling)
    OBVIOUS
  <2> QED
    BY ONLY <2>1, LanesAre
<1> DEFINE T == {n \in Nat : n <= SparseDepth => path[n] = tree[n][Halve(index, n)]}
<1>4. 0 \in T
  <2>1. Halve(index, 0) = index
    BY Halving
  <2>2. tree[0][index] = leaf
    BY <1>2, SparseNodes
  <2> QED
    BY <1>3, <2>1, <2>2
<1>5. ASSUME NEW n \in T PROVE n + 1 \in T
  <2> SUFFICES ASSUME n + 1 <= SparseDepth PROVE path[n + 1] = tree[n + 1][Halve(index, n + 1)]
    OBVIOUS
  <2>1. PICK k : k = n + 1 /\ k \in 1 .. SparseDepth /\ k - 1 = n /\ n \in Nat
    BY <1>1
  <2>2. path[n] = tree[n][Halve(index, n)]
    BY <1>1
  <2>3. PICK j : j = Halve(index, k) /\ j \in Nat
    <3>1. k \in Nat
      BY <2>1
    <3> QED
      BY <3>1, Halving
  <2>4. tree[k][j] = Parent("empty", tree[n][2 * j], tree[n][2 * j + 1])
    <3>1. C5Tree(used)[k][j] = Parent("empty", C5Tree(used)[k - 1][2 * j], C5Tree(used)[k - 1][2 * j + 1])
      BY <2>1, <2>3, SparseParent
    <3> QED
      BY ONLY <1>2, <2>1, <3>1
  <2>5. /\ bit[k] = Halve(index, n) % 2 /\ sibling[k] = tree[n][Beside(index, n)]
        /\ path[k] = IF bit[k] = 0 THEN Parent("empty", path[n], sibling[k])
                                   ELSE Parent("empty", sibling[k], path[n])
    BY <1>2, <1>3, <2>1 DEF Climbs
  <2>6. /\ bit[k] = 0 => Halve(index, n) = 2 * j /\ Beside(index, n) = 2 * j + 1
        /\ bit[k] # 0 => Halve(index, n) = 2 * j + 1 /\ Beside(index, n) = 2 * j
    <3>1. /\ Halve(index, n) % 2 = 0 =>
               Halve(index, n) = 2 * Halve(index, n + 1) /\ Beside(index, n) = 2 * Halve(index, n + 1) + 1
          /\ Halve(index, n) % 2 # 0 =>
               Halve(index, n) = 2 * Halve(index, n + 1) + 1 /\ Beside(index, n) = 2 * Halve(index, n + 1)
      BY <2>1, BesideIs
    <3>2. j = Halve(index, n + 1) /\ bit[k] = Halve(index, n) % 2
      BY <2>1, <2>3, <2>5
    <3> QED
      BY ONLY <3>1, <3>2
  <2>7. path[k] = tree[k][j]
    <3>1. CASE bit[k] = 0
      BY <2>2, <2>4, <2>5, <2>6, <3>1
    <3>2. CASE bit[k] # 0
      BY <2>2, <2>4, <2>5, <2>6, <3>2
    <3> QED
      BY <3>1, <3>2
  <2> QED
    BY <2>1, <2>3, <2>7
<1>6. T = Nat
  <2>1. T \in SUBSET Nat
    OBVIOUS
  <2> HIDE DEF T
  <2> QED
    BY <1>4, <1>5, <2>1, Induction
<1> QED
  BY <1>1, <1>2, <1>6

\* Using one more place changes the nodes above it only.
LEMMA OffThePath ==
  ASSUME NEW used, NEW index \in Nat
  PROVE  \A k \in 0 .. SparseDepth : \A j \in Nat :
           j # Halve(index, k) => C5Tree(used \cup {index})[k][j] = C5Tree(used)[k][j]
<1>1. SparseDepth \in Nat
  BY SparseAssumption
<1>2. PICK tree, wider, more : tree = C5Tree(used) /\ more = used \cup {index} /\ wider = C5Tree(more)
  OBVIOUS
<1> DEFINE T == {n \in Nat : n <= SparseDepth =>
                   \A j \in Nat : j # Halve(index, n) => wider[n][j] = tree[n][j]}
<1>3. 0 \in T
  <2> SUFFICES ASSUME NEW j \in Nat, j # Halve(index, 0) PROVE wider[0][j] = tree[0][j]
    OBVIOUS
  <2>1. j # index
    BY Halving
  <2>2. (IF j \in more THEN 1 ELSE 0) = IF j \in used THEN 1 ELSE 0
    BY <1>2, <2>1
  <2>3. wider[0][j] = C5Leaf(IF j \in more THEN 1 ELSE 0) /\ tree[0][j] = C5Leaf(IF j \in used THEN 1 ELSE 0)
    BY <1>2, SparseNodes
  <2> QED
    BY <2>2, <2>3
<1>4. ASSUME NEW n \in T PROVE n + 1 \in T
  <2> SUFFICES ASSUME n + 1 <= SparseDepth, NEW j \in Nat, j # Halve(index, n + 1)
               PROVE  wider[n + 1][j] = tree[n + 1][j]
    OBVIOUS
  <2>1. PICK k : k = n + 1 /\ k \in 1 .. SparseDepth /\ k - 1 = n /\ n \in Nat /\ n <= SparseDepth
    BY <1>1
  <2>2. 2 * j # Halve(index, n) /\ 2 * j + 1 # Halve(index, n)
    <3>1. PICK h, g : h = Halve(index, n) /\ g = Halve(index, n + 1) /\ h \in Nat /\ g = h \div 2
      BY <2>1, Halving
    <3>2. j # h \div 2
      BY <3>1
    <3>3. h # 2 * j /\ h # 2 * j + 1
      BY ONLY <3>1, <3>2, j \in Nat
    <3> QED
      BY <3>1, <3>3
  <2>3. 2 * j \in Nat /\ 2 * j + 1 \in Nat
    OBVIOUS
  <2>4. wider[n][2 * j] = tree[n][2 * j] /\ wider[n][2 * j + 1] = tree[n][2 * j + 1]
    BY <2>1, <2>2, <2>3
  <2>5. /\ wider[k][j] = Parent("empty", wider[n][2 * j], wider[n][2 * j + 1])
        /\ tree[k][j] = Parent("empty", tree[n][2 * j], tree[n][2 * j + 1])
    <3>1. ASSUME NEW any
          PROVE  C5Tree(any)[k][j] = Parent("empty", C5Tree(any)[n][2 * j], C5Tree(any)[n][2 * j + 1])
      <4>1. C5Tree(any)[k][j] = Parent("empty", C5Tree(any)[k - 1][2 * j], C5Tree(any)[k - 1][2 * j + 1])
        BY <2>1, SparseParent
      <4> QED
        BY ONLY <2>1, <4>1
    <3> QED
      BY <1>2, <3>1
  <2> QED
    BY <2>1, <2>4, <2>5
<1>5. T = Nat
  <2>1. T \in SUBSET Nat
    OBVIOUS
  <2> HIDE DEF T
  <2> QED
    BY <1>3, <1>4, <2>1, Induction
<1> QED
  BY <1>1, <1>2, <1>5

\* A nullifier whose place is free has a witness of C5, and every row of its trace
\* holds.
LEMMA CompleteC5 ==
  ASSUME job \in Jobs, job.circuit = "C5", Statement
  PROVE  /\ HasWitness
         /\ trace = TraceAndPublics[1] /\ pis = TraceAndPublics[2] =>
              \A i \in 1 .. Len(trace) : Holds(i)
<1>1. PICK lot, prior : lot = job.lot /\ prior = job.prior
  OBVIOUS
<1>2. job.tamper = "none" /\ C5Index(lot) \notin {C5Index(q) : q \in prior}
  BY <1>1 DEF Statement
<1>3. NullifierIndex[lot.id] \in Nat
  BY <1>1, E1ProverAssumption
<1>4. HasWitness
  BY <1>1, <1>2 DEF HasWitness, C5Witness
<1>5. SUFFICES ASSUME trace = TraceAndPublics[1], pis = TraceAndPublics[2],
                      NEW i \in 1 .. Len(trace)
               PROVE  Holds(i)
  BY <1>4
<1>6. SparseDepth \in Nat
  BY SparseAssumption
<1>7. PICK number, span, index, used :
        /\ number = NullifierIndex[lot.id] /\ number \in Nat
        /\ span = TwoTo[SparseDepth] /\ span \in Nat /\ span > 0
        /\ index = number % span /\ index = C5Index(lot)
        /\ used = {C5Index(q) : q \in prior}
  <2>1. TwoTo[SparseDepth] \in Nat /\ TwoTo[SparseDepth] > 0
    <3>1. TwoTo[SparseDepth] \in Nat /\ TwoTo[SparseDepth] > SparseDepth
      BY <1>6, PowerExceeds, Doubles
    <3> QED
      BY <1>6, <3>1
  <2> QED
    BY <1>3, <2>1 DEF C5Index
\* The index is the low digits of the number, the quotient the high ones.
<1>8. /\ index \in Nat /\ index \div span = 0
      /\ number = index + (number \div span) * span /\ number \div span \in Nat
  <2>1. number \in Nat /\ span \in Nat /\ span > 0 /\ index = number % span
    BY <1>7
  <2>2. PICK s, q : s = number % span /\ q = number \div span /\ s \in 0 .. span - 1 /\ q \in Nat
                    /\ number = span * q + s
    BY ONLY <2>1
  <2>3. s \div span = 0
    <3>1. s \in 0 .. span - 1 /\ span \in Nat /\ span > 0
      BY <2>1, <2>2
    <3> QED
      BY ONLY <3>1
  <2>4. q \in Nat /\ span \in Nat
    BY <2>1, <2>2
  <2>5. number = s + q * span
    <3>1. q * span \in Nat /\ span * q = q * span
      BY ONLY <2>4
    <3>2. s \in Nat /\ number = span * q + s
      BY <2>1, <2>2
    <3> QED
      BY ONLY <3>1, <3>2
  <2> QED
    BY <2>1, <2>2, <2>3, <2>5
<1>9. Halve(index, SparseDepth) = 0 /\ C5Quotient(lot) = number \div span
  BY <1>7, <1>8 DEF Halve, C5Quotient
<1>10. PICK tree, bit, sibling :
         /\ tree = C5Tree(used)
         /\ bit = [k \in 1 .. SparseDepth |-> Halve(index, k - 1) % 2]
         /\ sibling = [k \in 1 .. SparseDepth |->
                         tree[k - 1][IF Halve(index, k - 1) % 2 = 0
                                       THEN Halve(index, k - 1) + 1 ELSE Halve(index, k - 1) - 1]]
  OBVIOUS
<1>11. \A k \in 1 .. SparseDepth :
         /\ bit[k] = Halve(index, k - 1) % 2
         /\ sibling[k] = C5Tree(used)[k - 1][Beside(index, k - 1)]
  BY <1>10 DEF Beside
<1>12. PICK free, filled, old, new :
         /\ free = C5Leaf(0) /\ filled = C5Leaf(1)
         /\ old = C5Lanes(free, bit, sibling) /\ new = C5Lanes(filled, bit, sibling)
  OBVIOUS
<1>13. PICK r :
         /\ r = C5Trace(lot, prior, "none")
         /\ r.nullifier = C5Nullifier(lot, lot.secret) /\ r.indexOf = C5Nullifier(lot, lot.secret)
         /\ r.old = old /\ r.new = new /\ r.sibling = sibling /\ r.bit = bit
         /\ r.quotient = C5Quotient(lot)
  <2> DEFINE record ==
               [nullifier |-> C5Nullifier(lot, lot.secret), indexOf |-> C5Nullifier(lot, lot.secret),
                old |-> old, new |-> new, sibling |-> sibling, bit |-> bit,
                quotient |-> C5Quotient(lot)]
  <2>1. /\ (IF "none" = "secret" THEN Off(lot.secret) ELSE lot.secret) = lot.secret
        /\ (IF "none" \in {"duplicate", "replay"} THEN 1 ELSE 0) = 0
        /\ "none" # "path" /\ "none" # "index"
    OBVIOUS
  <2>2. C5Trace(lot, prior, "none") = record
    BY <1>7, <1>10, <1>12, <2>1, Zenon DEF C5Trace
  <2> QED
    BY <2>2
<1>14. PICK publics :
         /\ publics = pis /\ publics.state = 1 /\ publics.nullifier = C5Nullifier(lot, lot.secret)
         /\ publics.oldRoot = C5Tree(used)[SparseDepth][0]
         /\ publics.newRoot = C5Tree(used \cup {index})[SparseDepth][0]
  <2>1. pis = C5Publics(lot, prior, "none")
    BY <1>1, <1>2, <1>5 DEF TraceAndPublics
  <2>2. /\ "none" # "replay" /\ "none" # "old root" /\ "none" # "new root" /\ "none" # "state"
    OBVIOUS
  <2>3. pis = [oldRoot |-> C5Tree(used)[SparseDepth][0],
               newRoot |-> C5Tree(used \cup {index})[SparseDepth][0],
               nullifier |-> C5Nullifier(lot, lot.secret), state |-> 1]
    BY <1>7, <2>1, <2>2, Zenon DEF C5Publics
  <2> QED
    BY <2>3
<1>15. trace[i] = r
  <2>1. trace = [row \in 1 .. MinRows |-> r]
    BY <1>1, <1>2, <1>5, <1>13 DEF TraceAndPublics
  <2>2. MinRows \in Nat
    BY TraceShapeAssumption
  <2> QED
    BY <2>1, <2>2
\* The nullifier's hash is split into the digits of its place and a quotient.
<1>16. NullifierIndex[r.indexOf[2]] = C5BitsValue(r) + r.quotient * TwoTo[SparseDepth]
  <2>1. C5BitsValue(r) = index - Halve(index, SparseDepth) * TwoTo[SparseDepth]
    <3>1. \A k \in 1 .. SparseDepth : r.bit[k] = Halve(index, k - 1) % 2
      BY <1>11, <1>13
    <3> QED
      BY <1>8, <3>1, DigitsAre
  <2>2. C5BitsValue(r) = index
    <3>1. TwoTo[SparseDepth] \in Nat /\ index \in Nat
      BY <1>7, <1>8
    <3>2. 0 * TwoTo[SparseDepth] = 0 /\ index - 0 = index
      BY ONLY <3>1
    <3> QED
      BY <1>9, <2>1, <3>2
  <2>3. r.indexOf[2] = lot.id
    BY <1>13 DEF C5Nullifier
  <2> QED
    BY <1>7, <1>8, <1>9, <1>13, <2>2, <2>3
<1>17. /\ old[0] = free /\ new[0] = filled
       /\ \A k \in 1 .. SparseDepth :
            /\ old[k] = IF bit[k] = 0 THEN Parent("empty", old[k - 1], sibling[k])
                                      ELSE Parent("empty", sibling[k], old[k - 1])
            /\ new[k] = IF bit[k] = 0 THEN Parent("empty", new[k - 1], sibling[k])
                                      ELSE Parent("empty", sibling[k], new[k - 1])
  <2>1. old = C5Lanes(free, bit, sibling) /\ new = C5Lanes(filled, bit, sibling)
    BY <1>12
  <2>2. /\ old[0] = free
        /\ \A k \in 1 .. SparseDepth :
             old[k] = IF bit[k] = 0 THEN Parent("empty", old[k - 1], sibling[k])
                                    ELSE Parent("empty", sibling[k], old[k - 1])
    BY ONLY <2>1, LanesAre
  <2>3. /\ new[0] = filled
        /\ \A k \in 1 .. SparseDepth :
             new[k] = IF bit[k] = 0 THEN Parent("empty", new[k - 1], sibling[k])
                                    ELSE Parent("empty", sibling[k], new[k - 1])
    BY ONLY <2>1, LanesAre
  <2> QED
    BY <2>2, <2>3
<1>18. C5PathHolds(r, r.old) /\ C5PathHolds(r, r.new)
  BY <1>13, <1>17 DEF C5PathHolds
<1>19. old[SparseDepth] = C5Tree(used)[SparseDepth][0]
  <2>1. free = C5Leaf(IF index \in used THEN 1 ELSE 0)
    BY <1>2, <1>7, <1>12
  <2>2. old = C5Lanes(free, bit, sibling)
    BY <1>12
  <2>3. old[SparseDepth] = C5Tree(used)[SparseDepth][Halve(index, SparseDepth)]
    <3>1. index \in Nat
      BY <1>8
    <3>2. Climbs(used, index, bit, sibling)
      BY <1>11 DEF Climbs
    <3> QED
      BY ONLY <2>1, <2>2, <3>1, <3>2, PathIsUp
  <2> QED
    BY <1>9, <2>3
<1>20. new[SparseDepth] = C5Tree(used \cup {index})[SparseDepth][0]
  <2>1. PICK more : more = used \cup {index}
    OBVIOUS
  <2>2. filled = C5Leaf(IF index \in more THEN 1 ELSE 0)
    BY <1>12, <2>1
  <2>3. new = C5Lanes(filled, bit, sibling)
    BY <1>12
  <2>4. ASSUME NEW k \in 1 .. SparseDepth
        PROVE  /\ bit[k] = Halve(index, k - 1) % 2
               /\ sibling[k] = C5Tree(more)[k - 1][Beside(index, k - 1)]
    <3>1. PICK j : j = k - 1 /\ j \in Nat /\ j \in 0 .. SparseDepth
      BY <1>6
    <3>2. Beside(index, j) \in Nat /\ Beside(index, j) # Halve(index, j)
      BY <1>8, <3>1, BesideIs
    <3>3. C5Tree(more)[j][Beside(index, j)] = C5Tree(used)[j][Beside(index, j)]
      BY <1>8, <2>1, <3>1, <3>2, OffThePath
    <3> QED
      BY <1>11, <3>1, <3>3
  <2>5. new[SparseDepth] = C5Tree(more)[SparseDepth][Halve(index, SparseDepth)]
    <3>1. index \in Nat
      BY <1>8
    <3>2. Climbs(more, index, bit, sibling)
      BY <2>4 DEF Climbs
    <3> QED
      BY ONLY <2>2, <2>3, <3>1, <3>2, PathIsUp
  <2> QED
    BY <1>9, <2>1, <2>5
<1>21. C5EveryRow(r, publics)
  BY <1>12, <1>13, <1>14, <1>16, <1>17, <1>18, <1>19, <1>20 DEF C5EveryRow
<1>22. RowHolds(trace[i], i = 1)
  BY <1>14, <1>15, <1>21 DEF RowHolds
<1> QED
  BY <1>22 DEF Holds, TransitionHolds, LastHolds

-----------------------------------------------------------------------------
(* The prover: every lot outside and level with no edge is proved.           *)

\* Two products whose first factors share a width.
LEMMA SharedWidth ==
  ASSUME NEW a \in Nat, NEW c \in Nat, NEW b \in Int, NEW d \in Int, NEW w \in Nat, NEW h \in Nat,
         a + c <= w, b <= h, d <= h
  PROVE  a * b + c * d <= w * h
<1>1. \A x, y \in Int : \A z \in Nat : x <= y => z * x <= z * y
  OBVIOUS
<1>2. a * b <= a * h /\ c * d <= c * h
  BY <1>1
<1>3. (a + c) * h <= w * h
  <2>1. a + c \in Nat
    OBVIOUS
  <2>2. h * (a + c) <= h * w
    BY <1>1, <2>1
  <2>3. h * (a + c) = (a + c) * h /\ h * w = w * h
    BY ONLY <2>1, h \in Nat, w \in Nat
  <2> QED
    BY <2>2, <2>3
<1>4. (a + c) * h = a * h + c * h
  OBVIOUS
<1>5. a * b \in Int /\ c * d \in Int /\ a * h \in Int /\ c * h \in Int /\ w * h \in Int
  OBVIOUS
<1> QED
  BY ONLY <1>2, <1>3, <1>4, <1>5

\* Two products whose second factors share a height.
LEMMA SharedHeight ==
  ASSUME NEW a \in Nat, NEW c \in Nat, NEW b \in Int, NEW d \in Int, NEW w \in Nat, NEW h \in Nat,
         a <= w, c <= w, b <= h, d <= h, b + d <= h
  PROVE  a * b + c * d <= w * h
<1>1. \A x, y \in Nat : \A z \in Nat : x <= y => x * z <= y * z
  OBVIOUS
<1>2. \A x \in Int : \A z \in Nat : x <= 0 => z * x <= 0
  OBVIOUS
<1>3. \A x, y \in Int : x * y \in Int
  OBVIOUS
<1>4. ASSUME NEW x \in Nat, x <= w, NEW y \in Int, y <= h PROVE x * y <= w * h
  <2>1. CASE y <= 0
    <3>1. x * y <= 0
      BY <1>2, <2>1
    <3>2. w * h \in Nat
      OBVIOUS
    <3> QED
      BY <1>3, <3>1, <3>2
  <2>2. CASE y > 0
    <3>1. y \in Nat
      BY <2>2
    <3>2. x * y <= w * y
      BY <1>1, <1>4, <3>1
    <3>3. y * w <= h * w
      BY <1>1, <1>4, <3>1
    <3>4. y * w = w * y /\ h * w = w * h
      BY ONLY <3>1, h \in Nat, w \in Nat
    <3> QED
      BY <1>3, <3>2, <3>3, <3>4
  <2> QED
    BY <2>1, <2>2
<1>5. CASE b <= 0
  <2>1. a * b <= 0 /\ c * d <= w * h
    BY <1>2, <1>4, <1>5
  <2> QED
    BY <1>3, <2>1
<1>6. CASE d <= 0
  <2>1. c * d <= 0 /\ a * b <= w * h
    BY <1>2, <1>4, <1>6
  <2> QED
    BY <1>3, <2>1
<1>7. CASE b > 0 /\ d > 0
  <2>1. b \in Nat /\ d \in Nat /\ b + d \in Nat
    BY <1>7
  <2>2. a * b <= w * b /\ c * d <= w * d
    BY <1>1, <2>1
  <2>3. (b + d) * w <= h * w
    BY <1>1, <2>1
  <2>4. (b + d) * w = w * b + w * d /\ h * w = w * h
    BY ONLY <2>1, w \in Nat, h \in Nat
  <2> QED
    BY <1>3, <2>2, <2>3, <2>4
<1> QED
  BY <1>5, <1>6, <1>7

\* Twice the area of a triangle is at most the area of a box around it.
LEMMA HalfABox ==
  ASSUME NEW w \in Nat, NEW h \in Nat,
         NEW x \in -w .. w, NEW u \in -w .. w, x - u \in -w .. w,
         NEW y \in -h .. h, NEW v \in -h .. h, y - v \in -h .. h
  PROVE  x * y - v * u <= w * h
<1>1. /\ x \in Int /\ y \in Int /\ u \in Int /\ v \in Int
      /\ -x \in Int /\ -y \in Int /\ -u \in Int /\ -v \in Int
  OBVIOUS
<1>2. /\ x * y = (-x) * (-y) /\ -(v * u) = u * (-v) /\ -(v * u) = (-u) * v
      /\ x * y \in Int /\ v * u \in Int
  BY ONLY <1>1
<1>3. CASE x >= 0 /\ u >= 0
  <2>1. x \in Nat /\ u \in Nat /\ x <= w /\ u <= w /\ y <= h /\ -v <= h /\ y + (-v) <= h
    BY <1>3
  <2>2. x * y + u * (-v) <= w * h
    BY ONLY <1>1, <2>1, w \in Nat, h \in Nat, SharedHeight
  <2> QED
    BY <1>2, <2>2
<1>4. CASE x < 0 /\ u < 0
  <2>1. -x \in Nat /\ -u \in Nat /\ -x <= w /\ -u <= w /\ -y <= h /\ v <= h /\ (-y) + v <= h
    BY <1>4
  <2>2. (-x) * (-y) + (-u) * v <= w * h
    BY ONLY <1>1, <2>1, w \in Nat, h \in Nat, SharedHeight
  <2> QED
    BY <1>2, <2>2
<1>5. CASE x >= 0 /\ u < 0
  <2>1. x \in Nat /\ -u \in Nat /\ x + (-u) <= w /\ y <= h /\ v <= h
    BY <1>5
  <2>2. x * y + (-u) * v <= w * h
    BY ONLY <1>1, <2>1, w \in Nat, h \in Nat, SharedWidth
  <2> QED
    BY <1>2, <2>2
<1>6. CASE x < 0 /\ u >= 0
  <2>1. -x \in Nat /\ u \in Nat /\ (-x) + u <= w /\ -y <= h /\ -v <= h
    BY <1>6
  <2>2. (-x) * (-y) + u * (-v) <= w * h
    BY ONLY <1>1, <2>1, w \in Nat, h \in Nat, SharedWidth
  <2> QED
    BY <1>2, <2>2
<1> QED
  BY <1>3, <1>4, <1>5, <1>6

\* The range checks hold of points in the box.
LEMMA InBoxInRange ==
  ASSUME NEW r, r.a \in Point, r.b \in Point, r.point \in Point,
         InBounds(r.a), InBounds(r.b), InBounds(r.point)
  PROVE  C1InRange(r)
<1>1. PICK w, h : w = 2 * LonBox /\ h = 2 * LatBox
  OBVIOUS
<1>2. LatBox \in Nat /\ LonBox \in Nat /\ w \in Nat /\ h \in Nat
  BY <1>1, GeofenceAssumption
<1>3. PICK al, ao, bl, bo, pl, po :
        /\ al = r.a.lat /\ ao = r.a.lon /\ bl = r.b.lat /\ bo = r.b.lon
        /\ pl = r.point.lat /\ po = r.point.lon
        /\ al \in -LatBox .. LatBox /\ bl \in -LatBox .. LatBox /\ pl \in -LatBox .. LatBox
        /\ ao \in -LonBox .. LonBox /\ bo \in -LonBox .. LonBox /\ po \in -LonBox .. LonBox
  BY DEF InBounds
<1>4. PICK limit : limit = TwoTo[OrientBits] /\ limit \in Nat /\ w * h < limit
  <2>1. TwoTo[OrientBits] \in Nat /\ h * w < TwoTo[OrientBits]
    BY <1>1, Doubles, WidthAssumption
  <2>2. h * w = w * h
    BY ONLY <1>2
  <2> QED
    BY <2>1, <2>2
<1>5. PICK span : /\ span = TwoTo[CompareBits] /\ span \in Nat /\ h < span /\ w < span
  BY <1>1, Doubles, WidthAssumption
<1>6. PICK x, y, u, v :
        /\ x = bo - ao /\ y = pl - al /\ u = po - ao /\ v = bl - al
        /\ x \in -w .. w /\ u \in -w .. w /\ x - u \in -w .. w /\ u - x \in -w .. w
        /\ y \in -h .. h /\ v \in -h .. h /\ y - v \in -h .. h /\ v - y \in -h .. h
  BY <1>1, <1>2, <1>3
<1>7. PICK o : o = Orientation(r.a, r.b, r.point) /\ o = x * y - v * u /\ o \in Int
  <2>1. Orientation(r.a, r.b, r.point) = x * y - v * u
    BY <1>3, <1>6 DEF Orientation
  <2>2. x \in Int /\ y \in Int /\ u \in Int /\ v \in Int
    BY <1>2, <1>6
  <2>3. x * y - v * u \in Int
    BY ONLY <2>2
  <2> QED
    BY <2>1, <2>3
<1>8. o <= w * h /\ -o <= w * h
  <2>1. x * y - v * u <= w * h
    BY ONLY <1>2, <1>6, HalfABox
  <2>2. u * v - y * x <= w * h
    BY ONLY <1>2, <1>6, HalfABox
  <2>3. -(x * y - v * u) = u * v - y * x
    <3>1. x \in Int /\ y \in Int /\ u \in Int /\ v \in Int
      BY <1>2, <1>6
    <3> QED
      BY ONLY <3>1
  <2> QED
    BY <1>7, <2>1, <2>2, <2>3
<1>9. Max({o, -o}) < limit
  <2>1. Max({o, -o}) \in {o, -o}
    <3>1. o \in Int /\ -o \in Int
      BY <1>7
    <3>2. Max({o, -o}) = IF o >= -o THEN o ELSE -o
      BY ONLY <3>1, MaxOfTwo
    <3> QED
      BY <3>2
  <2>2. w * h \in Nat
    BY ONLY <1>2
  <2> QED
    BY <1>4, <1>7, <1>8, <2>1, <2>2
<1> DEFINE gap(n, m) == IF n > m THEN n - m - 1 ELSE m - n
<1>10. /\ gap(al, pl) < span /\ gap(bl, pl) < span
       /\ gap(ao, po) < span /\ gap(bo, po) < span
  BY <1>1, <1>2, <1>3, <1>5
<1> QED
  BY <1>3, <1>4, <1>5, <1>7, <1>9, <1>10 DEF C1InRange

\* A point strictly outside and level with no edge touches no edge of the padded
\* polygon, in the sense of the circuit.
LEMMA NoTouch ==
  ASSUME NEW vs \in Seq(Point), Len(vs) \in 3 .. MaxVertices, NEW r,
         NEW k \in 1 .. MaxVertices,
         r.a = C1Padded(vs)[k], r.b = After(C1Padded(vs), k), r.point \in Point,
         StrictlyOutside(vs, r.point), ~ LevelWithEdge(vs, r.point)
  PROVE  ~ C1Touches(r)
<1> SUFFICES ASSUME C1Touches(r) PROVE FALSE
  OBVIOUS
<1>1. MaxVertices \in Nat /\ Len(vs) \in Nat /\ Len(vs) >= 3
  BY GeofenceAssumption
<1>2. r.a \in Point /\ r.b \in Point
  BY PaddedEdges
<1>3. PICK al, ao, bl, bo, pl, po \in Int :
        /\ al = r.a.lat /\ ao = r.a.lon /\ bl = r.b.lat /\ bo = r.b.lon
        /\ pl = r.point.lat /\ po = r.point.lon
  BY <1>2 DEF Point
<1>4. /\ Orientation(r.a, r.b, r.point) = 0
      /\ (al > pl) # (bl > pl) \/ al = pl \/ bl = pl
      /\ bl = al \/ (ao > po) # (bo > po) \/ ao = po \/ bo = po
  BY <1>3 DEF C1Touches
\* An edge without length is at the last vertex, and so is the point.
<1>5. CASE k >= Len(vs) /\ k # MaxVertices
  <2>1. r.a = vs[Len(vs)] /\ r.b = r.a
    <3>1. C1Padded(vs)[k] = vs[Len(vs)]
      <4>1. k = Len(vs) \/ ~ k <= Len(vs)
        BY <1>1, <1>5
      <4> QED
        BY <4>1 DEF C1Padded
    <3>2. C1Padded(vs)[k] = After(C1Padded(vs), k)
      BY <1>5, PaddedEdges
    <3> QED
      BY <3>1, <3>2
  <2>2. al = pl
    BY <1>3, <1>4, <2>1
  <2>3. Len(vs) < MaxVertices
    BY <1>1, <1>5
  <2> QED
    BY <1>3, <2>1, <2>2, <2>3 DEF LevelWithEdge
<1>6. CASE k < Len(vs) \/ k = MaxVertices
  <2>1. PICK i \in 1 .. Len(vs) : r.a = vs[i] /\ r.b = After(vs, i)
    <3>1. CASE k < Len(vs)
      <4>1. k \in 1 .. Len(vs)
        BY <1>1, <3>1
      <4>2. r.a = vs[k] /\ r.b = After(vs, k)
        BY <3>1, PaddedEdges
      <4> QED
        BY <4>1, <4>2
    <3>2. CASE k = MaxVertices
      <4>1. Len(vs) \in 1 .. Len(vs)
        BY <1>1
      <4>2. r.a = vs[Len(vs)] /\ r.b = After(vs, Len(vs))
        BY <3>2, PaddedEdges
      <4> QED
        BY <4>1, <4>2
    <3> QED
      BY <1>6, <3>1, <3>2
  <2>2. CASE bl = al
    <3>1. pl = al
      BY <1>4, <2>2
    <3> QED
      BY <1>3, <2>1, <2>2, <3>1 DEF LevelWithEdge
  <2>3. CASE bl # al
    <3>1. /\ Min({al, bl}) = IF al <= bl THEN al ELSE bl
          /\ Max({al, bl}) = IF al >= bl THEN al ELSE bl
          /\ Min({ao, bo}) = IF ao <= bo THEN ao ELSE bo
          /\ Max({ao, bo}) = IF ao >= bo THEN ao ELSE bo
      BY MinOfTwo, MaxOfTwo
    <3>2. /\ po >= Min({ao, bo}) /\ po <= Max({ao, bo})
          /\ pl >= Min({al, bl}) /\ pl <= Max({al, bl})
      BY <1>4, <2>3, <3>1
    <3>3. PointOnSegment(r.a, r.b, r.point)
      BY <1>3, <1>4, <3>2 DEF PointOnSegment
    <3> QED
      BY <2>1, <3>3 DEF StrictlyOutside, OnBoundary
  <2> QED
    BY <2>2, <2>3
<1> QED
  BY <1>1, <1>5, <1>6

\* Over the whole padded polygon the circuit then counts an even number of
\* crossings.
LEMMA EvenAround ==
  ASSUME NEW vs \in Seq(Point), Len(vs) \in 3 .. MaxVertices, NEW p \in Point,
         StrictlyOutside(vs, p), ~ LevelWithEdge(vs, p)
  PROVE  Crossings(C1Padded(vs), p, MaxVertices - 1) % 2 = 0
<1>1. PICK padded : padded = C1Padded(vs)
  OBVIOUS
<1>2. ASSUME NEW k \in 1 .. MaxVertices
      PROVE  C1CrossesRight(p, padded[k], After(padded, k))
               <=> CrossesRight(padded[k], After(padded, k), p)
  <2>1. PICK r : r = [a |-> padded[k], b |-> After(padded, k), point |-> p]
    OBVIOUS
  <2>2. r.a = padded[k] /\ r.b = After(padded, k) /\ r.point = p
    BY <2>1
  <2>3. r.a \in Point /\ r.b \in Point
    BY <1>1, <2>2, PaddedEdges
  <2>4. ~ C1Touches(r)
    BY <1>1, <2>2, NoTouch
  <2>5. C1CrossesRight(r.point, r.a, r.b) <=> CrossesRight(r.a, r.b, r.point)
    BY <2>2, <2>3, <2>4, EdgeAgrees
  <2> QED
    BY <2>2, <2>5
<1>3. Cardinality({i \in 1 .. Len(vs) : CrossesRight(vs[i], After(vs, i), p)})
        = Crossings(padded, p, MaxVertices - 1)
  BY <1>1, <1>2, CrossedEdges
<1>4. Cardinality({i \in 1 .. Len(vs) : CrossesRight(vs[i], After(vs, i), p)}) % 2 = 0
  BY DEF StrictlyOutside, Quantify
<1> QED
  BY <1>1, <1>3, <1>4

\* No edge is crossed before the first, and each adds itself if it is.
LEMMA CrossingsGrow ==
  ASSUME NEW vs, NEW p, NEW edge \in Nat
  PROVE  /\ Crossings(vs, p, -1) = 0
         /\ Crossings(vs, p, edge) \in Nat
         /\ Crossings(vs, p, edge) = Crossings(vs, p, edge - 1)
              + Bit(C1CrossesRight(p, vs[edge + 1], After(vs, edge + 1)))
<1> DEFINE Hit(j) == C1CrossesRight(p, vs[j + 1], After(vs, j + 1))
           S(k) == {j \in 0 .. k : Hit(j)}
<1> HIDE DEF Hit
<1>1. S(-1) = {} /\ Cardinality(S(-1)) = 0
  <2>1. S(-1) = {}
    OBVIOUS
  <2> HIDE DEF S
  <2> QED
    BY <2>1, FS_EmptySet
<1>2. PICK before, after : before = S(edge - 1) /\ after = S(edge)
  OBVIOUS
<1>3. IsFiniteSet(before) /\ Cardinality(before) \in Nat
  <2>1. IsFiniteSet(0 .. edge - 1)
    BY FS_Interval
  <2>2. before \in SUBSET (0 .. edge - 1)
    BY <1>2
  <2>3. IsFiniteSet(before)
    BY <2>1, <2>2, FS_Subset
  <2> QED
    BY <2>3, FS_CardinalityType
<1>4. edge \notin before
  BY <1>2
<1>5. CASE Hit(edge)
  <2>1. after = before \cup {edge}
    BY <1>2, <1>5
  <2>2. Cardinality(after) = Cardinality(before) + 1
    BY <1>3, <1>4, <2>1, FS_AddElement
  <2>3. Bit(Hit(edge)) = 1
    BY <1>5 DEF Bit
  <2> HIDE DEF S
  <2> QED
    BY <1>1, <1>2, <1>3, <2>2, <2>3 DEF Crossings, S, Hit
<1>6. CASE ~ Hit(edge)
  <2>1. after = before
    <3>1. \A j \in 0 .. edge : Hit(j) => j \in 0 .. edge - 1
      BY <1>6
    <3> QED
      BY <1>2, <3>1
  <2>2. Bit(Hit(edge)) = 0
    BY <1>6 DEF Bit
  <2> HIDE DEF S
  <2> QED
    BY <1>1, <1>2, <1>3, <2>1, <2>2 DEF Crossings, S, Hit
<1> QED
  BY <1>5, <1>6

\* The event of a group of edges, the last one for those that pad the trace, the
\* word at a place of all that is absorbed, and the words before a place.
EventAt(lot, e) == lot.events[Min({e, Len(lot.events) - 1}) + 1]
WordAt(lot, k) ==
  IF k < Len(lot.events) * MaxVertices
    THEN EventWord(EventAt(lot, k \div MaxVertices), k % MaxVertices) ELSE 0
Words(lot, m) == [k \in 1 .. m |-> WordAt(lot, k - 1)]

\* The columns of a row, from the numbers of its pair of rows, its event, its edge
\* and its phase, and the number of words before it.
Columns(r, lot, pair, e, edge, ph, half) ==
  LET P == C1Padded(lot.polygon)
      words == Len(lot.events) * MaxVertices
      p == EventAt(lot, e).point
  IN /\ r.phase = ph /\ r.edge = edge /\ r.last = (edge + 1 = MaxVertices)
     /\ r.point = p /\ r.a = P[edge + 1] /\ r.b = After(P, edge + 1) /\ r.first = P[1]
     /\ r.real = (pair < words) /\ r.remaining = words - Min({pair, words})
     /\ r.word = WordAt(lot, pair) /\ r.batch = Words(lot, half)
     /\ r.poly = SubSeq(P, 1, edge)
     /\ r.output = IF ph = 0 THEN Append(Words(lot, half), WordAt(lot, pair))
                             ELSE Append(SubSeq(P, 1, edge), P[edge + 1])
     /\ r.cross = (ph = 0 /\ C1CrossesRight(p, P[edge + 1], After(P, edge + 1)))
     /\ r.parity = Crossings(P, p, edge - Bit(ph = 0)) % 2

\* Every row has them.
LEMMA RowColumns ==
  ASSUME NEW lot, NEW row
  PROVE  Columns(C1Row(lot, row), lot, row \div 2, (row \div 2) \div MaxVertices,
                 (row \div 2) % MaxVertices, row % 2, (row + 1) \div 2)
BY Zenon DEF Columns, C1Row, C1Aux, EventAt, WordAt, Words, Crossings, Quantify

\* The numbers of the two rows of an edge.
LEMMA RowIs ==
  ASSUME NEW lot, NEW e \in Nat, NEW edge \in 0 .. MaxVertices - 1, NEW ph \in {0, 1},
         NEW pair, pair = e * MaxVertices + edge
  PROVE  /\ pair \in Nat
         /\ Columns(C1Row(lot, 2 * pair + ph), lot, pair, e, edge, ph, pair + ph)
<1>1. MaxVertices \in Nat /\ MaxVertices > 0
  BY GeofenceAssumption
<1>2. pair \in Nat /\ pair % MaxVertices = edge /\ pair \div MaxVertices = e
  <2>1. e * MaxVertices \in Nat
    BY <1>1
  <2> QED
    BY <1>1, <2>1, DivOfSum
<1>3. /\ (2 * pair + ph) \div 2 = pair /\ (2 * pair + ph) % 2 = ph
      /\ ((2 * pair + ph) + 1) \div 2 = pair + ph
  BY ONLY <1>2, ph \in {0, 1}
<1>4. PICK row, r : row = 2 * pair + ph /\ r = C1Row(lot, row)
  OBVIOUS
<1>5. Columns(r, lot, row \div 2, (row \div 2) \div MaxVertices, (row \div 2) % MaxVertices,
              row % 2, (row + 1) \div 2)
  BY <1>4, RowColumns
<1>6. Columns(r, lot, pair, e, edge, ph, pair + ph)
  <2>1. /\ row \div 2 = pair /\ row % 2 = ph /\ (row + 1) \div 2 = pair + ph
    BY ONLY <1>3, <1>4
  <2> QED
    BY ONLY <1>2, <1>5, <2>1
<1> QED
  BY <1>2, <1>4, <1>6

\* What the first row of an edge holds, and what the second.
FirstOf(r, lot, e, edge, pair, P, p) ==
  /\ r.phase = 0 /\ r.edge = edge /\ r.last = (edge + 1 = MaxVertices)
  /\ r.point = p /\ r.a = P[edge + 1] /\ r.b = After(P, edge + 1) /\ r.first = P[1]
  /\ r.real = (pair < Len(lot.events) * MaxVertices)
  /\ r.remaining = Len(lot.events) * MaxVertices - Min({pair, Len(lot.events) * MaxVertices})
  /\ r.word = WordAt(lot, pair) /\ r.batch = Words(lot, pair)
  /\ r.poly = SubSeq(P, 1, edge) /\ r.output = Append(Words(lot, pair), WordAt(lot, pair))
  /\ (r.cross <=> C1CrossesRight(p, P[edge + 1], After(P, edge + 1))) /\ r.cross \in BOOLEAN
  /\ r.parity = Crossings(P, p, edge - 1) % 2

SecondOf(r, lot, e, edge, pair, P, p) ==
  /\ r.phase = 1 /\ r.edge = edge /\ r.last = (edge + 1 = MaxVertices)
  /\ r.point = p /\ r.a = P[edge + 1] /\ r.b = After(P, edge + 1) /\ r.first = P[1]
  /\ r.real = (pair < Len(lot.events) * MaxVertices)
  /\ r.remaining = Len(lot.events) * MaxVertices - Min({pair, Len(lot.events) * MaxVertices})
  /\ r.batch = Words(lot, pair + 1)
  /\ r.poly = SubSeq(P, 1, edge) /\ r.output = Append(SubSeq(P, 1, edge), P[edge + 1])
  /\ r.parity = Crossings(P, p, edge) % 2

\* The first row of an edge is such a row.
LEMMA FirstPhase ==
  ASSUME NEW lot, NEW e \in Nat, NEW edge \in 0 .. MaxVertices - 1
  PROVE  FirstOf(C1Row(lot, RowOf(e, edge)), lot, e, edge, e * MaxVertices + edge,
                 C1Padded(lot.polygon), EventAt(lot, e).point)
<1>1. PICK ph, pair, P, p, r :
        /\ ph = 0 /\ pair = e * MaxVertices + edge /\ P = C1Padded(lot.polygon)
        /\ p = EventAt(lot, e).point /\ r = C1Row(lot, RowOf(e, edge))
  OBVIOUS
<1>2. 2 * pair + ph = RowOf(e, edge) /\ pair + ph = pair
  <2>1. pair \in Nat
    BY <1>1, RowIs
  <2> QED
    BY <1>1, <2>1 DEF RowOf
<1>3. edge - Bit(ph = 0) = edge - 1
  BY <1>1 DEF Bit
<1>4. Columns(r, lot, pair, e, edge, ph, pair)
  <2>1. Columns(C1Row(lot, 2 * pair + ph), lot, pair, e, edge, ph, pair + ph)
    BY <1>1, RowIs
  <2> QED
    BY ONLY <1>1, <1>2, <2>1
<1>5. FirstOf(r, lot, e, edge, pair, P, p)
  BY ONLY <1>1, <1>3, <1>4 DEF Columns, FirstOf
<1> QED
  BY <1>1, <1>5

\* And so is the second row of an edge.
LEMMA SecondPhase ==
  ASSUME NEW lot, NEW e \in Nat, NEW edge \in 0 .. MaxVertices - 1
  PROVE  SecondOf(C1Row(lot, RowOf(e, edge) + 1), lot, e, edge, e * MaxVertices + edge,
                  C1Padded(lot.polygon), EventAt(lot, e).point)
<1>1. PICK ph, pair, P, p, r :
        /\ ph = 1 /\ pair = e * MaxVertices + edge /\ P = C1Padded(lot.polygon)
        /\ p = EventAt(lot, e).point /\ r = C1Row(lot, RowOf(e, edge) + 1)
  OBVIOUS
<1>2. 2 * pair + ph = RowOf(e, edge) + 1
  BY <1>1 DEF RowOf
<1>3. edge - Bit(ph = 0) = edge /\ ph # 0
  BY <1>1 DEF Bit
<1>4. Columns(r, lot, pair, e, edge, ph, pair + 1)
  <2>1. Columns(C1Row(lot, 2 * pair + ph), lot, pair, e, edge, ph, pair + ph)
    BY <1>1, RowIs
  <2> QED
    BY ONLY <1>1, <1>2, <2>1
<1>5. SecondOf(r, lot, e, edge, pair, P, p)
  BY ONLY <1>1, <1>3, <1>4 DEF Columns, SecondOf
<1> QED
  BY <1>1, <1>5

\* A lot whose points are in the box, strictly outside and level with no edge.
SafeLot(lot) ==
  /\ lot.polygon \in Seq(Point) /\ Len(lot.polygon) \in 3 .. MaxVertices
  /\ \A i \in 1 .. Len(lot.polygon) : InBounds(lot.polygon[i])
  /\ lot.events \in Seq([id : Int, point : Point]) /\ Len(lot.events) > 0
  /\ \A i \in 1 .. Len(lot.events) :
       /\ InBounds(lot.events[i].point)
       /\ StrictlyOutside(lot.polygon, lot.events[i].point)
       /\ ~ LevelWithEdge(lot.polygon, lot.events[i].point)

\* The events that pad the trace are events of the lot.
LEMMA EventIs ==
  ASSUME NEW lot, SafeLot(lot), NEW e \in Nat
  PROVE  /\ EventAt(lot, e).point \in Point /\ InBounds(EventAt(lot, e).point)
         /\ StrictlyOutside(lot.polygon, EventAt(lot, e).point)
         /\ ~ LevelWithEdge(lot.polygon, EventAt(lot, e).point)
<1>1. PICK events, n : events = lot.events /\ n = Len(events)
  OBVIOUS
<1>2. events \in Seq([id : Int, point : Point]) /\ n \in Nat /\ n > 0
  BY <1>1 DEF SafeLot
<1>3. PICK i : i = Min({e, n - 1}) + 1 /\ i \in 1 .. n
  <2>1. Min({e, n - 1}) = IF e <= n - 1 THEN e ELSE n - 1
    BY <1>2, MinOfTwo
  <2> QED
    BY <1>2, <2>1
<1>4. EventAt(lot, e) = events[i]
  BY <1>1, <1>3 DEF EventAt
<1>5. events[i] \in [id : Int, point : Point]
  <2>1. \A S, s : s \in Seq(S) => \A k \in 1 .. Len(s) : s[k] \in S
    OBVIOUS
  <2> QED
    BY ONLY <1>1, <1>2, <1>3, <2>1
<1> QED
  BY <1>1, <1>3, <1>4, <1>5 DEF SafeLot

\* Absorbing the next word gives the words up to it.
LEMMA WordsGrow ==
  ASSUME NEW lot, NEW m \in Nat
  PROVE  Append(Words(lot, m), WordAt(lot, m)) = Words(lot, m + 1)
<1>1. PICK S, w : /\ S = {WordAt(lot, k) : k \in Nat}
                  /\ w = [k \in Nat |-> WordAt(lot, k)]
  OBVIOUS
<1>2. \A k \in Nat : w[k] \in S /\ w[k] = WordAt(lot, k)
  BY <1>1
<1>3. Words(lot, m) = [k \in 1 .. m |-> w[k - 1]] /\ Words(lot, m + 1) = [k \in 1 .. m + 1 |-> w[k - 1]]
  <2>1. ASSUME NEW q \in Nat PROVE Words(lot, q) = [k \in 1 .. q |-> w[k - 1]]
    <3>1. \A k \in 1 .. q : k - 1 \in Nat
      OBVIOUS
    <3> QED
      BY <1>2, <3>1 DEF Words
  <2>2. m + 1 \in Nat
    OBVIOUS
  <2> QED
    BY <2>1, <2>2
<1>4. \A k \in 1 .. m + 1 : w[k - 1] \in S
  BY <1>2
<1>5. [k \in 1 .. m |-> w[k - 1]] \in Seq(S) /\ w[m] \in S
  BY <1>2, <1>4
<1>6. Append([k \in 1 .. m |-> w[k - 1]], w[m]) = [k \in 1 .. m + 1 |-> w[k - 1]]
  BY ONLY <1>4, <1>5, m \in Nat
<1> QED
  BY <1>2, <1>3, <1>6

\* And absorbing the next vertex the vertices up to it.
LEMMA PolyGrows ==
  ASSUME NEW P \in Seq(Point), NEW edge \in 0 .. Len(P) - 1
  PROVE  /\ SubSeq(P, 1, 0) = <<>> /\ SubSeq(P, 1, Len(P)) = P
         /\ Append(SubSeq(P, 1, edge), P[edge + 1]) = SubSeq(P, 1, edge + 1)
<1>1. Len(P) \in Nat
  OBVIOUS
<1>2. SubSeq(P, 1, 0) = <<>>
  OBVIOUS
<1>3. SubSeq(P, 1, Len(P)) = P
  OBVIOUS
<1>4. Append(SubSeq(P, 1, edge), P[edge + 1]) = SubSeq(P, 1, edge + 1)
  <2>1. PICK s, t, v : s = SubSeq(P, 1, edge) /\ t = SubSeq(P, 1, edge + 1) /\ v = P[edge + 1]
    OBVIOUS
  <2>2. /\ s \in Seq(Point) /\ t \in Seq(Point) /\ v \in Point /\ Len(s) = edge /\ Len(t) = edge + 1
        /\ \A i \in 1 .. edge : s[i] = P[i]
        /\ \A i \in 1 .. edge + 1 : t[i] = P[i]
    BY <1>1, <2>1
  <2>3. /\ Append(s, v) \in Seq(Point) /\ Len(Append(s, v)) = edge + 1
        /\ \A i \in 1 .. edge + 1 : Append(s, v)[i] = IF i = edge + 1 THEN v ELSE s[i]
    BY <2>2
  <2>4. \A i \in 1 .. edge + 1 : Append(s, v)[i] = t[i]
    BY <2>1, <2>2, <2>3
  <2>5. Append(s, v) = t
    BY <2>2, <2>3, <2>4
  <2> QED
    BY <2>1, <2>5
<1> QED
  BY <1>2, <1>3, <1>4

\* The public inputs of a lot that nobody spoils.
OwnPublics(lot, publics) ==
  /\ publics.polygon = C1Padded(lot.polygon) /\ publics.count = Len(lot.events)
  /\ publics.events = C1Row(lot, C1Height(Len(lot.events)) - 1).batch

\* The ends of a row's edge and its point are in the box, and it touches nothing.
LEMMA EdgeSafe ==
  ASSUME NEW lot, SafeLot(lot), NEW e \in Nat, NEW edge \in 0 .. MaxVertices - 1, NEW r,
         r.a = C1Padded(lot.polygon)[edge + 1], r.b = After(C1Padded(lot.polygon), edge + 1),
         r.point = EventAt(lot, e).point
  PROVE  C1InRange(r) /\ ~ C1Touches(r)
<1>1. PICK vs, p, k : vs = lot.polygon /\ p = EventAt(lot, e).point /\ k = edge + 1
  OBVIOUS
<1>2. /\ vs \in Seq(Point) /\ Len(vs) \in 3 .. MaxVertices /\ Len(vs) \in Nat
      /\ \A i \in 1 .. Len(vs) : InBounds(vs[i])
  BY <1>1 DEF SafeLot
<1>3. MaxVertices \in Nat /\ k \in 1 .. MaxVertices
  BY <1>1, GeofenceAssumption
<1>4. /\ p \in Point /\ InBounds(p) /\ StrictlyOutside(vs, p) /\ ~ LevelWithEdge(vs, p)
  BY <1>1, EventIs
<1>5. r.a = C1Padded(vs)[k] /\ r.b = After(C1Padded(vs), k) /\ r.point = p
  BY <1>1
<1>6. r.a \in Point /\ r.b \in Point
  BY <1>2, <1>3, <1>5, PaddedEdges
<1>7. ~ C1Touches(r)
  BY <1>2, <1>3, <1>4, <1>5, NoTouch
\* A padded vertex is a vertex.
<1>8. \A j \in 1 .. MaxVertices : InBounds(C1Padded(vs)[j])
  <2> SUFFICES ASSUME NEW j \in 1 .. MaxVertices PROVE InBounds(C1Padded(vs)[j])
    OBVIOUS
  <2>1. PICK i \in 1 .. Len(vs) : C1Padded(vs)[j] = vs[i]
    <3>1. C1Padded(vs)[j] = IF j <= Len(vs) THEN vs[j] ELSE vs[Len(vs)]
      BY DEF C1Padded
    <3>2. Len(vs) \in 1 .. Len(vs) /\ (j <= Len(vs) => j \in 1 .. Len(vs))
      BY <1>2
    <3> QED
      BY <3>1, <3>2
  <2> QED
    BY <1>2, <2>1
<1>9. InBounds(r.a) /\ InBounds(r.b)
  <2>1. (k % MaxVertices) + 1 \in 1 .. MaxVertices
    BY <1>3
  <2>2. r.b = C1Padded(vs)[(k % MaxVertices) + 1]
    <3>1. Len(C1Padded(vs)) = MaxVertices
      BY <1>2, PaddedEdges
    <3> QED
      BY <1>5, <3>1 DEF After
  <2> QED
    BY <1>3, <1>5, <1>8, <2>1, <2>2
<1>10. C1InRange(r)
  BY <1>4, <1>5, <1>6, <1>9, InBoxInRange
<1> QED
  BY <1>7, <1>10

\* The first row of an edge holds.
LEMMA FirstPhaseHolds ==
  ASSUME NEW lot, SafeLot(lot), NEW publics, NEW e \in Nat, NEW edge \in 0 .. MaxVertices - 1,
         NEW pair, pair = e * MaxVertices + edge, NEW r, r = C1Row(lot, RowOf(e, edge))
  PROVE  C1EveryRow(r, publics)
<1>1. PICK vs, P, p : vs = lot.polygon /\ P = C1Padded(vs) /\ p = EventAt(lot, e).point
  OBVIOUS
<1>2. MaxVertices \in Nat /\ vs \in Seq(Point) /\ Len(vs) \in 3 .. MaxVertices
  BY <1>1, GeofenceAssumption DEF SafeLot
<1>3. P \in Seq(Point) /\ Len(P) = MaxVertices
  BY <1>1, <1>2, PaddedEdges
<1>4. /\ r.phase = 0 /\ r.edge = edge /\ r.last = (edge + 1 = MaxVertices)
      /\ r.point = p /\ r.a = P[edge + 1] /\ r.b = After(P, edge + 1)
      /\ r.real = (pair < Len(lot.events) * MaxVertices)
      /\ r.word = WordAt(lot, pair) /\ r.batch = Words(lot, pair)
      /\ r.poly = SubSeq(P, 1, edge) /\ r.output = Append(Words(lot, pair), WordAt(lot, pair))
      /\ (r.cross <=> C1CrossesRight(p, P[edge + 1], After(P, edge + 1))) /\ r.cross \in BOOLEAN
      /\ r.parity = Crossings(P, p, edge - 1) % 2
  <2>1. FirstOf(r, lot, e, edge, pair, P, p)
    BY <1>1, FirstPhase
  <2> QED
    BY ONLY <2>1 DEF FirstOf
<1>5. C1InRange(r) /\ ~ C1Touches(r)
  BY <1>1, <1>4, EdgeSafe
<1>6. r.last => r.edge = MaxVertices - 1
  <2>1. (edge + 1 = MaxVertices) => edge = MaxVertices - 1
    BY <1>2
  <2> QED
    BY <1>4, <2>1, Zenon
<1>7. r.cross = C1CrossesRight(r.point, r.a, r.b)
  <2>1. C1CrossesRight(r.point, r.a, r.b) \in BOOLEAN
    BY DEF C1CrossesRight
  <2>2. C1CrossesRight(r.point, r.a, r.b) <=> C1CrossesRight(p, P[edge + 1], After(P, edge + 1))
    BY <1>4
  <2> QED
    BY <1>4, <2>1, <2>2
<1>8. r.edge = 0 => r.poly = <<>> /\ r.parity = 0
  <2> SUFFICES ASSUME edge = 0 PROVE r.poly = <<>> /\ r.parity = 0
    BY <1>4
  <2>1. SubSeq(P, 1, 0) = <<>>
    BY <1>3, PolyGrows
  <2>2. edge - 1 = -1 /\ Crossings(P, p, -1) = 0
    BY CrossingsGrow
  <2>3. r.parity = 0 % 2
    BY <1>4, <2>2
  <2>4. 0 % 2 = 0
    OBVIOUS
  <2> QED
    BY <1>4, <2>1, <2>3, <2>4
\* While the row is real its word is the event's.
<1>9. ASSUME r.real PROVE WordAt(lot, pair) = EventWord(EventAt(lot, e), edge)
  <2>1. pair < Len(lot.events) * MaxVertices
    BY <1>4, <1>9, Zenon
  <2>2. pair \div MaxVertices = e /\ pair % MaxVertices = edge
    BY <1>2, DivOfSum
  <2> QED
    BY <2>1, <2>2 DEF WordAt
<1>10. /\ r.real /\ r.edge = LatEdge => r.word = r.point.lat
       /\ r.real /\ r.edge = LonEdge => r.word = r.point.lon
  <2>1. EventWord(EventAt(lot, e), LatEdge) = p.lat /\ EventWord(EventAt(lot, e), LonEdge) = p.lon
    BY <1>1, EventWordAssumption DEF EventWord
  <2> QED
    BY <1>4, <1>9, <2>1
<1>11. r.output = Append(r.batch, r.word)
  BY <1>4
<1>12. r.phase # 1
  BY <1>4
<1> QED
  BY <1>4, <1>5, <1>6, <1>7, <1>8, <1>10, <1>11, <1>12 DEF C1EveryRow

\* The second row of an edge holds.
LEMMA SecondPhaseHolds ==
  ASSUME NEW lot, SafeLot(lot), NEW publics, OwnPublics(lot, publics),
         NEW e \in Nat, NEW edge \in 0 .. MaxVertices - 1,
         NEW pair, pair = e * MaxVertices + edge, NEW r, r = C1Row(lot, RowOf(e, edge) + 1)
  PROVE  C1EveryRow(r, publics) /\ (edge + 1 = MaxVertices => r.parity = 0)
<1>1. PICK vs, P, p : vs = lot.polygon /\ P = C1Padded(vs) /\ p = EventAt(lot, e).point
  OBVIOUS
<1>2. MaxVertices \in Nat /\ vs \in Seq(Point) /\ Len(vs) \in 3 .. MaxVertices
  BY <1>1, GeofenceAssumption DEF SafeLot
<1>3. P \in Seq(Point) /\ Len(P) = MaxVertices
  BY <1>1, <1>2, PaddedEdges
<1>4. /\ r.phase = 1 /\ r.edge = edge /\ r.last = (edge + 1 = MaxVertices)
      /\ r.point = p /\ r.a = P[edge + 1] /\ r.b = After(P, edge + 1) /\ r.first = P[1]
      /\ r.poly = SubSeq(P, 1, edge) /\ r.output = Append(SubSeq(P, 1, edge), P[edge + 1])
      /\ r.parity = Crossings(P, p, edge) % 2
  <2>1. SecondOf(r, lot, e, edge, pair, P, p)
    BY <1>1, SecondPhase
  <2> QED
    BY ONLY <2>1 DEF SecondOf
<1>5. C1InRange(r)
  BY <1>1, <1>4, EdgeSafe
<1>6. r.last => edge + 1 = MaxVertices
  BY <1>4, Zenon
<1>7. r.last => r.edge = MaxVertices - 1
  <2>1. (edge + 1 = MaxVertices) => edge = MaxVertices - 1
    BY <1>2
  <2> QED
    BY <1>4, <1>6, <2>1, Zenon
<1>8. ASSUME edge + 1 = MaxVertices
      PROVE  r.b = r.first /\ r.output = publics.polygon /\ r.parity = 0
  <2>1. After(P, edge + 1) = P[1]
    <3>1. Len(P) % Len(P) = 0
      BY <1>2, <1>3
    <3>2. (Len(P) % Len(P)) + 1 = 1
      BY <3>1
    <3> QED
      BY <1>3, <1>8, <3>2 DEF After
  <2>2. r.output = P
    <3>1. edge \in 0 .. Len(P) - 1
      BY <1>3
    <3>2. /\ SubSeq(P, 1, Len(P)) = P
          /\ Append(SubSeq(P, 1, edge), P[edge + 1]) = SubSeq(P, 1, edge + 1)
      BY <1>3, <3>1, PolyGrows
    <3> QED
      BY <1>3, <1>4, <1>8, <3>2
  <2>3. publics.polygon = P
    BY <1>1 DEF OwnPublics
  <2>4. r.parity = 0
    <3>1. edge = MaxVertices - 1
      BY <1>2, <1>8
    <3>2. p \in Point /\ StrictlyOutside(vs, p) /\ ~ LevelWithEdge(vs, p)
      BY <1>1, EventIs
    <3>3. Crossings(P, p, MaxVertices - 1) % 2 = 0
      BY <1>1, <1>2, <3>2, EvenAround
    <3> QED
      BY <1>4, <3>1, <3>3
  <2> QED
    BY <1>4, <2>1, <2>2, <2>3, <2>4
<1>9. r.phase # 0 /\ r.output = Append(r.poly, r.a)
  BY <1>4
<1>10. C1EveryRow(r, publics)
  BY <1>5, <1>6, <1>7, <1>8, <1>9 DEF C1EveryRow
<1> QED
  BY <1>8, <1>10

\* The pairs of rows that are left: one less after each that is real.
LEMMA LeftOver ==
  ASSUME NEW pair \in Nat, NEW words \in Nat
  PROVE  words - Min({pair + 1, words}) = words - Min({pair, words}) - Bit(pair < words)
<1>1. /\ Min({pair, words}) = IF pair <= words THEN pair ELSE words
      /\ Min({pair + 1, words}) = IF pair + 1 <= words THEN pair + 1 ELSE words
  BY MinOfTwo
<1>2. CASE pair < words
  <2>1. Bit(pair < words) = 1
    BY <1>2 DEF Bit
  <2>2. Min({pair, words}) = pair /\ Min({pair + 1, words}) = pair + 1
    BY <1>1, <1>2
  <2> QED
    BY <2>1, <2>2
<1>3. CASE ~ pair < words
  <2>1. Bit(pair < words) = 0
    BY <1>3 DEF Bit
  <2>2. Min({pair, words}) = words /\ Min({pair + 1, words}) = words
    BY <1>1, <1>3
  <2> QED
    BY <2>1, <2>2
<1> QED
  BY <1>2, <1>3

\* From the first row of an edge to the second.
LEMMA WithinEdge ==
  ASSUME NEW lot, NEW e \in Nat, NEW edge \in 0 .. MaxVertices - 1,
         NEW r, r = C1Row(lot, RowOf(e, edge)), NEW s, s = C1Row(lot, RowOf(e, edge) + 1)
  PROVE  C1Transition(r, s)
<1>1. PICK pair, P, p : pair = e * MaxVertices + edge /\ P = C1Padded(lot.polygon)
                        /\ p = EventAt(lot, e).point
  OBVIOUS
<1>2. FirstOf(r, lot, e, edge, pair, P, p) /\ SecondOf(s, lot, e, edge, pair, P, p)
  BY <1>1, FirstPhase, SecondPhase
<1>3. pair \in Nat
  BY <1>1, RowIs
<1>4. /\ r.phase = 0 /\ s.phase = 1 /\ r.edge = edge /\ s.edge = edge /\ s.real = r.real
      /\ s.remaining = r.remaining /\ s.poly = r.poly /\ s.point = r.point /\ s.a = r.a
      /\ s.first = r.first
  BY ONLY <1>2 DEF FirstOf, SecondOf
<1>5. s.batch = r.output
  <2>1. s.batch = Words(lot, pair + 1) /\ r.output = Append(Words(lot, pair), WordAt(lot, pair))
    BY ONLY <1>2 DEF FirstOf, SecondOf
  <2> QED
    BY <1>3, <2>1, WordsGrow
<1>6. s.parity = (r.parity + Bit(r.cross)) % 2
  <2>1. PICK before, hit, after :
          /\ before = Crossings(P, p, edge - 1) /\ after = Crossings(P, p, edge)
          /\ hit = Bit(C1CrossesRight(p, P[edge + 1], After(P, edge + 1)))
    OBVIOUS
  <2>2. edge \in Nat
    OBVIOUS
  <2>3. after \in Nat /\ after = before + hit
    BY <2>1, <2>2, CrossingsGrow
  <2>4. before \in Nat
    <3>1. CASE edge = 0
      <4>1. edge - 1 = -1
        BY <3>1
      <4> QED
        BY <2>1, <4>1, CrossingsGrow
    <3>2. CASE edge # 0
      <4>1. edge - 1 \in Nat
        BY <3>2
      <4> QED
        BY <2>1, <4>1, CrossingsGrow
    <3> QED
      BY <3>1, <3>2
  <2>5. hit \in {0, 1}
    BY <2>1 DEF Bit
  <2>6. r.parity = before % 2 /\ s.parity = after % 2
        /\ (r.cross <=> C1CrossesRight(p, P[edge + 1], After(P, edge + 1)))
    BY ONLY <1>2, <2>1 DEF FirstOf, SecondOf
  <2>7. Bit(r.cross) = hit
    BY <2>1, <2>6 DEF Bit
  <2>8. ((before % 2) + hit) % 2 = (before + hit) % 2
    BY ONLY <2>4, <2>5
  <2> QED
    BY ONLY <2>3, <2>6, <2>7, <2>8
<1>7. C1ToSecondPhase(r, s)
  BY <1>4, <1>5, <1>6 DEF C1ToSecondPhase
<1> QED
  BY <1>4, <1>7 DEF C1Transition

\* From the second row of an edge to the first of the next, or of the next event.
LEMMA ToNextEdge ==
  ASSUME NEW lot, lot.polygon \in Seq(Point), Len(lot.polygon) \in 3 .. MaxVertices,
         Len(lot.events) \in Nat,
         NEW e \in Nat, NEW edge \in 0 .. MaxVertices - 1,
         NEW r, r = C1Row(lot, RowOf(e, edge) + 1), NEW s, s = C1Row(lot, RowOf(e, edge) + 2)
  PROVE  C1Transition(r, s)
<1>1. PICK pair, P, p : pair = e * MaxVertices + edge /\ P = C1Padded(lot.polygon)
                        /\ p = EventAt(lot, e).point
  OBVIOUS
<1>2. MaxVertices \in Nat /\ MaxVertices >= 3 /\ pair \in Nat /\ P \in Seq(Point) /\ Len(P) = MaxVertices
  <2>1. MaxVertices \in Nat /\ Len(lot.polygon) \in Nat
    BY GeofenceAssumption
  <2>2. pair \in Nat
    BY <1>1, RowIs
  <2>3. P \in Seq(Point) /\ Len(P) = MaxVertices
    BY <1>1, PaddedEdges
  <2> QED
    BY <2>1, <2>2, <2>3
<1>3. SecondOf(r, lot, e, edge, pair, P, p)
  BY <1>1, SecondPhase
<1>4. PICK words : words = Len(lot.events) * MaxVertices /\ words \in Nat
  BY <1>2
<1>5. /\ r.phase = 1 /\ r.edge = edge /\ r.last = (edge + 1 = MaxVertices) /\ r.first = P[1]
      /\ r.point = p /\ r.b = After(P, edge + 1) /\ r.real = (pair < words)
      /\ r.remaining = words - Min({pair, words}) /\ r.batch = Words(lot, pair + 1)
      /\ r.output = Append(SubSeq(P, 1, edge), P[edge + 1])
      /\ r.parity = Crossings(P, p, edge) % 2
  BY ONLY <1>3, <1>4 DEF SecondOf
\* What the next row is, whichever edge it is of.
<1>6. ASSUME NEW d \in Nat, NEW next_edge \in 0 .. MaxVertices - 1,
             d * MaxVertices + next_edge = pair + 1
      PROVE  /\ FirstOf(s, lot, d, next_edge, pair + 1, P, EventAt(lot, d).point)
             /\ s.phase = 0 /\ s.first = r.first /\ s.edge = next_edge
             /\ (s.real => r.real) /\ s.remaining = r.remaining - Bit(r.real) /\ s.batch = r.batch
             /\ s.poly = SubSeq(P, 1, next_edge) /\ s.point = EventAt(lot, d).point
             /\ s.a = P[next_edge + 1]
             /\ s.parity = Crossings(P, EventAt(lot, d).point, next_edge - 1) % 2
  <2>1. PICK q : q = EventAt(lot, d).point
    OBVIOUS
  <2>2. RowOf(d, next_edge) = RowOf(e, edge) + 2
    <3>1. RowOf(d, next_edge) = 2 * (pair + 1) /\ RowOf(e, edge) = 2 * pair
      BY <1>1, <1>6 DEF RowOf
    <3>2. 2 * (pair + 1) = 2 * pair + 2
      BY ONLY <1>2
    <3> QED
      BY <3>1, <3>2
  <2>3. FirstOf(s, lot, d, next_edge, d * MaxVertices + next_edge, C1Padded(lot.polygon),
                EventAt(lot, d).point)
    BY <2>2, FirstPhase
  <2>4. FirstOf(s, lot, d, next_edge, pair + 1, P, q)
    BY ONLY <1>1, <1>6, <2>1, <2>3
  <2>5. /\ s.phase = 0 /\ s.first = P[1] /\ s.edge = next_edge /\ s.real = (pair + 1 < words)
        /\ s.remaining = words - Min({pair + 1, words}) /\ s.batch = Words(lot, pair + 1)
        /\ s.poly = SubSeq(P, 1, next_edge) /\ s.point = q /\ s.a = P[next_edge + 1]
        /\ s.parity = Crossings(P, q, next_edge - 1) % 2
    BY ONLY <1>4, <2>4 DEF FirstOf
  <2>6. s.real => r.real
    <3>1. pair + 1 < words => pair < words
      BY <1>2, <1>4
    <3> QED
      BY <1>5, <2>5, <3>1, Zenon
  <2>7. s.remaining = r.remaining - Bit(r.real)
    <3>1. Bit(r.real) = Bit(pair < words)
      BY <1>5
    <3>2. words - Min({pair + 1, words}) = words - Min({pair, words}) - Bit(pair < words)
      BY <1>2, <1>4, LeftOver
    <3> QED
      BY ONLY <1>5, <2>5, <3>1, <3>2
  <2> QED
    BY ONLY <1>5, <2>1, <2>4, <2>5, <2>6, <2>7
<1>7. CASE edge + 1 = MaxVertices
  <2>1. PICK d : d = e + 1 /\ d \in Nat
    OBVIOUS
  <2>2. 0 \in 0 .. MaxVertices - 1 /\ d * MaxVertices + 0 = pair + 1
    <3>1. (e + 1) * MaxVertices = e * MaxVertices + MaxVertices /\ e * MaxVertices \in Nat
      BY ONLY <1>2, e \in Nat
    <3> QED
      BY <1>1, <1>2, <1>7, <2>1, <3>1
  <2>3. /\ s.phase = 0 /\ s.first = r.first /\ s.edge = 0
        /\ (s.real => r.real) /\ s.remaining = r.remaining - Bit(r.real) /\ s.batch = r.batch
        /\ s.poly = SubSeq(P, 1, 0)
        /\ s.parity = Crossings(P, EventAt(lot, d).point, 0 - 1) % 2
    BY <1>6, <2>1, <2>2
  <2>4. s.poly = <<>> /\ s.parity = 0
    <3>1. SubSeq(P, 1, 0) = <<>>
      <4>1. edge \in 0 .. Len(P) - 1
        BY <1>2
      <4> QED
        BY <1>2, <4>1, PolyGrows
    <3>2. 0 - 1 = -1 /\ Crossings(P, EventAt(lot, d).point, -1) = 0
      <4>1. edge \in Nat
        OBVIOUS
      <4>2. Crossings(P, EventAt(lot, d).point, -1) = 0
        BY <4>1, CrossingsGrow
      <4> QED
        BY <4>2
    <3>3. s.parity = 0 % 2
      BY <2>3, <3>2
    <3>4. 0 % 2 = 0
      OBVIOUS
    <3> QED
      BY <2>3, <3>1, <3>3, <3>4
  <2>5. r.last /\ Bit(r.last) = 1
    <3>1. r.last
      BY <1>5, <1>7, Zenon
    <3> QED
      BY <3>1 DEF Bit
  <2>6. s.edge = r.edge + 1 - Bit(r.last) * MaxVertices
    <3>1. edge + 1 - 1 * MaxVertices = 0
      BY <1>2, <1>7
    <3> QED
      BY ONLY <1>5, <2>3, <2>5, <3>1
  <2>7. C1ToNextEdge(r, s)
    BY <2>3, <2>4, <2>5, <2>6 DEF C1ToNextEdge
  <2>8. s.phase = 1 - r.phase /\ r.phase # 0
    BY <1>5, <2>3
  <2> QED
    BY <2>3, <2>7, <2>8 DEF C1Transition
<1>8. CASE edge + 1 # MaxVertices
  <2>1. PICK up : up = edge + 1 /\ up \in 0 .. MaxVertices - 1 /\ up - 1 = edge
    BY <1>2, <1>8
  <2>2. e * MaxVertices + up = pair + 1
    <3>1. e * MaxVertices \in Nat
      BY ONLY <1>2, e \in Nat
    <3> QED
      BY <1>1, <2>1, <3>1
  <2>3. /\ s.phase = 0 /\ s.first = r.first /\ s.edge = up
        /\ (s.real => r.real) /\ s.remaining = r.remaining - Bit(r.real) /\ s.batch = r.batch
        /\ s.poly = SubSeq(P, 1, up) /\ s.point = p /\ s.a = P[up + 1]
        /\ s.parity = Crossings(P, p, up - 1) % 2
    BY <1>1, <1>6, <2>1, <2>2
  <2>4. ~ r.last /\ Bit(r.last) = 0
    <3>1. ~ r.last
      BY <1>5, <1>8, Zenon
    <3> QED
      BY <3>1 DEF Bit
  <2>5. s.edge = r.edge + 1 - Bit(r.last) * MaxVertices
    <3>1. edge + 1 - 0 * MaxVertices = up
      BY <1>2, <2>1
    <3> QED
      BY ONLY <1>5, <2>3, <2>4, <3>1
  <2>6. s.poly = r.output
    <3>1. edge \in 0 .. Len(P) - 1
      BY <1>2
    <3>2. Append(SubSeq(P, 1, edge), P[edge + 1]) = SubSeq(P, 1, edge + 1)
      BY <1>2, <3>1, PolyGrows
    <3> QED
      BY <1>5, <2>1, <2>3, <3>2
  <2>7. s.a = r.b
    <3>1. up % MaxVertices = up
      <4>1. MaxVertices \in Nat
        BY GeofenceAssumption
      <4> QED
        BY ONLY <2>1, <4>1, ModOfSmall
    <3>2. After(P, up) = P[(up % MaxVertices) + 1]
      BY <1>2 DEF After
    <3> QED
      BY <1>5, <2>1, <2>3, <3>1, <3>2
  <2>8. s.parity = r.parity /\ s.point = r.point
    BY <1>5, <2>1, <2>3
  <2>9. C1ToNextEdge(r, s)
    BY <2>3, <2>4, <2>5, <2>6, <2>7, <2>8 DEF C1ToNextEdge
  <2>10. s.phase = 1 - r.phase /\ r.phase # 0
    BY <1>5, <2>3
  <2> QED
    BY <2>3, <2>9, <2>10 DEF C1Transition
<1> QED
  BY <1>7, <1>8

\* A row of the trace is the first or the second of an edge of an event.
LEMMA RowHasPlace ==
  ASSUME NEW h \in Nat, MaxVertices > 0, NEW row \in 0 .. (h * MaxVertices) * 2 - 1
  PROVE  \E e \in 0 .. h - 1 : \E edge \in 0 .. MaxVertices - 1 :
           row = RowOf(e, edge) \/ row = RowOf(e, edge) + 1
<1>1. MaxVertices \in Nat /\ h * MaxVertices \in Nat /\ row \in Nat
  BY GeofenceAssumption
<1>2. PICK pair, ph : pair = row \div 2 /\ ph = row % 2 /\ pair \in Nat /\ ph \in {0, 1}
                      /\ row = 2 * pair + ph
  BY <1>1
<1>3. pair < h * MaxVertices
  BY <1>1, <1>2
<1>4. PICK e, edge : e = pair \div MaxVertices /\ edge = pair % MaxVertices
                     /\ e \in 0 .. h - 1 /\ edge \in 0 .. MaxVertices - 1
  BY <1>1, <1>2, <1>3, DivBound
<1>5. pair = e * MaxVertices + edge
  <2>1. pair \in Nat /\ MaxVertices \in Nat /\ MaxVertices > 0
    BY <1>1, <1>2
  <2>2. pair = MaxVertices * (pair \div MaxVertices) + (pair % MaxVertices)
    BY ONLY <2>1
  <2>3. e \in Int
    BY <1>4
  <2>4. MaxVertices * e = e * MaxVertices
    BY ONLY <2>1, <2>3
  <2> QED
    BY <1>4, <2>2, <2>4
<1>6. row = RowOf(e, edge) \/ row = RowOf(e, edge) + 1
  BY <1>2, <1>5 DEF RowOf
<1> QED
  BY <1>4, <1>6

\* The first row of the trace starts everything.
LEMMA C1Starts ==
  ASSUME NEW lot, SafeLot(lot), NEW publics, OwnPublics(lot, publics), NEW r, r = C1Row(lot, 0)
  PROVE  C1FirstRow(r, publics)
<1>1. PICK P, p : P = C1Padded(lot.polygon) /\ p = EventAt(lot, 0).point
  OBVIOUS
<1>2. MaxVertices \in Nat /\ MaxVertices >= 3 /\ P \in Seq(Point) /\ Len(P) = MaxVertices
  <2>1. MaxVertices \in Nat /\ Len(lot.polygon) \in Nat
    BY GeofenceAssumption DEF SafeLot
  <2>2. P \in Seq(Point) /\ Len(P) = MaxVertices
    BY <1>1, PaddedEdges DEF SafeLot
  <2>3. Len(lot.polygon) \in 3 .. MaxVertices
    BY DEF SafeLot
  <2> QED
    BY <2>1, <2>2, <2>3
<1>3. PICK n, words : n = Len(lot.events) /\ n \in Nat /\ n > 0 /\ words = n * MaxVertices
                      /\ words \in Nat /\ words > 0
  <2>1. Len(lot.events) \in Nat /\ Len(lot.events) > 0
    BY DEF SafeLot
  <2>2. Len(lot.events) * MaxVertices \in Nat /\ Len(lot.events) * MaxVertices > 0
    BY ONLY <1>2, <2>1
  <2> QED
    BY <2>1, <2>2
<1>4. FirstOf(r, lot, 0, 0, 0, P, p)
  <2>1. 0 \in Nat /\ 0 \in 0 .. MaxVertices - 1
    BY <1>2
  <2>2. FirstOf(C1Row(lot, RowOf(0, 0)), lot, 0, 0, 0 * MaxVertices + 0, P, p)
    BY <1>1, <2>1, FirstPhase
  <2>3. 0 * MaxVertices + 0 = 0 /\ 2 * (0 * MaxVertices + 0) = 0
    BY ONLY <1>2
  <2>4. RowOf(0, 0) = 0
    BY <2>3 DEF RowOf
  <2> QED
    BY <2>2, <2>3, <2>4
<1>5. /\ r.phase = 0 /\ r.edge = 0 /\ r.a = P[0 + 1] /\ r.first = P[1]
      /\ r.real = (0 < words) /\ r.remaining = words - Min({0, words})
      /\ r.batch = Words(lot, 0) /\ r.poly = SubSeq(P, 1, 0)
      /\ r.parity = Crossings(P, p, 0 - 1) % 2
  BY ONLY <1>3, <1>4 DEF FirstOf
<1>6. r.real
  BY <1>3, <1>5, Zenon
<1>7. r.remaining = publics.count * MaxVertices
  <2>1. Min({0, words}) = 0
    BY <1>3, MinOfTwo
  <2>2. r.remaining = words
    BY <1>3, <1>5, <2>1
  <2> QED
    BY <1>3, <2>2 DEF OwnPublics
<1>8. r.batch = <<>>
  BY <1>5 DEF Words
<1>9. r.poly = <<>>
  <2>1. 0 \in 0 .. Len(P) - 1
    BY <1>2
  <2> QED
    BY <1>2, <1>5, <2>1, PolyGrows
<1>10. r.parity = 0
  <2>1. 0 \in Nat /\ 0 - 1 = -1
    OBVIOUS
  <2>2. Crossings(P, p, -1) = 0
    BY <2>1, CrossingsGrow
  <2>3. r.parity = 0 % 2
    BY <1>5, <2>1, <2>2
  <2>4. 0 % 2 = 0
    OBVIOUS
  <2> QED
    BY <2>3, <2>4
<1>11. r.first = r.a
  BY <1>5
<1> QED
  BY <1>5, <1>6, <1>7, <1>8, <1>9, <1>10, <1>11 DEF C1FirstRow

\* The last row of the trace closes everything.
LEMMA C1Ends ==
  ASSUME NEW lot, SafeLot(lot), NEW publics, OwnPublics(lot, publics),
         NEW r, r = C1Row(lot, C1Height(Len(lot.events)) - 1)
  PROVE  C1LastRow(r, publics)
<1>1. PICK P, n, h, e, edge, pair, p :
        /\ P = C1Padded(lot.polygon) /\ n = Len(lot.events) /\ h = NextPowerOfTwo(n)
        /\ e = h - 1 /\ edge = MaxVertices - 1 /\ pair = e * MaxVertices + edge
        /\ p = EventAt(lot, e).point
  OBVIOUS
<1>2. MaxVertices \in Nat /\ MaxVertices >= 3
  <2>1. Len(lot.polygon) \in Nat /\ Len(lot.polygon) \in 3 .. MaxVertices
    BY GeofenceAssumption DEF SafeLot
  <2> QED
    BY <2>1, GeofenceAssumption
<1>3. n \in Nat /\ n > 0 /\ h \in Nat /\ h >= n
  <2>1. n \in Nat /\ n > 0
    BY <1>1 DEF SafeLot
  <2> QED
    BY <1>1, <2>1, PowerFits
<1>4. /\ e \in Nat /\ e + 1 = h
      /\ edge \in 0 .. MaxVertices - 1 /\ edge + 1 = MaxVertices
  <2>1. e = h - 1 /\ edge = MaxVertices - 1
    BY ONLY <1>1, Zenon
  <2> QED
    BY ONLY <1>2, <1>3, <2>1
<1>5. pair \in Nat /\ pair + 1 = h * MaxVertices
  <2>1. PICK m, l : m = e * MaxVertices /\ l = (e + 1) * MaxVertices
    OBVIOUS
  <2>2. m \in Nat /\ l = m + MaxVertices
    BY <1>2, <1>4, <2>1, Products
  <2>3. pair = m + edge /\ l = h * MaxVertices
    BY ONLY <1>1, <1>4, <2>1, Zenon
  <2>4. pair \in Nat /\ pair + 1 = l
    BY ONLY <1>2, <1>4, <2>2, <2>3
  <2> QED
    BY ONLY <2>3, <2>4
<1>6. C1Height(n) - 1 = RowOf(e, edge) + 1
  <2>1. C1Height(n) = (h * MaxVertices) * 2
    BY <1>1 DEF C1Height
  <2>2. RowOf(e, edge) = 2 * pair
    BY <1>1 DEF RowOf
  <2>3. (pair + 1) * 2 - 1 = 2 * pair + 1
    BY <1>5
  <2> QED
    BY <1>5, <2>1, <2>2, <2>3
<1>7. SecondOf(r, lot, e, edge, pair, P, p)
  <2>1. SecondOf(C1Row(lot, RowOf(e, edge) + 1), lot, e, edge, e * MaxVertices + edge,
                 C1Padded(lot.polygon), EventAt(lot, e).point)
    BY <1>4, SecondPhase
  <2> QED
    BY <1>1, <1>6, <2>1
<1>8. PICK words : words = n * MaxVertices /\ words \in Nat
  BY <1>2, <1>3
<1>9. /\ r.phase = 1 /\ r.last = (edge + 1 = MaxVertices) /\ r.real = (pair < words)
      /\ r.remaining = words - Min({pair, words})
  BY ONLY <1>1, <1>7, <1>8 DEF SecondOf
<1>10. r.last
  BY <1>4, <1>9, Zenon
<1>11. r.parity = 0
  BY <1>1, <1>4, <1>6, SecondPhaseHolds
<1>12. r.remaining = Bit(r.real)
  <2>1. words <= pair + 1
    <3>1. \A x, y, z \in Nat : x <= y => x * z <= y * z
      OBVIOUS
    <3> QED
      BY <1>2, <1>3, <1>5, <1>8, <3>1
  <2>2. Bit(r.real) = Bit(pair < words)
    BY <1>9
  <2>3. Min({pair, words}) = IF pair <= words THEN pair ELSE words
    BY <1>5, <1>8, MinOfTwo
  <2>4. CASE pair < words
    <3>1. Bit(pair < words) = 1 /\ words - Min({pair, words}) = 1
      BY <1>5, <1>8, <2>1, <2>3, <2>4 DEF Bit
    <3> QED
      BY <1>9, <2>2, <3>1
  <2>5. CASE ~ pair < words
    <3>1. Bit(pair < words) = 0
      BY <2>5 DEF Bit
    <3>2. words - Min({pair, words}) = 0
      BY <1>5, <1>8, <2>3, <2>5
    <3> QED
      BY <1>9, <2>2, <3>1, <3>2
  <2> QED
    BY <2>4, <2>5
<1>13. r.batch = publics.events
  BY <1>1 DEF OwnPublics
<1> QED
  BY <1>9, <1>10, <1>11, <1>12, <1>13 DEF C1LastRow

\* A lot in the box and strictly outside, none of its points level with an edge,
\* has a witness of C1, and every row of its trace holds.
LEMMA CompleteC1 ==
  ASSUME job \in Jobs, job.circuit = "C1", Statement, ~ Level
  PROVE  /\ HasWitness
         /\ trace = TraceAndPublics[1] /\ pis = TraceAndPublics[2] =>
              \A i \in 1 .. Len(trace) : Holds(i)
<1>1. PICK lot, n : lot = job.lot /\ n = Len(lot.events)
  OBVIOUS
<1>2. /\ lot.polygon \in Seq(Point) /\ SimplePolygon(lot.polygon)
      /\ lot.events \in Seq([id : Int, point : Point])
  BY <1>1, E1ProverAssumption
<1>3. /\ job.tamper = "none" /\ n \in MinLotEvents .. MaxLotEvents
      /\ \A i \in DOMAIN lot.events : InBounds(lot.events[i].point)
      /\ AllOutside(lot)
  BY <1>1 DEF Statement
<1>4. n \in Nat /\ n > 0 /\ DOMAIN lot.events = 1 .. n
  <2>1. PICK events : events = lot.events /\ events \in Seq([id : Int, point : Point])
    BY <1>2
  <2>2. DOMAIN events = 1 .. Len(events) /\ Len(events) \in Nat
    BY <2>1
  <2> QED
    BY <1>1, <1>3, <2>1, <2>2, LotLengthAssumption
<1>5. HasWitness
  BY <1>1, <1>3, <1>4 DEF HasWitness, C1Witness
<1>6. SUFFICES ASSUME trace = TraceAndPublics[1], pis = TraceAndPublics[2],
                      NEW i \in 1 .. Len(trace)
               PROVE  Holds(i)
  BY <1>5
<1>7. SafeLot(lot)
  <2>1. Len(lot.polygon) \in 3 .. MaxVertices /\ \A k \in 1 .. Len(lot.polygon) : InBounds(lot.polygon[k])
    BY <1>2 DEF SimplePolygon
  <2>2. \A k \in 1 .. n : /\ InBounds(lot.events[k].point)
                          /\ StrictlyOutside(lot.polygon, lot.events[k].point)
                          /\ ~ LevelWithEdge(lot.polygon, lot.events[k].point)
    BY <1>1, <1>3, <1>4 DEF AllOutside, Level
  <2> QED
    BY <1>1, <1>2, <1>4, <2>1, <2>2 DEF SafeLot
<1>8. trace = C1Trace(lot) /\ OwnPublics(lot, pis)
  <2>1. trace = C1Trace(lot) /\ pis = C1Publics(lot)
    BY <1>1, <1>3, <1>6 DEF TraceAndPublics, SpoiltC1
  <2> QED
    BY <2>1 DEF OwnPublics, C1Publics
<1>9. PICK h, height : h = NextPowerOfTwo(n) /\ height = C1Height(n) /\ h \in Nat /\ h >= n
                       /\ height = (h * MaxVertices) * 2 /\ height \in Nat
  <2>1. NextPowerOfTwo(n) \in Nat /\ NextPowerOfTwo(n) >= n
    BY <1>4, PowerFits
  <2>2. (NextPowerOfTwo(n) * MaxVertices) * 2 \in Nat
    BY <2>1, GeofenceAssumption
  <2> QED
    BY <2>1, <2>2 DEF C1Height
<1>10. Len(trace) = height /\ \A k \in 1 .. height : trace[k] = C1Row(lot, k - 1)
  <2>1. trace = [k \in 1 .. height |-> C1Row(lot, k - 1)]
    BY <1>1, <1>8, <1>9 DEF C1Trace
  <2> QED
    BY <1>9, <2>1
<1>11. MaxVertices \in Nat /\ MaxVertices > 0 /\ Len(lot.polygon) \in 3 .. MaxVertices
  <2>1. Len(lot.polygon) \in Nat /\ Len(lot.polygon) \in 3 .. MaxVertices
    BY <1>2 DEF SimplePolygon
  <2> QED
    BY <2>1, GeofenceAssumption
\* The place of the row among the events and edges.
<1>12. PICK row, e, edge :
         /\ row = i - 1 /\ i = row + 1 /\ row \in 0 .. height - 1
         /\ e \in Nat /\ edge \in 0 .. MaxVertices - 1
         /\ row = RowOf(e, edge) \/ row = RowOf(e, edge) + 1
  <2>1. PICK row : row = i - 1 /\ i = row + 1 /\ row \in 0 .. height - 1
    BY <1>9, <1>10
  <2>2. PICK e \in 0 .. h - 1, edge \in 0 .. MaxVertices - 1 :
          row = RowOf(e, edge) \/ row = RowOf(e, edge) + 1
    <3>1. row \in 0 .. (h * MaxVertices) * 2 - 1
      BY <1>9, <2>1
    <3>2. h \in Nat /\ MaxVertices > 0
      BY <1>9, <1>11
    <3> QED
      BY ONLY <3>1, <3>2, RowHasPlace
  <2>3. e \in Nat
    BY <1>9
  <2> QED
    BY <2>1, <2>2, <2>3
<1>13. i \in 1 .. height /\ trace[i] = C1Row(lot, row)
  BY <1>10, <1>12
<1>14. C1EveryRow(trace[i], pis)
  <2>1. CASE row = RowOf(e, edge)
    BY <1>7, <1>12, <1>13, <2>1, FirstPhaseHolds
  <2>2. CASE row = RowOf(e, edge) + 1
    BY <1>7, <1>8, <1>12, <1>13, <2>2, SecondPhaseHolds
  <2> QED
    BY <1>12, <2>1, <2>2
<1>15. ASSUME i = 1 PROVE C1FirstRow(trace[i], pis)
  <2>1. row = 0
    BY <1>12, <1>15
  <2> QED
    BY <1>7, <1>8, <1>13, <2>1, C1Starts
<1>16. ASSUME i < height PROVE C1Transition(trace[i], trace[i + 1])
  <2>1. trace[i + 1] = C1Row(lot, row + 1)
    <3>1. i + 1 \in 1 .. height /\ (i + 1) - 1 = row + 1
      BY <1>9, <1>12, <1>13, <1>16
    <3> QED
      BY <1>10, <3>1
  <2>2. CASE row = RowOf(e, edge)
    BY <1>12, <1>13, <2>1, <2>2, WithinEdge
  <2>3. CASE row = RowOf(e, edge) + 1
    <3>1. row + 1 = RowOf(e, edge) + 2
      <4>1. e * MaxVertices \in Nat
        BY ONLY <1>11, <1>12
      <4>2. RowOf(e, edge) \in Nat
        BY <1>12, <4>1 DEF RowOf
      <4> QED
        BY <2>3, <4>2
    <3> QED
      BY <1>1, <1>2, <1>4, <1>11, <1>12, <1>13, <2>1, <2>3, <3>1, ToNextEdge
  <2> QED
    BY <1>12, <2>2, <2>3
<1>17. ASSUME ~ i < height PROVE C1LastRow(trace[i], pis)
  <2>1. row = height - 1
    BY <1>9, <1>12, <1>17
  <2> QED
    BY <1>1, <1>7, <1>8, <1>9, <1>13, <2>1, C1Ends
<1>18. RowHolds(trace[i], i = 1)
  BY <1>14, <1>15 DEF RowHolds
<1>19. IF i < height THEN TransitionHolds(trace[i], trace[i + 1]) ELSE LastHolds(trace[i])
  BY <1>16, <1>17 DEF TransitionHolds, LastHolds
<1> QED
  BY <1>10, <1>18, <1>19 DEF Holds

-----------------------------------------------------------------------------
(* The prover: its theorem on true statements.                               *)

\* Whatever has failed has no witness or a row that does not hold.
LEMMA FailInductive == ProverSpec => []FailInv
<1>1. ProverInit => FailInv
  BY DEF ProverInit, FailInv, ProverInv
<1> QED
  BY <1>1, FailKeeps, PTL DEF ProverSpec

\* A lot, an event, an actor or a nullifier of which the statement is true is
\* proved, whatever its length, but a point of C1 level with an edge: the builder
\* finds a witness and no row refuses it (prove_and_verify, templates.rs).
THEOREM AllTrueProved == ProverSpec => []TrueIsProved
<1>1. FailInv => TrueIsProved
  <2> SUFFICES ASSUME FailInv, phase = "failed", Statement, ~ (job.circuit = "C1" /\ Level)
               PROVE  FALSE
    BY DEF TrueIsProved
  <2>1. job \in Jobs
    BY DEF FailInv, ProverInv
  <2>2. job.circuit \in {"C1", "C2", "C3", "C4", "C5"}
    <3>1. DOMAIN Tampers = {"C1", "C2", "C3", "C4", "C5"}
      BY DEF Tampers
    <3> QED
      BY <2>1, <3>1, E1ProverAssumption
  <2>3. /\ HasWitness
        /\ trace = TraceAndPublics[1] /\ pis = TraceAndPublics[2] =>
             \A i \in 1 .. Len(trace) : Holds(i)
    <3>1. CASE job.circuit = "C1"
      BY <2>1, <3>1, CompleteC1
    <3>2. CASE job.circuit = "C2"
      BY <2>1, <3>2, CompleteC2
    <3>3. CASE job.circuit = "C3"
      BY <2>1, <3>3, CompleteC3
    <3>4. CASE job.circuit = "C4"
      BY <2>1, <3>4, CompleteC4
    <3>5. CASE job.circuit = "C5"
      BY <2>1, <3>5, CompleteC5
    <3> QED
      BY <2>2, <3>1, <3>2, <3>3, <3>4, <3>5
  <2> QED
    BY <2>3 DEF FailInv
<1> QED
  BY <1>1, FailInductive, PTL

=============================================================================
