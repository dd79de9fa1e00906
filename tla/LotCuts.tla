------------------------------- MODULE LotCuts -------------------------------
(***************************************************************************)
(* How the events of an epoch become lots that a policy proof can take.    *)
(* The E4 host cuts them into shipments and those into leaves; the         *)
(* synthetic E2 benchmark draws the sizes of its lots.  Only sizes matter. *)
(***************************************************************************)
EXTENDS Integers, Sequences

CONSTANTS
  MinEvents, MaxEvents,  \* of a lot: 8 and 64
  Shipments,             \* the sizes --shipment may have: 16, 32, 64, 128
  Arrivals               \* the numbers of events offered

\* A lot can be split in two, and a shipment can lend a lot's worth of events
\* and still be one.
ASSUME CutsAssumption ==
  /\ MinEvents \in Nat \ {0} /\ MaxEvents \in Nat /\ 2 * MinEvents <= MaxEvents + 1
  /\ Shipments \subseteq Nat /\ \A shipment \in Shipments : shipment + 1 >= 2 * MinEvents
  /\ Arrivals \subseteq Nat

VARIABLE plan  \* see Planned; shipment 0 is the synthetic benchmark

\* What is still to cut and the last lot; open and cut are history.
Planned(total, shipment, todo) ==
  [total |-> total, shipment |-> shipment,
   todo |-> todo,    \* sizes of the shipments still to cut, the first in part
   lot |-> 0,        \* size of the last lot
   ends |-> FALSE,   \* it is the last one of its shipment
   open |-> 0,       \* events of the last lot's shipment up to it
   cut |-> 0,        \* events in lots
   failed |-> FALSE]

\* Mutant: a short tail is a shipment of its own.
SizesWithShortTail(events, shipment) ==
  LET tail == events % shipment
  IN [i \in 1 .. events \div shipment |-> shipment]
       \o (IF tail > 0 THEN <<tail>> ELSE <<>>)

\* shipment_sizes: a tail that is too short borrows from the last shipment.
ShipmentSizes(events, shipment) ==
  LET whole == [i \in 1 .. events \div shipment |-> shipment]
      tail == events % shipment
  IN CASE tail >= MinEvents -> Append(whole, tail)
       [] tail \in 1 .. MinEvents - 1 /\ whole # <<>> ->
            Append([whole EXCEPT ![Len(whole)] = @ - (MinEvents - tail)], MinEvents)
       [] OTHER -> whole

\* An epoch with fewer events than one lot is refused; the benchmark has none.
CutsInit ==
  \E total \in {n \in Arrivals : n >= MinEvents} :
    \/ plan = Planned(total, 0, <<total>>)
    \/ \E shipment \in Shipments :
         plan = Planned(total, shipment, ShipmentSizes(total, shipment))

Cut(size) ==
  LET todo == plan.todo
      ends == size = todo[1]
      open == (IF plan.ends THEN 0 ELSE plan.open) + size
  IN plan' = [plan EXCEPT
       !.todo = IF ends THEN Tail(todo) ELSE [todo EXCEPT ![1] = @ - size],
       !.lot = size, !.ends = ends, !.open = open, !.cut = @ + size]

\* schedule: one leaf.
CutLeaf ==
  LET remaining == plan.todo[1]
      size == IF remaining <= MaxEvents THEN remaining
              ELSE IF remaining - MinEvents < MaxEvents THEN remaining - MinEvents
              ELSE MaxEvents
  IN /\ plan.shipment # 0
     /\ IF size < MinEvents THEN plan' = [plan EXCEPT !.failed = TRUE]
                            ELSE Cut(size)

\* accumulate_lots: one lot, of the drawn size unless that leaves too few.
CutLot ==
  LET remaining == plan.todo[1]
  IN /\ plan.shipment = 0
     /\ \E target \in IF remaining <= MaxEvents THEN {remaining}
                                                ELSE MinEvents .. MaxEvents :
          LET tail == remaining - target
          IN Cut(IF tail \in 1 .. MinEvents - 1 THEN target - (MinEvents - tail)
                                                ELSE target)

CutsNext ==
  /\ plan.todo # <<>> /\ ~ plan.failed
  /\ CutLeaf \/ CutLot

CutsSpec == CutsInit /\ [][CutsNext]_plan

-----------------------------------------------------------------------------

\* The events of a list of shipments.
EventsIn(sizes) ==
  LET sum[i \in 0 .. Len(sizes)] == IF i = 0 THEN 0 ELSE sum[i - 1] + sizes[i]
  IN sum[Len(sizes)]

\* Whatever the number of events, all of them are in lots of a size that a
\* policy proof takes, no split fails, and the lots of a shipment are together
\* no more than a shipment and no less than the smallest lot.
LotsFit ==
  /\ ~ plan.failed
  /\ plan.cut > 0 => plan.lot \in MinEvents .. MaxEvents
  /\ plan.cut + EventsIn(plan.todo) = plan.total
  /\ plan.ends /\ plan.shipment # 0 => plan.open \in MinEvents .. plan.shipment

=============================================================================
