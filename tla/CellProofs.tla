----------------------------- MODULE CellProofs -----------------------------
(***************************************************************************)
(* Proofs about what a cell of E3 and E4 is made of.                       *)
(*                                                                         *)
(* OrderedIngest, for any schedule, number of workers, window and queue:   *)
(* the types, and the safety of what the runs check.                       *)
(*                                                                         *)
(* LotCuts, for any bounds that leave room to split a lot: every lot fits. *)
(*                                                                         *)
(* GeofenceWalk, for any polygons: the order of the vertices does not      *)
(* matter, and outside changes exactly where the boundary is crossed.      *)
(***************************************************************************)
EXTENDS OrderedIngest, LotCuts, GeofenceWalk, FiniteSetTheorems, SequenceTheorems, TLAPS

\* The worker of a leaf.
Owner(i) == i % NumWorkers

\* The leaves in the results channel, and those of them that are acknowledged.
ResultLeaves == {results[k].index : k \in DOMAIN results}
OkLeaves == {results[k].index : k \in {j \in DOMAIN results : results[j].ok}}

\* The collector has put the leaf into the queue.
Handed(i) == i < next \/ (i = next /\ collector = "end")

\* The leaf's worker is past it, or at it and at one of the places.
SentBy(i, places) ==
  \/ i < at[Owner(i)]
  \/ i = at[Owner(i)] /\ pc[Owner(i)] \in places

\* The consumer works on a message.
MessageOK == consumer = "work" => message \in Messages

\* Where the threads are, and what they have stored, agree.
ControlInv ==
  /\ config \in Configs
  /\ released = next
  /\ collector = "receive" => next \notin ready
  /\ collector = "end" => next \in EpochEnds
  /\ collector = "returned" => WorkersDone
  /\ collector = "returned" <=> produced # "running"
  /\ consumer = "done" => collector = "returned"
  /\ status # "running" <=> consumer = "done"

\* The run has a reason to stop early.
Excused == expired \/ faults # {}

\* A flag is set, and a thread ends, because of the deadline, a failure or the
\* end of the schedule.
CauseInv ==
  /\ stop => Excused \/ ~ Collecting
  /\ ~ QueueOpen => Excused \/ collector = "returned"
  /\ ~ Collecting => next = Total \/ Excused
  /\ failed => faults # {}
  /\ \A k \in DOMAIN results : ~ results[k].ok => faults # {}
  /\ \A w \in WorkerIds : pc[w] = "failed" => faults # {}
  /\ reason => faults # {}
  /\ saturated => expired
  /\ produced = "error" => faults # {}
  /\ produced = "ok" => next = Total \/ expired

\* The consumer's failures give it a reason, and a leaf that could not be posted
\* holds its worker for good.
FaultInv ==
  /\ \/ faults \subseteq {"fabric"}
     \/ reason /\ faults \subseteq {"fabric", "anchoring"}
  /\ "fabric" \in faults =>
       \E w \in WorkerIds : pc[w] \in {"failed", "done"} /\ at[w] \notin posted

\* A worker keeps to its own leaves and, past the window, within the window; it
\* sends only what it posted.  What is posted its worker has got past posting.
WorkerInv ==
  /\ \A w \in WorkerIds :
       /\ Owner(at[w]) = w
       /\ pc[w] \in {"due", "posting", "posted", "failed", "sending"}
            => at[w] < next + Window
       /\ pc[w] = "posted" => at[w] \in posted \/ stop
       /\ pc[w] = "sending" => at[w] \in posted
  /\ \A i \in posted :
       i < next + Window /\ SentBy(i, {"posted", "sending", "done"})

\* What is on its way to the collector, or waits there for its turn, is not yet
\* handed on, within the window, and sent by its worker.
WaitingInv ==
  \A i \in ResultLeaves \cup ready :
    next <= i /\ i < next + Window /\ ~ Handed(i) /\ SentBy(i, {"done"})

\* What is handed on was sent and is posted.
HandedInv ==
  \A i \in LeafIndexes : Handed(i) => SentBy(i, {"done"}) /\ i \in posted

\* No leaf is twice on its way, and what is acknowledged is posted.
OnceInv ==
  /\ \A j, k \in DOMAIN results : results[j].index = results[k].index => j = k
  /\ ResultLeaves \cap ready = {}
  /\ ready \cup OkLeaves \subseteq posted

Arrived(i) == Handed(i) \/ i \in ready \cup OkLeaves

\* Until something stops the run no leaf is lost: what a worker is past is in the
\* channel, in the collector's map or handed on, and a worker leaves its loop
\* only after its last leaf.
ArrivedInv ==
  Collecting /\ ~ Excused =>
    /\ \A i \in LeafIndexes : i < at[Owner(i)] => Arrived(i)
    /\ \A w \in WorkerIds :
         pc[w] = "done" => Arrived(at[w]) /\ at[w] + NumWorkers >= Total

\* The message the collector will send next.
Due == IF collector = "end" THEN EpochEnd(next) ELSE Leaf(next)

\* As long as the consumer listens, what it has handled, works on and has still
\* to receive, with what is due after it, is the schedule.
StreamInv ==
  /\ QueueOpen => InOrder(Append(Stream, Due))
  /\ ~ QueueOpen => queue = <<>> /\ InOrder(handled)

\* Nothing was left in the queue when the consumer found it closed.
Drained == collector = "returned" /\ InOrder(Append(handled, Leaf(next)))

\* A consumer that left its loop did so for a reason, at the deadline or drained.
EndInv == ~ QueueOpen => reason \/ saturated \/ Drained

\* The message handled last, how many leaves and which epochs are handled.
Last == handled[Len(handled)]
LeavesHandled == IF handled = <<>> THEN 0 ELSE Last.index + 1
EndsHandled ==
  {e \in EpochEnds : e < LeavesHandled - 1
                     \/ (e = LeavesHandled - 1 /\ Last.kind = "epochEnd")}

\* The counts are those of what was handled, and the epoch after its last leaf
\* is always fit to be closed.
CountInv ==
  /\ committed + pending = LeavesHandled
  /\ epochs = Cardinality(EndsHandled)
  /\ handled = <<>> \/ Last.kind = "epochEnd" \/ config.mode = "vecro"
       => pending = 0
  /\ handled # <<>> /\ Last.kind = "leaf" =>
       /\ config.mode = "proposed" => pending > 0
       /\ config.mode = "baseline" /\ Last.index \in ShipmentEnds => pending = 0

\* The inductive invariant.
IInv ==
  /\ TypeOK /\ MessageOK /\ ControlInv /\ CauseInv /\ FaultInv /\ WorkerInv
  /\ WaitingInv /\ HandedInv /\ OnceInv /\ ArrivedInv
  /\ StreamInv /\ EndInv /\ CountInv /\ OnFabric /\ HonestStatus
-----------------------------------------------------------------------------
(* Arithmetic: the leaves of a worker are the ones of its residue class.     *)

\* Numbers that are n apart have the same remainder.
LEMMA RemainderOfSum ==
  ASSUME NEW n \in Nat \ {0}, NEW a \in Nat
  PROVE  (a + n) % n = a % n
<1> DEFINE p == a \div n
           q == (a + n) \div n
           r == a % n
           s == (a + n) % n
<1>1. p \in Nat /\ r \in 0 .. n - 1 /\ a = n * p + r
  OBVIOUS
<1>2. q \in Nat /\ s \in 0 .. n - 1 /\ a + n = n * q + s
  OBVIOUS
<1> HIDE DEF p, q, r, s
<1>3. n * (p + 1) + r = n * q + s
  BY <1>1, <1>2
<1>4. CASE q < p + 1
  <2>1. n * (q + 1) <= n * (p + 1)
    BY <1>1, <1>2, <1>4
  <2> QED
    BY <2>1, <1>1, <1>2, <1>3
<1>5. CASE q > p + 1
  <2>1. n * (p + 2) <= n * q
    BY <1>1, <1>2, <1>5
  <2> QED
    BY <2>1, <1>1, <1>2, <1>3
<1>6. CASE q = p + 1
  BY <1>6, <1>1, <1>2, <1>3 DEF r, s
<1> QED
  BY <1>4, <1>5, <1>6, <1>1, <1>2

\* Different numbers with the same remainder are at least n apart.
LEMMA RemainderGap ==
  ASSUME NEW n \in Nat \ {0}, NEW a \in Nat, NEW b \in Nat, a % n = b % n, a < b
  PROVE  a + n <= b
<1> DEFINE p == a \div n
           q == b \div n
<1>1. p \in Nat /\ a % n \in 0 .. n - 1 /\ a = n * p + (a % n)
  OBVIOUS
<1>2. q \in Nat /\ b % n \in 0 .. n - 1 /\ b = n * q + (b % n)
  OBVIOUS
<1> HIDE DEF p, q
<1>3. p < q
  <2>1. n * p < n * q
    BY <1>1, <1>2
  <2> QED
    BY <2>1, <1>1, <1>2
<1>4. n * (p + 1) <= n * q
  BY <1>1, <1>2, <1>3
<1> QED
  BY <1>1, <1>2, <1>4

\* There is a worker, none without a leaf, and each leaf has one owner: the
\* next assignment of a worker is its own again, and no leaf between two of them
\* is.
LEMMA Owners ==
  /\ NumWorkers \in Nat \ {0} /\ NumWorkers <= Total /\ WorkerIds \subseteq LeafIndexes
  /\ \A i \in Nat : Owner(i) \in WorkerIds /\ Owner(i + NumWorkers) = Owner(i)
  /\ \A w \in WorkerIds : Owner(w) = w
  /\ \A i, j \in Nat : Owner(i) = Owner(j) /\ i < j => i + NumWorkers <= j
<1>1. NumWorkers \in Nat \ {0} /\ NumWorkers <= Total
  BY ScheduleAssumption, IngestAssumption DEF NumWorkers
<1>2. WorkerIds \subseteq LeafIndexes
  BY <1>1, ScheduleAssumption DEF WorkerIds, LeafIndexes
<1>3. \A i \in Nat : Owner(i) \in WorkerIds
  BY <1>1 DEF Owner, WorkerIds
<1>4. \A i \in Nat : Owner(i + NumWorkers) = Owner(i)
  BY <1>1, RemainderOfSum DEF Owner
<1>5. \A w \in WorkerIds : Owner(w) = w
  BY <1>1 DEF Owner, WorkerIds
<1>6. \A i, j \in Nat : Owner(i) = Owner(j) /\ i < j => i + NumWorkers <= j
  BY <1>1, RemainderGap DEF Owner
<1> QED
  BY <1>1, <1>2, <1>3, <1>4, <1>5, <1>6

-----------------------------------------------------------------------------
(* The stream: its beginnings are in order, and it moves from the queue to   *)
(* the consumer without changing.                                            *)

\* What is in order up to its last message is in order without it, and stays in
\* order when the message that follows is added.
LEMMA InOrderAppend ==
  ASSUME NEW S, NEW s \in Seq(S), NEW m \in S, NEW n \in S,
         InOrder(Append(s, m))
  PROVE  /\ InOrder(s)
         /\ Follows(m, n) => InOrder(Append(Append(s, m), n))
<1> DEFINE t == Append(s, m)
           u == Append(t, n)
<1>1. t \in Seq(S) /\ Len(t) = Len(s) + 1 /\ t # <<>> /\ t[Len(s) + 1] = m
      /\ \A i \in 1 .. Len(s) : t[i] = s[i]
  BY AppendProperties
<1>2. u \in Seq(S) /\ Len(u) = Len(t) + 1 /\ u # <<>> /\ u[Len(t) + 1] = n
      /\ \A i \in 1 .. Len(t) : u[i] = t[i]
  BY <1>1, AppendProperties
<1>3. Len(s) \in Nat /\ (s # <<>> => Len(s) > 0)
  BY EmptySeq, LenProperties
<1>4. t[1] = Leaf(0) /\ \A i \in 1 .. Len(t) - 1 : Follows(t[i], t[i + 1])
  BY <1>1 DEF InOrder
<1> HIDE DEF t, u
<1>5. InOrder(s)
  <2>1. s # <<>> => s[1] = Leaf(0)
    BY <1>1, <1>3, <1>4
  <2>2. \A i \in 1 .. Len(s) - 1 : Follows(s[i], s[i + 1])
    <3> TAKE i \in 1 .. Len(s) - 1
    <3>1. i \in 1 .. Len(t) - 1 /\ i \in 1 .. Len(s) /\ i + 1 \in 1 .. Len(s)
      BY <1>1, <1>3
    <3>2. t[i] = s[i] /\ t[i + 1] = s[i + 1]
      BY <1>1, <3>1
    <3> QED
      BY <1>4, <3>1, <3>2
  <2> QED
    BY <2>1, <2>2 DEF InOrder
<1>6. ASSUME Follows(m, n) PROVE InOrder(u)
  <2>1. u[1] = Leaf(0)
    BY <1>1, <1>2, <1>3, <1>4
  <2>2. \A i \in 1 .. Len(u) - 1 : Follows(u[i], u[i + 1])
    <3> TAKE i \in 1 .. Len(u) - 1
    <3>1. CASE i < Len(t)
      <4>1. i \in 1 .. Len(t) - 1 /\ i \in 1 .. Len(t) /\ i + 1 \in 1 .. Len(t)
        BY <1>1, <1>2, <1>3, <3>1
      <4>2. u[i] = t[i] /\ u[i + 1] = t[i + 1]
        BY <1>2, <4>1
      <4> QED
        BY <1>4, <4>1, <4>2
    <3>2. CASE i = Len(t)
      <4>1. u[i + 1] = n /\ u[i] = m
        BY <1>1, <1>2, <1>3, <3>2
      <4> QED
        BY <4>1, <1>6
    <3> QED
      BY <3>1, <3>2, <1>1, <1>2, <1>3
  <2> QED
    BY <2>1, <2>2, <1>2 DEF InOrder
<1> QED
  BY <1>5, <1>6 DEF u, t

\* A beginning of what is in order is in order.
LEMMA InOrderPrefix ==
  ASSUME NEW S, NEW s \in Seq(S), NEW t \in Seq(S), InOrder(s \o t)
  PROVE  InOrder(s)
<1> DEFINE u == s \o t
<1>1. /\ u \in Seq(S) /\ Len(u) = Len(s) + Len(t)
      /\ \A i \in 1 .. Len(s) + Len(t) :
            u[i] = IF i <= Len(s) THEN s[i] ELSE t[i - Len(s)]
  BY ConcatProperties
<1>2. Len(s) \in Nat /\ Len(t) \in Nat /\ (s # <<>> => Len(s) > 0)
  BY EmptySeq, LenProperties
<1>3. \A i \in 1 .. Len(s) : u[i] = s[i]
  BY <1>1, <1>2
<1>4. s # <<>> => u # <<>>
  BY <1>1, <1>2, EmptySeq
<1>5. /\ u # <<>> => u[1] = Leaf(0)
      /\ \A i \in 1 .. Len(u) - 1 : Follows(u[i], u[i + 1])
  BY DEF InOrder
<1> HIDE DEF u
<1>6. s # <<>> => s[1] = Leaf(0)
  BY <1>2, <1>3, <1>4, <1>5
<1>7. \A i \in 1 .. Len(s) - 1 : Follows(s[i], s[i + 1])
  <2> TAKE i \in 1 .. Len(s) - 1
  <2>1. i \in 1 .. Len(u) - 1 /\ i \in 1 .. Len(s) /\ i + 1 \in 1 .. Len(s)
    BY <1>1, <1>2
  <2> QED
    BY <2>1, <1>3, <1>5
<1> QED
  BY <1>6, <1>7 DEF InOrder

\* A message moves from the queue's front to the end of what was before it.
LEMMA TakeOver ==
  ASSUME NEW S, NEW s \in Seq(S), NEW q \in Seq(S), NEW m \in S
  PROVE  /\ Append(s, m) \o q = s \o <<m>> \o q
         /\ s \o <<>> \o q = s \o q
         /\ Append(s \o q, m) = s \o Append(q, m)
         /\ q # <<>> => s \o <<Head(q)>> \o Tail(q) = s \o q
<1>1. <<m>> \in Seq(S) /\ Append(s, m) = s \o <<m>> /\ s \o <<>> = s
  BY AppendIsConcat, ConcatEmptySeq
<1>2. Append(s \o q, m) = s \o Append(q, m)
  <2>1. s \o q \in Seq(S)
    BY ConcatProperties
  <2>2. Append(s \o q, m) = (s \o q) \o <<m>> /\ Append(q, m) = q \o <<m>>
    BY <2>1, AppendIsConcat
  <2> QED
    BY <2>2, <1>1, ConcatAssociative
<1>3. ASSUME q # <<>> PROVE s \o <<Head(q)>> \o Tail(q) = s \o q
  <2>1. Head(q) \in S /\ Tail(q) \in Seq(S) /\ <<Head(q)>> \in Seq(S)
    BY <1>3, HeadTailProperties
  <2>2. <<Head(q)>> \o Tail(q) = q
    BY <1>3
  <2> QED
    BY <2>1, <2>2, ConcatAssociative
<1> QED
  BY <1>1, <1>2, <1>3
-----------------------------------------------------------------------------
(* The initial states.                                                       *)

\* A run starts with everything in its place.
LEMMA InitHolds == Init => IInv
<1> SUFFICES ASSUME Init PROVE IInv
  OBVIOUS
<1> USE ScheduleAssumption, IngestAssumption
<1>1. TypeOK /\ MessageOK
  <2>1. pc \in [WorkerIds -> {"window", "waiting", "due", "posting", "posted",
                              "failed", "sending", "done"}]
        /\ at \in [WorkerIds -> LeafIndexes]
    BY Owners DEF Init
  <2>2. results \in Seq([index : LeafIndexes, ok : BOOLEAN])
        /\ queue \in Seq(Messages) /\ handled \in Seq(Messages) /\ Len(queue) <= Capacity
    BY DEF Init
  <2>3. released \in 0 .. Total /\ next \in 0 .. Total
    BY DEF Init
  <2> QED
    BY <2>1, <2>2, <2>3 DEF Init, TypeOK, MessageOK
<1>2. ControlInv
  BY DEF Init, ControlInv
<1>3. CauseInv
  BY DEF Init, CauseInv, Excused, Collecting, QueueOpen
<1>4. FaultInv
  BY DEF Init, FaultInv
<1>5. WorkerInv
  BY Owners DEF Init, WorkerInv
<1>6. WaitingInv /\ HandedInv /\ OnceInv
  BY DEF Init, WaitingInv, HandedInv, OnceInv, ResultLeaves, OkLeaves, Handed,
         LeafIndexes
<1>7. ArrivedInv
  <2> SUFFICES ASSUME NEW i \in LeafIndexes, i < at[Owner(i)] PROVE FALSE
    BY DEF Init, ArrivedInv
  <2>1. Owner(i) \in WorkerIds /\ at[Owner(i)] = Owner(i) /\ NumWorkers \in Nat
    BY Owners DEF Init, LeafIndexes
  <2>2. Owner(Owner(i)) = Owner(i)
    BY <2>1, Owners
  <2>3. i + NumWorkers <= Owner(i) /\ Owner(i) < NumWorkers
    BY <2>1, <2>2, Owners DEF LeafIndexes, WorkerIds
  <2> QED
    BY <2>1, <2>3 DEF LeafIndexes, WorkerIds
<1>8. Stream = <<>>
  BY DEF Init, Stream
<1>9. StreamInv /\ EndInv
  <2>1. InOrder(<<Leaf(0)>>)
    BY DEF InOrder
  <2>2. Append(Stream, Due) = <<Leaf(0)>>
    BY <1>8 DEF Init, Due
  <2> QED
    BY <2>1, <2>2 DEF Init, StreamInv, EndInv, QueueOpen
<1>10. CountInv
  <2>1. EndsHandled = {}
    <3>1. LeavesHandled = 0 /\ EpochEnds \subseteq Nat
      BY DEF Init, LeavesHandled
    <3> SUFFICES ASSUME NEW e \in EndsHandled PROVE FALSE
      OBVIOUS
    <3>2. e \in Nat /\ e <= -1
      BY <3>1 DEF EndsHandled
    <3> QED
      BY <3>2
  <2> QED
    BY <2>1, FS_EmptySet DEF Init, CountInv, LeavesHandled
<1>11. OnFabric /\ HonestStatus
  BY <1>8 DEF Init, OnFabric, HonestStatus
<1> QED
  BY <1>1, <1>2, <1>3, <1>4, <1>5, <1>6, <1>7, <1>9, <1>10, <1>11 DEF IInv
-----------------------------------------------------------------------------
(* What any step keeps.                                                      *)

\* Every variable keeps its type.
LEMMA TypeStep ==
  TypeOK /\ MessageOK /\ ControlInv /\ [Next]_vars => TypeOK' /\ MessageOK'
<1> SUFFICES ASSUME TypeOK, MessageOK, ControlInv, [Next]_vars
             PROVE  TypeOK' /\ MessageOK'
  OBVIOUS
<1> USE ScheduleAssumption, IngestAssumption
<1> USE DEF stopVars, workerVars, collectorVars, consumerVars, StopFor,
            RaiseStop, RaiseStopAt, WorkerAlone, CollectorAlone, ConsumerAlone
<1>1. CASE UNCHANGED vars
  BY <1>1 DEF vars, TypeOK, MessageOK
<1>2. CASE Expire
  BY <1>2 DEF Expire, TypeOK, MessageOK
<1>3. ASSUME NEW w \in WorkerIds, Worker(w) PROVE TypeOK' /\ MessageOK'
  <2> USE DEF Goto
  <2>0. MessageOK'
    BY <1>3 DEF Worker, TestWindow, Wait, Pace, Post, PostFails, SendError,
                CheckPosted, SendLeaf, MessageOK
  <2>1. pc' \in [WorkerIds -> {"window", "waiting", "due", "posting", "posted",
                               "failed", "sending", "done"}]
    <3> DEFINE Places == {"window", "waiting", "due", "posting", "posted",
                          "failed", "sending", "done"}
    <3>1. PICK place \in Places : pc' = [pc EXCEPT ![w] = place]
      BY <1>3 DEF Worker, TestWindow, Wait, Pace, Post, PostFails, SendError,
                  CheckPosted, SendLeaf
    <3> QED
      BY <3>1 DEF TypeOK
  <2>2. at' \in [WorkerIds -> LeafIndexes]
    <3>1. CASE at' = at
      BY <3>1 DEF TypeOK
    <3>2. CASE at' = [at EXCEPT ![w] = @ + NumWorkers] /\ at[w] + NumWorkers < Total
      <4>1. at[w] \in LeafIndexes
        BY DEF TypeOK
      <4>2. at[w] + NumWorkers \in LeafIndexes
        BY <3>2, <4>1, Owners DEF LeafIndexes
      <4> QED
        BY <3>2, <4>2 DEF TypeOK
    <3> QED
      BY <1>3, <3>1, <3>2
      DEF Worker, TestWindow, Wait, Pace, Post, PostFails, SendError,
          CheckPosted, SendLeaf
  <2>3. results' \in Seq([index : LeafIndexes, ok : BOOLEAN])
    <3>1. PICK ok \in BOOLEAN :
             results' = results \/ results' = Append(results, [index |-> at[w], ok |-> ok])
      BY <1>3 DEF Worker, TestWindow, Wait, Pace, Post, PostFails, SendError,
                  CheckPosted, SendLeaf, SendResult
    <3> DEFINE Results == [index : LeafIndexes, ok : BOOLEAN]
               result == [index |-> at[w], ok |-> ok]
    <3>2. result \in Results
      BY DEF TypeOK
    <3>3. results \in Seq(Results)
      BY DEF TypeOK
    <3>4. results' = results \/ results' = Append(results, result)
      BY <3>1
    <3> HIDE DEF Results, result
    <3>5. results' \in Seq(Results)
      BY <3>2, <3>3, <3>4, AppendProperties
    <3> QED
      BY <3>5 DEF Results
  <2>4. posted' \subseteq LeafIndexes
    <3>1. posted' = posted \/ posted' = posted \cup {at[w]}
      BY <1>3 DEF Worker, TestWindow, Wait, Pace, Post, PostFails, SendError,
                  CheckPosted, SendLeaf
    <3>2. at[w] \in LeafIndexes /\ posted \subseteq LeafIndexes
      BY DEF TypeOK
    <3> QED
      BY <3>1, <3>2
  <2>5. /\ stop' \in BOOLEAN /\ faults' \subseteq {"fabric", "anchoring", "order"}
        /\ cutBy' \in {"none", "wall", "fabric", "anchoring", "order"}
    BY <1>3 DEF Worker, TestWindow, Wait, Pace, Post, PostFails, SendError,
                CheckPosted, SendLeaf, TypeOK
  <2>6. UNCHANGED <<expired, collectorVars, queue, consumerVars>>
    BY <1>3 DEF Worker, TestWindow, Wait, Pace, Post, PostFails, SendError,
                CheckPosted, SendLeaf
  <2> QED
    BY <2>0, <2>1, <2>2, <2>3, <2>4, <2>5, <2>6 DEF TypeOK
<1>4. CASE Collector
  <2>0. MessageOK'
    BY <1>4 DEF Collector, Collect, CollectEnds, SendFails, DeliverLeaf,
                DeliverEpochEnd, Delivered, Return, MessageOK
  <2>1. CASE Collect
    <3>1. /\ results \in Seq([index : LeafIndexes, ok : BOOLEAN])
          /\ results # <<>> /\ results' = Tail(results)
      BY <2>1 DEF Collect, TypeOK
    <3>2. /\ results' \in Seq([index : LeafIndexes, ok : BOOLEAN])
          /\ Head(results) \in [index : LeafIndexes, ok : BOOLEAN]
      BY <3>1, HeadTailProperties
    <3>3. ready' \subseteq LeafIndexes
      <4>1. Head(results).index \in LeafIndexes
        BY <3>2
      <4>2. ready' = ready \/ ready' = ready \cup {Head(results).index}
        BY <2>1 DEF Collect
      <4> QED
        BY <4>1, <4>2 DEF TypeOK
    <3>4. /\ collector' \in {"deliver", "join"} /\ failed' \in BOOLEAN
          /\ stop' \in BOOLEAN /\ faults' = faults
          /\ cutBy' \in {"none", "wall", "fabric", "anchoring", "order"}
      BY <2>1 DEF Collect, TypeOK
    <3>5. UNCHANGED <<config, next, released, produced, queue, expired, workerVars,
                      consumerVars>>
      BY <2>1 DEF Collect
    <3> QED
      BY <2>0, <3>2, <3>3, <3>4, <3>5 DEF TypeOK
  <2>5. CASE CollectEnds \/ SendFails
    <3>1. /\ collector' = "join" /\ stop' = TRUE /\ faults' = faults
          /\ cutBy' \in {"none", "wall", "fabric", "anchoring", "order"}
      BY <2>5 DEF CollectEnds, SendFails, TypeOK
    <3>2. UNCHANGED <<config, ready, next, released, failed, produced, results,
                      queue, expired, workerVars, consumerVars>>
      BY <2>5 DEF CollectEnds, SendFails
    <3> QED
      BY <2>0, <3>1, <3>2 DEF TypeOK
  <2>2. CASE DeliverLeaf \/ DeliverEpochEnd
    <3>1. next \in LeafIndexes
      BY <2>2 DEF DeliverLeaf, DeliverEpochEnd, TypeOK, ControlInv, LeafIndexes
    <3>2. Leaf(next) \in Messages /\ EpochEnd(next) \in Messages
      BY <3>1 DEF Leaf, EpochEnd, Messages
    <3>3. queue' \in Seq(Messages) /\ Len(queue') <= Capacity
      <4>1. /\ queue' = Append(queue, Leaf(next)) \/ queue' = Append(queue, EpochEnd(next))
            /\ Len(queue) < Capacity
        BY <2>2 DEF DeliverLeaf, DeliverEpochEnd, Send
      <4>2. queue \in Seq(Messages) /\ Len(queue) \in Nat /\ Capacity \in Nat
        BY IngestAssumption DEF TypeOK
      <4>3. PICK m \in Messages : queue' = Append(queue, m)
        BY <3>2, <4>1
      <4>4. Append(queue, m) \in Seq(Messages) /\ Len(Append(queue, m)) = Len(queue) + 1
        BY <4>2
      <4> QED
        BY <4>1, <4>2, <4>3, <4>4
    <3>4. next' \in 0 .. Total /\ released' \in 0 .. Total
      BY <2>2, <3>1
      DEF DeliverLeaf, DeliverEpochEnd, Release, TypeOK, LeafIndexes
    <3>5. ready' \subseteq LeafIndexes /\ collector' \in {"deliver", "end"}
      BY <2>2 DEF DeliverLeaf, DeliverEpochEnd, TypeOK
    <3>6. UNCHANGED <<stopVars, workerVars, expired, failed, produced, results,
                      consumerVars>>
      BY <2>2 DEF DeliverLeaf, DeliverEpochEnd
    <3> QED
      BY <3>3, <3>4, <3>5, <3>6 DEF TypeOK, MessageOK
  <2>3. CASE Delivered
    BY <2>3 DEF Delivered, TypeOK, MessageOK
  <2>4. CASE Return
    BY <2>4 DEF Return, TypeOK, MessageOK
  <2> QED
    BY <1>4, <2>1, <2>2, <2>3, <2>4, <2>5 DEF Collector
<1>5. CASE Consumer
  <2>1. CASE Receive \/ ReceiveEnds
    <3>1. queue' \in Seq(Messages) /\ Len(queue') <= Capacity
      <4>1. queue' = <<>> \/ (queue # <<>> /\ queue' = Tail(queue))
        BY <2>1 DEF Receive, ReceiveEnds, LeaveLoop
      <4>2. queue \in Seq(Messages) /\ Len(queue) <= Capacity
        BY DEF TypeOK
      <4>3. CASE queue' = <<>>
        BY <4>3, EmptySeq, IngestAssumption
      <4>4. CASE queue # <<>> /\ queue' = Tail(queue)
        <5>1. queue' \in Seq(Messages) /\ Len(queue') = Len(queue) - 1
          BY <4>2, <4>4, HeadTailProperties
        <5> QED
          BY <5>1, <4>2, LenProperties, IngestAssumption
      <4> QED
        BY <4>1, <4>3, <4>4
    <3>2. message' \in Messages \cup {NoMessage} /\ MessageOK'
      BY <2>1 DEF Receive, ReceiveEnds, LeaveLoop, TypeOK, MessageOK
    <3>3. /\ stop' \in BOOLEAN /\ saturated' \in BOOLEAN
          /\ consumer' \in {"receive", "work", "join", "done"}
          /\ cutBy' \in {"none", "wall", "fabric", "anchoring", "order"}
      BY <2>1 DEF Receive, ReceiveEnds, LeaveLoop, TypeOK
    <3>4. UNCHANGED <<handled, pending, committed, epochs, reason, status, faults,
                      expired, workerVars, results, collectorVars>>
      BY <2>1 DEF Receive, ReceiveEnds
    <3> QED
      BY <3>1, <3>2, <3>3, <3>4 DEF TypeOK
  <2>2. CASE Handle
    <3>1. pending' \in Nat /\ committed' \in Nat /\ epochs' \in Nat
      <4>1. pending \in Nat /\ committed \in Nat /\ epochs \in Nat
        BY DEF TypeOK
      <4> QED
        BY <2>2, <4>1 DEF Handle, HandleLeaf, HandleEpochEnd
    <3>2. /\ handled' = Append(handled, message) /\ message \in Messages
          /\ message' = NoMessage /\ consumer' = "receive"
          /\ UNCHANGED <<reason, saturated, status, stopVars, queue>> /\ ConsumerAlone
      BY <2>2 DEF Handle, MessageOK, TypeOK
    <3>3. handled' \in Seq(Messages)
      BY <3>2 DEF TypeOK
    <3>4. MessageOK'
      BY <3>2 DEF MessageOK
    <3> QED
      BY <3>1, <3>2, <3>3, <3>4 DEF TypeOK
  <2>3. CASE HandleFails
    BY <2>3 DEF HandleFails, LeaveLoop, TypeOK, MessageOK
  <2>4. CASE Report
    BY <2>4 DEF Report, TypeOK, MessageOK
  <2> QED
    BY <1>5, <2>1, <2>2, <2>3, <2>4 DEF Consumer
<1> QED
  BY <1>1, <1>2, <1>3, <1>4, <1>5 DEF Next, Finished

\* What a worker does, as the rest of the run sees it: it moves its own place,
\* and may set the flag, fail or send a result.
LEMMA WorkerMoves ==
  ASSUME TypeOK, NEW w \in WorkerIds, Worker(w)
  PROVE  /\ \A v \in WorkerIds \ {w} : pc'[v] = pc[v] /\ at'[v] = at[v]
         /\ pc[w] # "done"
         /\ UNCHANGED <<config, expired, collectorVars, queue, consumerVars>>
         /\ faults \subseteq faults' /\ (stop => stop')
         /\ posted \subseteq posted'
<1> USE DEF Worker, TestWindow, Wait, Pace, Post, PostFails, SendError,
            CheckPosted, SendLeaf, WorkerAlone, StopFor, RaiseStop, RaiseStopAt,
            stopVars, Goto
<1>1. \A v \in WorkerIds \ {w} : pc'[v] = pc[v]
  BY DEF TypeOK
<1>2. \A v \in WorkerIds \ {w} : at'[v] = at[v]
  BY DEF TypeOK
<1>3. pc[w] # "done"
  OBVIOUS
<1>4. UNCHANGED <<config, expired, collectorVars, queue, consumerVars>>
  <2>1. CASE TestWindow(w) \/ Post(w) \/ PostFails(w)
    BY <2>1
  <2>2. CASE SendError(w) \/ SendLeaf(w)
    BY <2>2
  <2>3. CASE Wait(w) \/ Pace(w) \/ CheckPosted(w)
    BY <2>3
  <2> QED
    BY <2>1, <2>2, <2>3
<1>5. faults \subseteq faults' /\ (stop => stop')
  <2>1. CASE UNCHANGED stopVars
    BY <2>1
  <2>2. CASE Wait(w) \/ Pace(w) \/ CheckPosted(w)
    BY <2>2
  <2>3. CASE PostFails(w)
    BY <2>3
  <2> QED
    BY <2>1, <2>2, <2>3
<1>6. posted \subseteq posted'
  OBVIOUS
<1> QED
  BY <1>1, <1>2, <1>3, <1>4, <1>5, <1>6

\* The steps of the main thread and of the collector leave the workers alone,
\* and their own kind of stop is the same.
LEMMA OthersMove ==
  ASSUME Expire \/ Collector \/ Consumer
  PROVE  /\ UNCHANGED <<config, workerVars>>
         /\ faults \subseteq faults' /\ (stop => stop') /\ (expired => expired')
<1> USE DEF CollectorAlone, ConsumerAlone, StopFor, RaiseStop, RaiseStopAt,
            stopVars, workerVars
<1>1. CASE Expire
  BY <1>1 DEF Expire
<1>2. CASE Collector
  BY <1>2 DEF Collector, Collect, CollectEnds, SendFails, DeliverLeaf,
              DeliverEpochEnd, Delivered, Return
<1>3. CASE Consumer
  BY <1>3 DEF Consumer, Receive, ReceiveEnds, Handle, HandleFails, Report
<1> QED
  BY <1>1, <1>2, <1>3

\* The turn moves on by one or not at all, and what has ended stays ended.
LEMMA OneWay ==
  ASSUME TypeOK, ControlInv, [Next]_vars
  PROVE  /\ next' = next \/ next' = next + 1
         /\ ~ Collecting => ~ Collecting'
         /\ ~ QueueOpen => ~ QueueOpen'
         /\ Excused => Excused'
         /\ stop => stop'
         /\ config' = config
         /\ expired => expired'
         /\ faults \subseteq faults'
         /\ posted \subseteq posted'
         /\ collector = "returned" => collector' = "returned"
<1>1. CASE Expire \/ UNCHANGED vars
  BY <1>1 DEF Expire, vars, stopVars, workerVars, collectorVars, consumerVars,
              Collecting, QueueOpen, Excused
<1>2. ASSUME NEW w \in WorkerIds, Worker(w)
      PROVE  /\ UNCHANGED <<next, collector, consumer, config, expired>>
             /\ faults \subseteq faults' /\ (stop => stop') /\ posted \subseteq posted'
  BY <1>2, WorkerMoves DEF collectorVars, consumerVars
<1>3. CASE \E w \in WorkerIds : Worker(w)
  BY <1>2, <1>3 DEF Collecting, QueueOpen, Excused
<1>4. CASE Collector
  <2>1. UNCHANGED <<config, posted, expired, consumer>>
        /\ faults \subseteq faults' /\ (stop => stop')
    BY <1>4, OthersMove
    DEF Collector, Collect, CollectEnds, SendFails, DeliverLeaf,
        DeliverEpochEnd, Delivered, Return, CollectorAlone, workerVars, consumerVars
  <2>2. next' = next \/ next' = next + 1
    BY <1>4 DEF Collector, Collect, CollectEnds, SendFails, DeliverLeaf,
                DeliverEpochEnd, Delivered, Return, Release
  <2>3. /\ ~ Collecting => ~ Collecting'
        /\ collector = "returned" => collector' = "returned"
    BY <1>4 DEF Collector, Collect, CollectEnds, SendFails, DeliverLeaf,
                DeliverEpochEnd, Delivered, Return, Collecting
  <2> QED
    BY <2>1, <2>2, <2>3 DEF QueueOpen, Excused
<1>5. CASE Consumer
  <2>1. UNCHANGED <<config, posted, expired, next, collector>>
        /\ faults \subseteq faults' /\ (stop => stop')
    BY <1>5, OthersMove
    DEF Consumer, Receive, ReceiveEnds, Handle, HandleFails, Report,
        ConsumerAlone, workerVars, collectorVars
  <2>2. ~ QueueOpen => ~ QueueOpen'
    BY <1>5 DEF Consumer, Receive, ReceiveEnds, Handle, HandleFails, Report, QueueOpen
  <2> QED
    BY <2>1, <2>2 DEF Collecting, Excused
<1> QED
  BY <1>1, <1>3, <1>4, <1>5 DEF Next, Finished

\* The threads are where the flags say they are.
LEMMA ControlStep ==
  TypeOK /\ ControlInv /\ [Next]_vars => ControlInv'
<1> SUFFICES ASSUME TypeOK, ControlInv, [Next]_vars PROVE ControlInv'
  OBVIOUS
<1>0. config' \in Configs
  BY OneWay DEF ControlInv
<1>1. CASE Expire \/ UNCHANGED vars
  BY <1>0, <1>1 DEF Expire, vars, stopVars, workerVars, collectorVars,
                    consumerVars, ControlInv, WorkersDone
<1>2. ASSUME NEW w \in WorkerIds, Worker(w) PROVE ControlInv'
  <2>1. UNCHANGED <<released, next, collector, ready, produced, consumer, status>>
    BY <1>2, WorkerMoves DEF collectorVars, consumerVars
  <2>2. collector # "returned"
    BY <1>2, WorkerMoves DEF ControlInv, WorkersDone
  <2> QED
    BY <1>0, <2>1, <2>2 DEF ControlInv
<1>3. CASE Collector
  <2>1. UNCHANGED <<pc, consumer, status>>
    BY <1>3 DEF Collector, Collect, CollectEnds, SendFails, DeliverLeaf,
                DeliverEpochEnd, Delivered, Return, CollectorAlone, workerVars,
                consumerVars
  <2>2. CASE Collect \/ CollectEnds \/ SendFails
    BY <1>0, <2>1, <2>2 DEF Collect, CollectEnds, SendFails, ControlInv
  <2>3. CASE DeliverLeaf \/ DeliverEpochEnd
    BY <1>0, <2>1, <2>3
    DEF DeliverLeaf, DeliverEpochEnd, Release, LastOfEpoch, ControlInv
  <2>4. CASE Delivered
    BY <1>0, <2>1, <2>4 DEF Delivered, ControlInv
  <2>5. CASE Return
    BY <1>0, <2>1, <2>5 DEF Return, ControlInv, WorkersDone
  <2> QED
    BY <1>3, <2>2, <2>3, <2>4, <2>5 DEF Collector
<1>4. CASE Consumer
  <2>1. UNCHANGED <<pc, released, next, collector, ready, produced>>
    BY <1>4 DEF Consumer, Receive, ReceiveEnds, Handle, HandleFails, Report,
                ConsumerAlone, workerVars, collectorVars
  <2>2. status' # "running" <=> consumer' = "done"
    BY <1>4 DEF Consumer, Receive, ReceiveEnds, Handle, HandleFails, Report,
                LeaveLoop, ControlInv
  <2>3. consumer' = "done" => collector' = "returned"
    BY <1>4, <2>1 DEF Consumer, Receive, ReceiveEnds, Handle, HandleFails, Report,
                LeaveLoop, ControlInv
  <2> QED
    BY <1>0, <2>1, <2>2, <2>3 DEF ControlInv, WorkersDone
<1> QED
  BY <1>1, <1>2, <1>3, <1>4 DEF Next, Finished

\* Nothing happens after the status is reported.
LEMMA OverIsOver ==
  ASSUME TypeOK, ControlInv, [Next]_vars, status # "running"
  PROVE  UNCHANGED vars
<1>1. consumer = "done" /\ collector = "returned" /\ WorkersDone
  BY DEF ControlInv
<1>2. ~ Expire
  BY DEF Expire
<1>3. ~ \E w \in WorkerIds : Worker(w)
  BY <1>1, WorkerMoves DEF WorkersDone
<1>4. ~ Collector
  BY <1>1 DEF Collector, Collect, CollectEnds, SendFails, DeliverLeaf,
              DeliverEpochEnd, Delivered, Return
<1>5. ~ Consumer
  BY <1>1 DEF Consumer, Receive, ReceiveEnds, Handle, HandleFails, Report
<1> QED
  BY <1>2, <1>3, <1>4, <1>5 DEF Next, Finished

\* A worker that moved took one of its own steps.
LEMMA Moves ==
  ASSUME TypeOK, [Next]_vars, NEW w \in WorkerIds
  PROVE  (pc'[w] = pc[w] /\ at'[w] = at[w]) \/ Worker(w)
<1>1. CASE UNCHANGED vars
  BY <1>1 DEF vars, workerVars
<1>2. CASE Expire \/ Collector \/ Consumer
  BY <1>2, OthersMove DEF workerVars
<1>3. ASSUME NEW v \in WorkerIds, Worker(v), v # w PROVE pc'[w] = pc[w] /\ at'[w] = at[w]
  BY <1>3, WorkerMoves
<1> QED
  BY <1>1, <1>2, <1>3 DEF Next, Finished

\* A worker takes up its next leaf only after it sent the one it was at.
LEMMA NextAssignment ==
  ASSUME TypeOK, NEW w \in WorkerIds, Worker(w)
  PROVE  \/ at'[w] = at[w]
         \/ /\ pc[w] = "sending" /\ pc'[w] = "window"
            /\ at[w] + NumWorkers < Total /\ at'[w] = at[w] + NumWorkers
            /\ Collecting /\ results' = Append(results, [index |-> at[w], ok |-> TRUE])
<1>1. CASE SendLeaf(w)
  BY <1>1 DEF SendLeaf, SendResult, Goto, TypeOK
<1>2. CASE ~ SendLeaf(w)
  BY <1>2 DEF Worker, TestWindow, Wait, Pace, Post, PostFails, SendError,
              CheckPosted
<1> QED
  BY <1>1, <1>2

\* What a worker sends is the leaf it is at, as an error or as done.
LEMMA SendsOne ==
  ASSUME TypeOK, NEW w \in WorkerIds, Worker(w)
  PROVE  \/ results' = results
         \/ /\ Collecting
            /\ \/ pc[w] = "failed" /\ results' = Append(results, [index |-> at[w], ok |-> FALSE])
                  /\ pc'[w] = "done" /\ at'[w] = at[w]
               \/ pc[w] = "sending" /\ results' = Append(results, [index |-> at[w], ok |-> TRUE])
                  /\ \/ pc'[w] = "done" /\ at'[w] = at[w] /\ at[w] + NumWorkers >= Total
                     \/ at'[w] = at[w] + NumWorkers /\ at[w] + NumWorkers < Total
            /\ UNCHANGED <<posted, stop, faults>>
<1>1. CASE SendLeaf(w)
  <2>0. at[w] \in LeafIndexes
    BY DEF TypeOK
  <2>1. at[w] + NumWorkers \in Nat /\ Total \in Nat
    BY <2>0, Owners, ScheduleAssumption DEF LeafIndexes
  <2> QED
    BY <1>1, <2>1 DEF SendLeaf, SendResult, Goto, TypeOK, stopVars
<1>2. CASE SendError(w)
  BY <1>2 DEF SendError, SendResult, Goto, TypeOK, stopVars
<1>3. CASE ~ SendLeaf(w) /\ ~ SendError(w)
  BY <1>3 DEF Worker, TestWindow, Wait, Pace, Post, PostFails, CheckPosted
<1> QED
  BY <1>1, <1>2, <1>3

\* A leaf that was posted, or sent on, stays so.
LEMMA SentByStays ==
  ASSUME TypeOK, [Next]_vars, NEW i \in LeafIndexes
  PROVE  /\ SentBy(i, {"done"}) => SentBy(i, {"done"})'
         /\ SentBy(i, {"posted", "sending", "done"})
              => SentBy(i, {"posted", "sending", "done"})'
<1> DEFINE w == Owner(i)
<1>1. w \in WorkerIds /\ NumWorkers \in Nat \ {0} /\ i \in Nat
  BY Owners DEF LeafIndexes
<1>2. at[w] \in Nat
  BY <1>1 DEF TypeOK, LeafIndexes
<1> HIDE DEF w
<1>3. CASE pc'[w] = pc[w] /\ at'[w] = at[w]
  BY <1>3 DEF SentBy, w
<1>4. CASE Worker(w)
  <2>1. pc[w] # "done"
    BY <1>1, <1>4, WorkerMoves
  <2>2. CASE at'[w] = at[w]
    <3>1. pc[w] \in {"posted", "sending"} => pc'[w] \in {"posted", "sending", "done"}
      <4>1. \A place : pc' = [pc EXCEPT ![w] = place] => pc'[w] = place
        BY <1>1 DEF TypeOK
      <4>2. CASE CheckPosted(w)
        BY <4>1, <4>2 DEF CheckPosted, Goto
      <4>3. CASE SendLeaf(w)
        BY <1>1, <1>2, <2>2, <4>1, <4>3 DEF SendLeaf, Goto, TypeOK
      <4>4. CASE ~ CheckPosted(w) /\ ~ SendLeaf(w)
        BY <1>4, <4>4 DEF Worker, TestWindow, Wait, Pace, Post, PostFails, SendError
      <4> QED
        BY <4>2, <4>3, <4>4
    <3> QED
      BY <2>1, <2>2, <3>1 DEF SentBy, w
  <2>3. CASE at'[w] = at[w] + NumWorkers
    BY <1>1, <1>2, <2>3 DEF SentBy, w
  <2> QED
    BY <1>1, <1>4, <2>2, <2>3, NextAssignment
<1> QED
  BY <1>1, <1>3, <1>4, Moves

\* Leaves are posted by the worker that is at them.
LEMMA PostsOwn ==
  ASSUME TypeOK, [Next]_vars, NEW i \in posted', i \notin posted
  PROVE  \E w \in WorkerIds : Post(w) /\ i = at[w]
<1>1. ASSUME UNCHANGED posted PROVE FALSE
  BY <1>1
<1>2. CASE UNCHANGED vars \/ Expire \/ Collector \/ Consumer
  BY <1>1, <1>2, OthersMove DEF vars, workerVars
<1>3. ASSUME NEW w \in WorkerIds, Worker(w) PROVE Post(w) /\ i = at[w]
  BY <1>1, <1>3 DEF Worker, TestWindow, Wait, Pace, Post, PostFails, SendError,
                    CheckPosted, SendLeaf
<1> QED
  BY <1>2, <1>3 DEF Next, Finished

\* Workers keep to their own leaves and within the window, and hand on only what
\* is posted.
LEMMA WorkerStep ==
  TypeOK /\ ControlInv /\ WorkerInv /\ [Next]_vars => WorkerInv'
<1> SUFFICES ASSUME TypeOK, ControlInv, WorkerInv, [Next]_vars PROVE WorkerInv'
  OBVIOUS
<1>0. /\ next \in Nat /\ next' \in Nat /\ next <= next' /\ Window \in Nat
      /\ (stop => stop') /\ posted \subseteq posted' /\ released = next
  BY OneWay, IngestAssumption DEF TypeOK, ControlInv
<1>1. ASSUME NEW w \in WorkerIds
      PROVE  /\ Owner(at'[w]) = w
             /\ pc'[w] \in {"due", "posting", "posted", "failed", "sending"}
                  => at'[w] < next' + Window
             /\ pc'[w] = "posted" => at'[w] \in posted' \/ stop'
             /\ pc'[w] = "sending" => at'[w] \in posted'
  <2>1. /\ Owner(at[w]) = w
        /\ pc[w] \in {"due", "posting", "posted", "failed", "sending"}
             => at[w] < next + Window
        /\ pc[w] = "posted" => at[w] \in posted \/ stop
        /\ pc[w] = "sending" => at[w] \in posted
    BY DEF WorkerInv
  <2>2. at[w] \in Nat
    BY DEF TypeOK, LeafIndexes
  <2>3. CASE pc'[w] = pc[w] /\ at'[w] = at[w]
    BY <1>0, <2>1, <2>2, <2>3
  <2>4. CASE Worker(w) /\ at'[w] = at[w] + NumWorkers /\ pc'[w] = "window"
    BY <2>1, <2>2, <2>4, Owners
  <2>5. CASE Worker(w) /\ at'[w] = at[w]
    <3> USE DEF Goto
    <3>0. \A place : pc' = [pc EXCEPT ![w] = place] => pc'[w] = place
      BY DEF TypeOK
    <3>1. CASE TestWindow(w)
      BY <1>0, <2>1, <2>2, <2>5, <3>0, <3>1 DEF TestWindow, WindowOpen
    <3>2. CASE Wait(w) \/ SendError(w) \/ SendLeaf(w)
      <4>1. pc'[w] \in {"window", "done"}
        BY <2>5, <3>0, <3>2 DEF Wait, SendError, SendLeaf
      <4> QED
        BY <4>1, <2>1, <2>5
    <3>3. CASE Pace(w)
      <4>1. pc[w] = "due" /\ (pc'[w] = "posting" \/ (pc'[w] = "posted" /\ stop'))
        <5>1. /\ pc[w] = "due"
              /\ \/ pc' = [pc EXCEPT ![w] = "posting"]
                 \/ pc' = [pc EXCEPT ![w] = "posted"] /\ stop' = TRUE
          BY <3>3 DEF Pace, RaiseStop, StopFor
        <5> QED
          BY <3>0, <5>1
      <4> QED
        BY <1>0, <4>1, <2>1, <2>2, <2>5
    <3>4. CASE Post(w)
      <4>1. pc[w] = "posting" /\ pc'[w] = "posted" /\ at[w] \in posted'
        BY <3>0, <3>4 DEF Post
      <4> QED
        BY <1>0, <4>1, <2>1, <2>2, <2>5
    <3>5. CASE PostFails(w)
      <4>1. pc[w] = "posting" /\ pc'[w] = "failed"
        BY <3>0, <3>5 DEF PostFails
      <4> QED
        BY <1>0, <4>1, <2>1, <2>2, <2>5
    <3>6. CASE CheckPosted(w)
      <4>1. pc[w] = "posted" /\ (pc'[w] = "done" \/ (pc'[w] = "sending" /\ ~ stop))
        <5>1. /\ pc[w] = "posted"
              /\ \/ pc' = [pc EXCEPT ![w] = "done"]
                 \/ pc' = [pc EXCEPT ![w] = "sending"] /\ ~ stop
          BY <3>6 DEF CheckPosted
        <5> QED
          BY <3>0, <5>1
      <4> QED
        BY <1>0, <4>1, <2>1, <2>2, <2>5
    <3> QED
      BY <2>5, <3>1, <3>2, <3>3, <3>4, <3>5, <3>6 DEF Worker
  <2> QED
    BY <2>3, <2>4, <2>5, Moves, NextAssignment
<1>2. ASSUME NEW i \in posted'
      PROVE  i < next' + Window /\ SentBy(i, {"posted", "sending", "done"})'
  <2>1. CASE i \in posted
    <3>1. i \in LeafIndexes /\ i \in Nat
      BY <2>1 DEF TypeOK, LeafIndexes
    <3>2. i < next + Window /\ SentBy(i, {"posted", "sending", "done"})
      BY <2>1 DEF WorkerInv
    <3>3. SentBy(i, {"posted", "sending", "done"})'
      BY <3>1, <3>2, SentByStays
    <3> DEFINE turn == next'
    <3>4. next \in Nat /\ turn \in Nat /\ next <= turn /\ Window \in Nat
      BY <1>0
    <3> HIDE DEF turn
    <3>5. i < turn + Window
      BY <3>1, <3>2, <3>4
    <3> QED
      BY <3>3, <3>5 DEF turn
  <2>2. CASE i \notin posted
    <3>1. PICK w \in WorkerIds : Post(w) /\ i = at[w]
      BY <2>2, PostsOwn
    <3>2. pc[w] = "posting" /\ pc'[w] = "posted" /\ at'[w] = at[w]
      BY <3>1 DEF Post, Goto, TypeOK
    <3>3. Owner(i) = w /\ i < next + Window /\ i \in Nat
      BY <3>1, <3>2 DEF WorkerInv, TypeOK, LeafIndexes
    <3> QED
      BY <1>0, <3>1, <3>2, <3>3 DEF SentBy
  <2> QED
    BY <2>1, <2>2
<1> QED
  BY <1>1, <1>2 DEF WorkerInv
-----------------------------------------------------------------------------
(* Between the workers and the collector.                                    *)

\* The leaves in the channel are leaves of the schedule.
LEMMA ResultTypes ==
  ASSUME TypeOK
  PROVE  ResultLeaves \subseteq LeafIndexes /\ OkLeaves \subseteq ResultLeaves
<1> DEFINE Results == [index : LeafIndexes, ok : BOOLEAN]
<1>1. results \in Seq(Results) /\ \A r \in Results : r.index \in LeafIndexes
  BY DEF TypeOK
<1> HIDE DEF Results
<1>2. \A k \in DOMAIN results : results[k] \in Results
  BY <1>1, ElementOfSeq, LenProperties
<1> QED
  BY <1>1, <1>2 DEF ResultLeaves, OkLeaves

\* A result that is sent adds its leaf to the ones in the channel.
LEMMA ResultSent ==
  ASSUME TypeOK, NEW i \in LeafIndexes, NEW ok \in BOOLEAN,
         results' = Append(results, [index |-> i, ok |-> ok])
  PROVE  /\ ResultLeaves' = ResultLeaves \cup {i}
         /\ OkLeaves' = IF ok THEN OkLeaves \cup {i} ELSE OkLeaves
         /\ \A k \in DOMAIN results' :
              results'[k] = [index |-> i, ok |-> ok]
              \/ (k \in DOMAIN results /\ results'[k] = results[k])
<1> DEFINE Results == [index : LeafIndexes, ok : BOOLEAN]
           result == [index |-> i, ok |-> ok]
<1>1. results \in Seq(Results) /\ result \in Results
  BY DEF TypeOK
<1>2. result.index = i /\ result.ok = ok
  OBVIOUS
<1> HIDE DEF Results, result
<1>3. results' = Append(results, result)
  BY DEF result
<1>4. /\ DOMAIN results = 1 .. Len(results) /\ Len(results) \in Nat
      /\ DOMAIN results' = 1 .. Len(results) + 1
      /\ \A k \in 1 .. Len(results) : results'[k] = results[k]
      /\ results'[Len(results) + 1] = result
  BY <1>1, <1>3, AppendProperties, LenProperties
<1>5. ResultLeaves' = ResultLeaves \cup {i}
  <2>1. \A j : j \in ResultLeaves' => j \in ResultLeaves \cup {i}
    BY <1>2, <1>4 DEF ResultLeaves
  <2>2. \A j : j \in ResultLeaves \cup {i} => j \in ResultLeaves'
    BY <1>2, <1>4 DEF ResultLeaves
  <2> QED
    BY <2>1, <2>2
<1>6. OkLeaves' = IF ok THEN OkLeaves \cup {i} ELSE OkLeaves
  <2>1. \A j : j \in OkLeaves' => j \in OkLeaves \/ (ok /\ j = i)
    BY <1>2, <1>4 DEF OkLeaves
  <2>2. \A j : j \in OkLeaves => j \in OkLeaves'
    BY <1>4 DEF OkLeaves
  <2>3. ok => i \in OkLeaves'
    BY <1>2, <1>4 DEF OkLeaves
  <2> QED
    BY <2>1, <2>2, <2>3
<1>7. \A k \in DOMAIN results' :
        results'[k] = result \/ (k \in DOMAIN results /\ results'[k] = results[k])
  BY <1>4
<1> QED
  BY <1>5, <1>6, <1>7 DEF result

\* A result that is received takes its leaf with it.
LEMMA ResultReceived ==
  ASSUME TypeOK, OnceInv, results # <<>>, results' = Tail(results)
  PROVE  /\ Head(results).index \in ResultLeaves \cap LeafIndexes
         /\ Head(results).ok => Head(results).index \in OkLeaves
         /\ \A j \in ResultLeaves : j = Head(results).index \/ j \in ResultLeaves'
         /\ \A j \in OkLeaves : j = Head(results).index \/ j \in OkLeaves'
         /\ ResultLeaves' \subseteq ResultLeaves \ {Head(results).index}
         /\ OkLeaves' \subseteq OkLeaves
         /\ \A k \in DOMAIN results' :
              k + 1 \in DOMAIN results /\ results'[k] = results[k + 1]
         /\ Head(results) = results[1] /\ 1 \in DOMAIN results
<1> DEFINE Results == [index : LeafIndexes, ok : BOOLEAN]
<1>1. results \in Seq(Results)
  BY DEF TypeOK
<1>2. \A r \in Results : r.index \in LeafIndexes
  OBVIOUS
<1> HIDE DEF Results
<1>3. /\ DOMAIN results = 1 .. Len(results) /\ Len(results) \in Nat \ {0}
      /\ DOMAIN results' = 1 .. Len(results) - 1
      /\ \A k \in 1 .. Len(results) - 1 : results'[k] = results[k + 1]
      /\ Head(results) = results[1] /\ Head(results) \in Results
  BY <1>1, HeadTailProperties, LenProperties, EmptySeq
<1>4. /\ Head(results).index \in ResultLeaves \cap LeafIndexes
      /\ Head(results).ok => Head(results).index \in OkLeaves
  BY <1>2, <1>3 DEF ResultLeaves, OkLeaves
<1>5. \A k \in DOMAIN results : k = 1 \/ (k - 1 \in DOMAIN results' /\ results[k] = results'[k - 1])
  BY <1>3
<1>6. \A k \in DOMAIN results' : k + 1 \in DOMAIN results /\ results'[k] = results[k + 1]
  BY <1>3
<1>7. \A j \in ResultLeaves : j = Head(results).index \/ j \in ResultLeaves'
  BY <1>3, <1>5 DEF ResultLeaves
<1>8. \A j \in OkLeaves : j = Head(results).index \/ j \in OkLeaves'
  BY <1>3, <1>5 DEF OkLeaves
<1>9. ResultLeaves' \subseteq ResultLeaves \ {Head(results).index}
  <2> SUFFICES ASSUME NEW k \in DOMAIN results'
               PROVE  /\ results'[k].index \in ResultLeaves
                      /\ results'[k].index # Head(results).index
    BY DEF ResultLeaves
  <2>1. k + 1 \in DOMAIN results /\ results'[k] = results[k + 1]
    BY <1>6
  <2>2. k + 1 # 1 /\ 1 \in DOMAIN results
    BY <1>3
  <2> QED
    BY <1>3, <2>1, <2>2 DEF ResultLeaves, OnceInv
<1>10. OkLeaves' \subseteq OkLeaves
  BY <1>6 DEF OkLeaves
<1> QED
  BY <1>3, <1>4, <1>6, <1>7, <1>8, <1>9, <1>10

\* What only the collector touches.
LEMMA CollectorOwns ==
  ASSUME TypeOK, [Next]_vars, ~ Collector
  PROVE  UNCHANGED <<collector, ready, next, released, failed, produced>>
<1>1. CASE UNCHANGED vars \/ Expire \/ Consumer
  BY <1>1 DEF vars, Expire, Consumer, Receive, ReceiveEnds, Handle, HandleFails,
              Report, ConsumerAlone, collectorVars
<1>2. ASSUME NEW w \in WorkerIds, Worker(w)
      PROVE  UNCHANGED <<collector, ready, next, released, failed, produced>>
  BY <1>2, WorkerMoves DEF collectorVars
<1> QED
  BY <1>1, <1>2 DEF Next, Finished

\* The results change by a worker that sends one and the collector that takes
\* one.
LEMMA ResultsMove ==
  ASSUME TypeOK, [Next]_vars
  PROVE  \/ results' = results
         \/ Collect
         \/ \E w \in WorkerIds : Worker(w) /\ results' # results
<1>1. CASE UNCHANGED vars \/ Expire \/ Consumer
  BY <1>1 DEF vars, Expire, Consumer, Receive, ReceiveEnds, Handle, HandleFails,
              Report, ConsumerAlone
<1>2. CASE Collector
  BY <1>2 DEF Collector, Collect, CollectEnds, SendFails, DeliverLeaf,
              DeliverEpochEnd, Delivered, Return
<1> QED
  BY <1>1, <1>2 DEF Next, Finished

\* A leaf is handed to the consumer when it is next and ready, and by no other
\* step.
LEMMA HandedOn ==
  ASSUME TypeOK, ControlInv, [Next]_vars, NEW i \in LeafIndexes
  PROVE  /\ Handed(i)' => Handed(i) \/ (DeliverLeaf /\ i = next)
         /\ Handed(i) /\ Collecting' => Handed(i)'
         /\ DeliverLeaf /\ i = next => Handed(i)'
<1> DEFINE turn == next'
<1>1. i \in Nat /\ next \in Nat /\ turn \in Nat
  BY OneWay DEF TypeOK, LeafIndexes
<1>2. CASE ~ Collector
  <2>1. UNCHANGED <<collector, next>> /\ ~ DeliverLeaf
    BY <1>2, CollectorOwns DEF Collector
  <2> QED
    BY <2>1 DEF Handed
<1>3. CASE DeliverLeaf
  <2>1. collector = "deliver"
        /\ \/ collector' = "end" /\ turn = next
           \/ collector' = "deliver" /\ turn = next + 1
    BY <1>3 DEF DeliverLeaf, Release
  <2> HIDE DEF turn
  <2>2. (i < turn \/ (i = turn /\ collector' = "end")) <=> (i < next \/ i = next)
    BY <1>1, <2>1
  <2>3. Handed(i) <=> i < next
    BY <2>1 DEF Handed
  <2>4. Handed(i)' <=> i < turn \/ (i = turn /\ collector' = "end")
    BY DEF Handed, turn
  <2> QED
    BY <1>3, <2>2, <2>3, <2>4
<1>4. CASE DeliverEpochEnd
  <2>1. collector = "end" /\ collector' = "deliver" /\ turn = next + 1 /\ ~ DeliverLeaf
    BY <1>4 DEF DeliverEpochEnd, DeliverLeaf, Release
  <2> HIDE DEF turn
  <2>2. i < turn <=> (i < next \/ i = next)
    BY <1>1, <2>1
  <2> QED
    BY <2>1, <2>2 DEF Handed, turn
<1>5. CASE Collect \/ CollectEnds \/ SendFails \/ Delivered \/ Return
  <2>1. next' = next /\ collector' # "end" /\ (collector = "end" => ~ Collecting') /\ ~ DeliverLeaf
    BY <1>5 DEF Collect, CollectEnds, SendFails, Delivered, Return, DeliverLeaf, Collecting
  <2> QED
    BY <2>1 DEF Handed
<1> QED
  BY <1>2, <1>3, <1>4, <1>5 DEF Collector

\* The results a worker sends are of leaves that are nowhere else yet.
LEMMA SentIsNew ==
  ASSUME TypeOK, WorkerInv, WaitingInv, HandedInv,
         NEW w \in WorkerIds, pc[w] \in {"failed", "sending"}
  PROVE  /\ at[w] \in LeafIndexes /\ at[w] \notin ResultLeaves \cup ready
         /\ ~ Handed(at[w]) /\ at[w] < next + Window
<1>1. at[w] \in LeafIndexes /\ at[w] \in Nat
  BY DEF TypeOK, LeafIndexes
<1>2. Owner(at[w]) = w /\ at[w] < next + Window
  BY DEF WorkerInv
<1>3. ~ SentBy(at[w], {"done"})
  BY <1>1, <1>2 DEF SentBy
<1> QED
  BY <1>1, <1>2, <1>3 DEF WaitingInv, HandedInv

\* What is with the collector is due, within the window and sent.
LEMMA WaitingStep ==
  /\ TypeOK /\ ControlInv /\ WorkerInv /\ WaitingInv /\ HandedInv /\ OnceInv
  /\ [Next]_vars
  => WaitingInv'
<1> SUFFICES ASSUME TypeOK, ControlInv, WorkerInv, WaitingInv, HandedInv, OnceInv,
                    [Next]_vars,
                    NEW i \in (ResultLeaves \cup ready)'
             PROVE  (next <= i /\ i < next + Window /\ ~ Handed(i) /\ SentBy(i, {"done"}))'
  BY DEF WaitingInv
<1> DEFINE turn == next'
<1>1. /\ next \in Nat /\ turn \in Nat /\ (turn = next \/ turn = next + 1)
      /\ Window \in Nat
  BY OneWay, IngestAssumption DEF TypeOK
<1>2. SUFFICES ASSUME i \in LeafIndexes, i < next + Window, ~ Handed(i)',
                      SentBy(i, {"done"})'
               PROVE  turn <= i /\ i < turn + Window
  <2>1. CASE i \in ResultLeaves \cup ready
    <3>1. i \in LeafIndexes
      BY <2>1, ResultTypes DEF TypeOK
    <3>2. i < next + Window /\ ~ Handed(i) /\ SentBy(i, {"done"})
      BY <2>1 DEF WaitingInv
    <3>3. SentBy(i, {"done"})'
      BY <3>1, <3>2, SentByStays
    <3>4. ~ (DeliverLeaf /\ i = next)
      <4> SUFFICES ASSUME DeliverLeaf, i = next PROVE FALSE
        OBVIOUS
      <4>1. next \in ready /\ ready' = ready \ {next} /\ results' = results
        BY DEF DeliverLeaf
      <4>2. next \notin ResultLeaves' /\ next \notin ready'
        BY <4>1 DEF OnceInv, ResultLeaves
      <4> QED
        BY <4>2
    <3>5. ~ Handed(i)'
      BY <3>1, <3>2, <3>4, HandedOn
    <3> QED
      BY <1>2, <3>1, <3>2, <3>3, <3>5 DEF turn
  <2>2. CASE i \notin ResultLeaves \cup ready
    <3>1. ~ Collect
      <4> SUFFICES ASSUME Collect PROVE FALSE
        OBVIOUS
      <4>1. results # <<>> /\ results' = Tail(results)
        BY DEF Collect
      <4>2. ready' \subseteq ready \cup {Head(results).index}
        BY DEF Collect
      <4> QED
        BY <2>2, <4>1, <4>2, ResultReceived
    <3>2. ready' \subseteq ready
      BY <3>1, CollectorOwns
      DEF Collector, CollectEnds, SendFails, DeliverLeaf, DeliverEpochEnd,
          Delivered, Return
    <3>3. results' # results
      BY <2>2, <3>2 DEF ResultLeaves
    <3>4. PICK w \in WorkerIds : Worker(w)
      BY <3>1, <3>3, ResultsMove
    <3>5. PICK ok \in BOOLEAN :
            /\ pc[w] \in {"failed", "sending"}
            /\ results' = Append(results, [index |-> at[w], ok |-> ok])
            /\ \/ pc'[w] = "done" /\ at'[w] = at[w]
               \/ at'[w] = at[w] + NumWorkers
      BY <3>3, <3>4, SendsOne
    <3>6. /\ at[w] \in LeafIndexes /\ ~ Handed(at[w]) /\ at[w] < next + Window
          /\ Owner(at[w]) = w
      BY <3>5, SentIsNew DEF WorkerInv
    <3>7. i = at[w]
      BY <2>2, <3>2, <3>5, <3>6, ResultSent
    <3>8. ~ Handed(i)'
      <4>1. UNCHANGED <<next, collector>>
        BY <3>4, WorkerMoves DEF collectorVars
      <4> QED
        BY <3>6, <3>7, <4>1 DEF Handed
    <3>9. SentBy(i, {"done"})'
      <4>1. at[w] \in Nat /\ NumWorkers \in Nat \ {0}
        BY <3>6, Owners DEF LeafIndexes
      <4>2. i < at'[w] \/ (i = at'[w] /\ pc'[w] = "done")
        BY <3>5, <3>7, <4>1
      <4> QED
        BY <3>6, <3>7, <4>2 DEF SentBy
    <3> QED
      BY <1>2, <3>6, <3>7, <3>8, <3>9 DEF turn
  <2> QED
    BY <2>1, <2>2
<1>3. i \in Nat /\ ~ (i < turn)
  BY <1>2 DEF Handed, LeafIndexes
<1> HIDE DEF turn
<1> QED
  BY <1>1, <1>2, <1>3

\* What was handed to the consumer was sent and is posted.
LEMMA HandedStep ==
  /\ TypeOK /\ ControlInv /\ WaitingInv /\ HandedInv /\ OnceInv /\ [Next]_vars
  => HandedInv'
<1> SUFFICES ASSUME TypeOK, ControlInv, WaitingInv, HandedInv, OnceInv, [Next]_vars,
                    NEW i \in LeafIndexes, Handed(i)'
             PROVE  SentBy(i, {"done"})' /\ i \in posted'
  BY DEF HandedInv
<1>1. CASE Handed(i)
  BY <1>1, SentByStays, OneWay DEF HandedInv
<1>2. CASE DeliverLeaf /\ i = next
  <2>1. i \in ready
    BY <1>2 DEF DeliverLeaf
  <2>2. SentBy(i, {"done"}) /\ i \in posted
    BY <2>1 DEF WaitingInv, OnceInv
  <2> QED
    BY <2>2, SentByStays, OneWay
<1> QED
  BY <1>1, <1>2, HandedOn

\* A leaf is acknowledged once, and only if it is posted.
LEMMA OnceStep ==
  /\ TypeOK /\ ControlInv /\ WorkerInv /\ WaitingInv /\ HandedInv /\ OnceInv
  /\ [Next]_vars
  => OnceInv'
<1> SUFFICES ASSUME TypeOK, ControlInv, WorkerInv, WaitingInv, HandedInv, OnceInv,
                    [Next]_vars
             PROVE  OnceInv'
  OBVIOUS
<1>0. posted \subseteq posted'
  BY OneWay
<1>1. CASE Collect
  <2>1. results # <<>> /\ results' = Tail(results)
    BY <1>1 DEF Collect
  <2>2. /\ Head(results).ok => ready' = ready \cup {Head(results).index}
        /\ ~ Head(results).ok => ready' = ready
    BY <1>1 DEF Collect
  <2>3. ASSUME NEW j \in DOMAIN results', NEW k \in DOMAIN results',
               results'[j].index = results'[k].index
        PROVE  j = k
    <3>1. /\ j + 1 \in DOMAIN results /\ results'[j] = results[j + 1]
          /\ k + 1 \in DOMAIN results /\ results'[k] = results[k + 1]
      BY <2>1, ResultReceived
    <3>2. j + 1 = k + 1
      BY <2>3, <3>1 DEF OnceInv
    <3>3. j \in Int /\ k \in Int
      <4>1. DOMAIN results' = 1 .. Len(results')
        BY TypeStep, LenProperties DEF TypeOK
      <4> QED
        BY <4>1
    <3> QED
      BY <3>2, <3>3
  <2>4. ResultLeaves' \cap ready' = {}
    BY <2>1, <2>2, ResultReceived DEF OnceInv
  <2>5. ready' \cup OkLeaves' \subseteq posted
    BY <2>1, <2>2, ResultReceived DEF OnceInv
  <2> QED
    BY <1>0, <2>3, <2>4, <2>5 DEF OnceInv
<1>2. CASE results' = results
  <2>1. ResultLeaves' = ResultLeaves /\ OkLeaves' = OkLeaves
    BY <1>2 DEF ResultLeaves, OkLeaves
  <2>2. CASE Collect
    BY <1>1, <2>2
  <2>3. CASE ~ Collect
    <3>1. ready' \subseteq ready
      BY <2>3, CollectorOwns
      DEF Collector, CollectEnds, SendFails, DeliverLeaf, DeliverEpochEnd,
          Delivered, Return
    <3> QED
      BY <1>0, <1>2, <2>1, <3>1 DEF OnceInv
  <2> QED
    BY <2>2, <2>3
<1>3. ASSUME NEW w \in WorkerIds, Worker(w), results' # results PROVE OnceInv'
  <2>1. PICK ok \in BOOLEAN :
          /\ pc[w] \in {"failed", "sending"} /\ (ok => pc[w] = "sending")
          /\ results' = Append(results, [index |-> at[w], ok |-> ok])
    BY <1>3, SendsOne
  <2>2. at[w] \in LeafIndexes /\ at[w] \notin ResultLeaves \cup ready
    BY <2>1, SentIsNew
  <2>3. ready' = ready
    BY <1>3, WorkerMoves DEF collectorVars
  <2>4. ok => at[w] \in posted
    BY <2>1 DEF WorkerInv
  <2>5. /\ ResultLeaves' = ResultLeaves \cup {at[w]}
        /\ OkLeaves' \subseteq OkLeaves \cup (IF ok THEN {at[w]} ELSE {})
    BY <2>1, <2>2, ResultSent
  <2>6. ASSUME NEW j \in DOMAIN results', NEW k \in DOMAIN results',
               results'[j].index = results'[k].index
        PROVE  j = k
    <3> DEFINE Results == [index : LeafIndexes, ok : BOOLEAN]
               result == [index |-> at[w], ok |-> ok]
    <3>1. results \in Seq(Results) /\ result \in Results /\ result.index = at[w]
      BY <2>2 DEF TypeOK
    <3>2. results' = Append(results, result)
      BY <2>1
    <3> HIDE DEF Results, result
    <3>3. /\ DOMAIN results' = 1 .. Len(results) + 1 /\ DOMAIN results = 1 .. Len(results)
          /\ Len(results) \in Nat
          /\ \A n \in 1 .. Len(results) : results'[n] = results[n]
          /\ results'[Len(results) + 1] = result
      BY <3>1, <3>2, AppendProperties, LenProperties
    <3>4. \A n \in DOMAIN results : results'[n].index # at[w]
      BY <2>2, <3>3 DEF ResultLeaves
    <3>5. CASE j \in DOMAIN results /\ k \in DOMAIN results
      BY <2>6, <3>3, <3>5 DEF OnceInv
    <3>6. CASE j = Len(results) + 1 /\ k = Len(results) + 1
      BY <3>6
    <3>7. CASE (j = Len(results) + 1 /\ k \in DOMAIN results)
               \/ (k = Len(results) + 1 /\ j \in DOMAIN results)
      BY <2>6, <3>1, <3>3, <3>4, <3>7
    <3> QED
      BY <3>3, <3>5, <3>6, <3>7
  <2>7. ResultLeaves' \cap ready' = {}
    BY <2>2, <2>3, <2>5 DEF OnceInv
  <2>8. ready' \cup OkLeaves' \subseteq posted
    BY <2>3, <2>4, <2>5 DEF OnceInv
  <2> QED
    BY <1>0, <2>6, <2>7, <2>8 DEF OnceInv
<1> QED
  BY <1>1, <1>2, <1>3, ResultsMove
-----------------------------------------------------------------------------
(* Why a run stops.                                                          *)

\* A worker that leaves off for another reason than the end of its leaves does
\* so in a run that stops.
LEMMA WorkerLeaves ==
  ASSUME TypeOK, CauseInv, NEW w \in WorkerIds, Worker(w), pc'[w] = "done", Collecting
  PROVE  \/ Excused
         \/ /\ pc[w] = "sending" /\ at'[w] = at[w] /\ at[w] + NumWorkers >= Total
            /\ results' = Append(results, [index |-> at[w], ok |-> TRUE])
<1>0. \A place : pc' = [pc EXCEPT ![w] = place] => pc'[w] = place
  BY DEF TypeOK
<1> USE DEF Goto
<1>1. CASE SendLeaf(w)
  <2>1. at[w] \in LeafIndexes /\ NumWorkers \in Nat /\ Total \in Nat
    BY Owners, ScheduleAssumption DEF TypeOK
  <2>2. ~ (at[w] + NumWorkers < Total)
    BY <1>0, <1>1 DEF SendLeaf
  <2>3. at[w] + NumWorkers >= Total
    BY <2>1, <2>2 DEF LeafIndexes
  <2> QED
    BY <1>1, <2>2, <2>3 DEF SendLeaf, SendResult
<1>2. CASE Wait(w) \/ CheckPosted(w)
  <2>1. stop \/ expired
    BY <1>0, <1>2 DEF Wait, CheckPosted
  <2> QED
    BY <2>1 DEF CauseInv, Excused
<1>3. CASE SendError(w)
  BY <1>3 DEF SendError, CauseInv, Excused
<1>4. CASE TestWindow(w) \/ Pace(w) \/ Post(w) \/ PostFails(w)
  <2>1. pc'[w] \in {"due", "waiting", "posted", "posting", "failed"}
    BY <1>0, <1>4 DEF TestWindow, Pace, Post, PostFails
  <2> QED
    BY <2>1
<1> QED
  BY <1>1, <1>2, <1>3, <1>4 DEF Worker

\* As long as nothing stopped the run, a leaf its worker is done with has
\* reached the collector.
LEMMA ArrivedStep ==
  /\ TypeOK /\ ControlInv /\ CauseInv /\ WorkerInv /\ WaitingInv /\ HandedInv
  /\ OnceInv /\ ArrivedInv /\ [Next]_vars
  => ArrivedInv'
<1> SUFFICES ASSUME TypeOK, ControlInv, CauseInv, WorkerInv, WaitingInv, HandedInv,
                    OnceInv, ArrivedInv, [Next]_vars, Collecting', ~ Excused'
             PROVE  /\ \A i \in LeafIndexes : i < (at[Owner(i)])' => Arrived(i)'
                    /\ \A w \in WorkerIds :
                         pc'[w] = "done" => (Arrived(at[w]) /\ at[w] + NumWorkers >= Total)'
  BY DEF ArrivedInv
<1>1. Collecting /\ ~ Excused
  BY OneWay
<1>2. ASSUME NEW i \in LeafIndexes, Arrived(i) PROVE Arrived(i)'
  <2>1. CASE Handed(i)
    BY <2>1, HandedOn DEF Arrived
  <2>2. CASE i \in ready
    <3>1. i \in ready' \/ (DeliverLeaf /\ i = next)
      BY <2>2, CollectorOwns
      DEF Collector, Collect, CollectEnds, SendFails, DeliverLeaf, DeliverEpochEnd,
          Delivered, Return
    <3> QED
      BY <3>1, HandedOn DEF Arrived
  <2>3. CASE i \in OkLeaves
    <3>1. CASE results' = results
      BY <2>3, <3>1 DEF Arrived, OkLeaves
    <3>2. CASE Collect
      <4>1. results # <<>> /\ results' = Tail(results)
        BY <3>2 DEF Collect
      <4>2. Head(results).ok /\ ready' = ready \cup {Head(results).index}
        BY <3>2 DEF Collect, Collecting
      <4>3. i = Head(results).index \/ i \in OkLeaves'
        BY <2>3, <4>1, ResultReceived
      <4> QED
        BY <4>2, <4>3 DEF Arrived
    <3>3. ASSUME NEW w \in WorkerIds, Worker(w), results' # results PROVE Arrived(i)'
      <4>1. PICK ok \in BOOLEAN : results' = Append(results, [index |-> at[w], ok |-> ok])
        BY <3>3, SendsOne
      <4>2. at[w] \in LeafIndexes
        BY DEF TypeOK
      <4>3. OkLeaves \subseteq OkLeaves'
        BY <4>1, <4>2, ResultSent
      <4> QED
        BY <2>3, <4>3 DEF Arrived
    <3> QED
      BY <3>1, <3>2, <3>3, ResultsMove
  <2> QED
    BY <1>2, <2>1, <2>2, <2>3 DEF Arrived
<1>3. ASSUME NEW w \in WorkerIds, Worker(w), pc[w] = "sending",
             results' = Append(results, [index |-> at[w], ok |-> TRUE])
      PROVE  at[w] \in LeafIndexes /\ \A i \in LeafIndexes : i = at[w] => Arrived(i)'
  <2>1. at[w] \in LeafIndexes
    BY DEF TypeOK
  <2>2. at[w] \in OkLeaves'
    BY <1>3, <2>1, ResultSent
  <2> QED
    BY <2>1, <2>2 DEF Arrived
<1>4. ASSUME NEW i \in LeafIndexes, i < (at[Owner(i)])' PROVE Arrived(i)'
  <2> DEFINE w == Owner(i)
  <2>1. w \in WorkerIds /\ i \in Nat /\ NumWorkers \in Nat \ {0}
    BY Owners DEF LeafIndexes
  <2>2. at[w] \in Nat /\ Owner(at[w]) = w
    BY <2>1 DEF TypeOK, WorkerInv, LeafIndexes
  <2>3. i < at'[w]
    BY <1>4 DEF Owner
  <2>4. CASE i < at[w]
    BY <1>1, <1>2, <2>4 DEF ArrivedInv
  <2>5. CASE ~ (i < at[w])
    <3>1. at'[w] # at[w]
      BY <2>3, <2>5
    <3>2. Worker(w)
      BY <2>1, <3>1, Moves
    <3>3. /\ pc[w] = "sending" /\ at'[w] = at[w] + NumWorkers
          /\ results' = Append(results, [index |-> at[w], ok |-> TRUE])
      BY <2>1, <3>1, <3>2, NextAssignment
    <3>4. i = at[w]
      <4>1. i < at[w] + NumWorkers /\ at[w] <= i
        BY <2>1, <2>2, <2>3, <2>5, <3>3
      <4>2. at[w] < i => at[w] + NumWorkers <= i
        BY <2>1, <2>2, Owners
      <4> HIDE DEF w
      <4> QED
        BY <2>1, <2>2, <4>1, <4>2
    <3> QED
      BY <1>3, <2>1, <3>2, <3>3, <3>4
  <2> QED
    BY <2>4, <2>5
<1>5. ASSUME NEW w \in WorkerIds, pc'[w] = "done"
      PROVE  (Arrived(at[w]) /\ at[w] + NumWorkers >= Total)'
  <2>1. at[w] \in LeafIndexes
    BY DEF TypeOK
  <2>2. CASE pc[w] = "done" /\ at'[w] = at[w]
    <3>1. Arrived(at[w]) /\ at[w] + NumWorkers >= Total
      BY <1>1, <2>2 DEF ArrivedInv
    <3>2. \A i \in LeafIndexes : i = at[w] => Arrived(i)'
      BY <1>2, <3>1
    <3> QED
      BY <2>1, <2>2, <3>1, <3>2
  <2>3. CASE Worker(w)
    <3>1. /\ pc[w] = "sending" /\ at'[w] = at[w] /\ at[w] + NumWorkers >= Total
          /\ results' = Append(results, [index |-> at[w], ok |-> TRUE])
      BY <1>1, <1>5, <2>3, WorkerLeaves
    <3>2. \A i \in LeafIndexes : i = at[w] => Arrived(i)'
      BY <1>3, <2>3, <3>1
    <3> QED
      BY <2>1, <3>1, <3>2
  <2> QED
    BY <1>5, <2>2, <2>3, Moves
<1> QED
  BY <1>4, <1>5

\* If all senders are gone and nothing stopped the run, every leaf was delivered.
LEMMA EndsAfterAll ==
  ASSUME TypeOK, ControlInv, WorkerInv, ArrivedInv, CollectEnds, ~ Excused
  PROVE  next = Total
<1> SUFFICES ASSUME next \in LeafIndexes PROVE FALSE
  BY ScheduleAssumption DEF TypeOK, LeafIndexes
<1> DEFINE w == Owner(next)
<1>0. next \in Nat /\ NumWorkers \in Nat /\ w \in WorkerIds
  BY Owners DEF LeafIndexes
<1>1. collector = "receive" /\ results = <<>> /\ pc[w] = "done"
  BY <1>0 DEF CollectEnds, WorkersDone
<1>2. ~ Arrived(next)
  BY <1>0, <1>1 DEF Arrived, Handed, OkLeaves, ControlInv
<1>3. at[w] \in Nat /\ Owner(at[w]) = w
  BY <1>0 DEF TypeOK, WorkerInv, LeafIndexes
<1>4. /\ next < at[w] => Arrived(next)
      /\ Arrived(at[w]) /\ at[w] + NumWorkers >= Total
  BY <1>0, <1>1 DEF ArrivedInv, Collecting
<1>5. at[w] < next => at[w] + NumWorkers <= next
  BY <1>0, <1>3, Owners
<1>6. next < Total /\ Total \in Nat
  BY ScheduleAssumption DEF LeafIndexes
<1>7. next # at[w]
  BY <1>2, <1>4
<1> HIDE DEF w
<1> QED
  BY <1>0, <1>2, <1>3, <1>4, <1>5, <1>6, <1>7

\* The flags say why they are set: a failure, the deadline or the end of the
\* leaves.
LEMMA CauseStep ==
  /\ TypeOK /\ ControlInv /\ CauseInv /\ WorkerInv /\ ArrivedInv /\ [Next]_vars
  => CauseInv'
<1> SUFFICES ASSUME TypeOK, ControlInv, CauseInv, WorkerInv, ArrivedInv, [Next]_vars
             PROVE  CauseInv'
  OBVIOUS
<1>0. /\ ~ Collecting => ~ Collecting'
      /\ ~ QueueOpen => ~ QueueOpen'
      /\ Excused => Excused'
      /\ expired => expired'
      /\ faults # {} => faults' # {}
      /\ collector = "returned" => collector' = "returned"
  BY OneWay
<1> USE DEF StopFor, RaiseStop, RaiseStopAt
<1>1. CASE Expire \/ UNCHANGED vars
  BY <1>0, <1>1
  DEF Expire, vars, stopVars, workerVars, collectorVars, consumerVars, CauseInv,
      Collecting, QueueOpen, Excused
<1>2. ASSUME NEW w \in WorkerIds, Worker(w) PROVE CauseInv'
  <2>1. UNCHANGED <<collector, consumer, next, failed, reason, saturated, produced, expired>>
    BY <1>2, WorkerMoves DEF collectorVars, consumerVars
  <2>2. stop' => Excused' \/ ~ Collecting'
    <3>1. CASE UNCHANGED stop
      BY <1>0, <3>1 DEF CauseInv
    <3>2. CASE (Wait(w) \/ Pace(w) \/ CheckPosted(w)) /\ (stop \/ expired)
      BY <1>0, <3>2 DEF CauseInv, Excused
    <3>3. CASE PostFails(w)
      BY <3>3 DEF PostFails, Excused
    <3> QED
      BY <1>2, <3>1, <3>2, <3>3
      DEF Worker, TestWindow, Wait, Pace, Post, SendError, CheckPosted, SendLeaf, stopVars
  <2>3. \A v \in WorkerIds : pc'[v] = "failed" => faults' # {}
    <3> SUFFICES ASSUME NEW v \in WorkerIds, pc'[v] = "failed", pc[v] # "failed"
                 PROVE  faults' # {}
      BY <1>0 DEF CauseInv
    <3>1. Worker(v)
      BY Moves
    <3>2. \A place : pc' = [pc EXCEPT ![v] = place] => pc'[v] = place
      BY DEF TypeOK
    <3>3. CASE PostFails(v)
      BY <3>3 DEF PostFails
    <3>4. CASE TestWindow(v) \/ Wait(v) \/ Pace(v) \/ Post(v)
      <4>1. pc'[v] \in {"due", "waiting", "done", "window", "posted", "posting"}
        BY <3>2, <3>4 DEF TestWindow, Wait, Pace, Post, Goto
      <4> QED
        BY <4>1
    <3>5. CASE SendError(v) \/ CheckPosted(v) \/ SendLeaf(v)
      <4>1. pc'[v] \in {"done", "sending", "window"}
        BY <3>2, <3>5 DEF SendError, CheckPosted, SendLeaf, Goto
      <4> QED
        BY <4>1
    <3> QED
      BY <3>1, <3>3, <3>4, <3>5 DEF Worker
  <2>4. \A k \in DOMAIN results' : ~ results'[k].ok => faults' # {}
    <3>1. CASE results' = results
      BY <1>0, <3>1 DEF CauseInv
    <3>2. CASE results' # results
      <4>1. PICK ok \in BOOLEAN :
              /\ results' = Append(results, [index |-> at[w], ok |-> ok])
              /\ ~ ok => pc[w] = "failed"
        BY <1>2, <3>2, SendsOne
      <4>2. at[w] \in LeafIndexes
        BY DEF TypeOK
      <4>3. ~ ok => faults' # {}
        BY <1>0, <4>1 DEF CauseInv
      <4>4. \A k \in DOMAIN results' :
              results'[k] = [index |-> at[w], ok |-> ok]
              \/ (k \in DOMAIN results /\ results'[k] = results[k])
        BY <4>1, <4>2, ResultSent
      <4> QED
        BY <1>0, <4>3, <4>4 DEF CauseInv
    <3> QED
      BY <3>1, <3>2
  <2> QED
    BY <1>0, <2>1, <2>2, <2>3, <2>4 DEF CauseInv, Collecting, QueueOpen, Excused
<1>3. CASE Collector
  <2>1. UNCHANGED <<pc, consumer, reason, saturated, expired, faults>>
    BY <1>3 DEF Collector, Collect, CollectEnds, SendFails, DeliverLeaf,
                DeliverEpochEnd, Delivered, Return, CollectorAlone, workerVars,
                consumerVars, stopVars
  <2>2. CASE Collect
    <3>1. results # <<>> /\ results' = Tail(results)
      BY <2>2 DEF Collect
    <3>2. Collecting /\ collector = "receive" /\ next' = next /\ produced' = produced
      BY <2>2 DEF Collect, Collecting
    <3>3. \A k \in DOMAIN results' : k + 1 \in DOMAIN results /\ results'[k] = results[k + 1]
      <4> DEFINE Results == [index : LeafIndexes, ok : BOOLEAN]
      <4>1. results \in Seq(Results)
        BY DEF TypeOK
      <4> HIDE DEF Results
      <4>2. DOMAIN results = 1 .. Len(results) /\ DOMAIN results' = 1 .. Len(results) - 1
            /\ Len(results) \in Nat /\ \A k \in 1 .. Len(results) - 1 : results'[k] = results[k + 1]
        BY <3>1, <4>1, HeadTailProperties, LenProperties
      <4> QED
        BY <4>2
    <3>4. \A k \in DOMAIN results' : ~ results'[k].ok => faults' # {}
      BY <2>1, <3>3 DEF CauseInv
    <3>5. ~ Head(results).ok => faults # {}
      <4> DEFINE Results == [index : LeafIndexes, ok : BOOLEAN]
      <4>1. results \in Seq(Results)
        BY DEF TypeOK
      <4> HIDE DEF Results
      <4>2. Head(results) = results[1] /\ 1 \in DOMAIN results
        BY <3>1, <4>1, LenProperties, EmptySeq
      <4> QED
        BY <4>2 DEF CauseInv
    <3>6. CASE Head(results).ok
      <4>1. collector' = "deliver" /\ failed' = failed /\ stop' = stop
        BY <2>2, <3>6 DEF Collect, stopVars
      <4> QED
        BY <2>1, <3>2, <3>4, <4>1 DEF CauseInv, Collecting, QueueOpen, Excused
    <3>7. CASE ~ Head(results).ok
      <4>1. collector' = "join" /\ Excused
        BY <2>2, <3>5, <3>7 DEF Collect, Excused
      <4> QED
        BY <2>1, <3>2, <3>4, <3>5, <3>7, <4>1 DEF CauseInv, Collecting, QueueOpen, Excused
    <3> QED
      BY <3>6, <3>7
  <2>3. CASE CollectEnds
    <3>1. /\ collector = "receive" /\ collector' = "join"
          /\ UNCHANGED <<next, failed, produced, results>>
      BY <2>3 DEF CollectEnds
    <3>2. next = Total \/ Excused
      BY <2>3, EndsAfterAll
    <3> QED
      BY <2>1, <3>1, <3>2 DEF CauseInv, Collecting, QueueOpen, Excused
  <2>4. CASE SendFails
    <3>1. /\ collector \in {"deliver", "end"} /\ collector' = "join" /\ ~ QueueOpen
          /\ UNCHANGED <<next, failed, produced, results>>
      BY <2>4 DEF SendFails
    <3> QED
      BY <2>1, <3>1 DEF CauseInv, Collecting, QueueOpen, Excused
  <2>5. CASE DeliverLeaf \/ DeliverEpochEnd
    <3>1. /\ collector \in {"deliver", "end"} /\ collector' \in {"deliver", "end"}
          /\ UNCHANGED <<failed, produced, results, stop>>
      BY <2>5 DEF DeliverLeaf, DeliverEpochEnd, stopVars
    <3>2. produced # "ok"
      BY <3>1 DEF ControlInv
    <3> QED
      BY <2>1, <3>1, <3>2 DEF CauseInv, Collecting, QueueOpen, Excused
  <2>6. CASE Delivered
    <3>1. /\ collector = "deliver" /\ (collector' = "receive" \/ (collector' = "join" /\ stop))
          /\ UNCHANGED <<next, failed, produced, results, stop>>
      BY <2>6 DEF Delivered, stopVars
    <3> QED
      BY <2>1, <3>1 DEF CauseInv, Collecting, QueueOpen, Excused
  <2>7. CASE Return
    <3>1. /\ collector = "join" /\ collector' = "returned"
          /\ produced' = IF failed \/ (next < Total /\ ~ expired) THEN "error" ELSE "ok"
          /\ UNCHANGED <<next, failed, results, stop>>
      BY <2>7 DEF Return, stopVars
    <3>2. next = Total \/ next < Total
      BY ScheduleAssumption DEF TypeOK
    <3>3. ~ Collecting /\ (next = Total \/ Excused)
      BY <3>1 DEF Collecting, CauseInv
    <3>4. produced' = "error" => faults # {}
      BY <3>1, <3>3, ScheduleAssumption DEF CauseInv, Excused
    <3>5. produced' = "ok" => next = Total \/ expired
      BY <3>1, <3>2
    <3> QED
      BY <2>1, <3>1, <3>3, <3>4, <3>5 DEF CauseInv, Collecting, QueueOpen, Excused
  <2> QED
    BY <1>3, <2>2, <2>3, <2>4, <2>5, <2>6, <2>7 DEF Collector
<1>4. CASE Consumer
  <2>1. UNCHANGED <<pc, collector, next, failed, produced, results, expired>>
    BY <1>4 DEF Consumer, Receive, ReceiveEnds, Handle, HandleFails, Report,
                ConsumerAlone, workerVars, collectorVars
  <2>2. CASE Receive
    <3>1. /\ reason' = reason /\ consumer = "receive" /\ faults' = faults
          /\ \/ expired
             \/ UNCHANGED <<stop, saturated>> /\ consumer' = "work"
      BY <2>2 DEF Receive, LeaveLoop, stopVars
    <3> QED
      BY <2>1, <3>1 DEF CauseInv, Collecting, QueueOpen, Excused
  <2>3. CASE ReceiveEnds
    <3>1. collector = "returned" /\ UNCHANGED <<reason, saturated, faults>>
      BY <2>3 DEF ReceiveEnds
    <3> QED
      BY <2>1, <3>1 DEF CauseInv, Collecting, QueueOpen, Excused
  <2>4. CASE Handle
    <3>1. consumer = "work" /\ consumer' = "receive" /\ UNCHANGED <<reason, saturated, stop, faults>>
      BY <2>4 DEF Handle, stopVars
    <3> QED
      BY <2>1, <3>1 DEF CauseInv, Collecting, QueueOpen, Excused
  <2>5. CASE HandleFails
    <3>1. faults' # {} /\ saturated' = saturated
      BY <2>5 DEF HandleFails
    <3>2. Excused'
      BY <3>1 DEF Excused
    <3> QED
      BY <2>1, <3>1, <3>2 DEF CauseInv
  <2>6. CASE Report
    <3>1. /\ collector = "returned" /\ UNCHANGED <<stop, faults>>
          /\ reason' = (reason \/ produced = "error")
          /\ saturated' = (saturated \/ expired)
      BY <2>6 DEF Report, stopVars
    <3> QED
      BY <2>1, <3>1 DEF CauseInv, Collecting, QueueOpen, Excused
  <2> QED
    BY <1>4, <2>2, <2>3, <2>4, <2>5, <2>6 DEF Consumer
<1> QED
  BY <1>1, <1>2, <1>3, <1>4 DEF Next, Finished
-----------------------------------------------------------------------------
(* The stream to the consumer.                                               *)

\* Messages, and the one that would come after the last of the schedule.
AnyMessage == [kind : {"leaf", "epochEnd"}, index : Nat]

\* What the stream consists of.
LEMMA StreamTypes ==
  ASSUME TypeOK, MessageOK
  PROVE  /\ handled \in Seq(AnyMessage) /\ queue \in Seq(AnyMessage)
         /\ consumer = "work" => message \in AnyMessage
         /\ Stream \in Seq(AnyMessage) /\ Due \in AnyMessage
         /\ Due.index = next /\ (Due.kind = "leaf" <=> collector # "end")
<1>1. Messages \subseteq AnyMessage
  BY DEF Messages, AnyMessage, LeafIndexes
<1>2. handled \in Seq(AnyMessage) /\ queue \in Seq(AnyMessage)
  BY <1>1, SeqMonotonic DEF TypeOK
<1>3. consumer = "work" => message \in AnyMessage
  BY <1>1 DEF MessageOK
<1>4. Stream \in Seq(AnyMessage)
  <2> DEFINE work == IF consumer = "work" THEN <<message>> ELSE <<>>
  <2>1. work \in Seq(AnyMessage)
    BY <1>3
  <2> HIDE DEF work
  <2>2. handled \o work \in Seq(AnyMessage)
    BY <1>2, <2>1, ConcatProperties
  <2>3. handled \o work \o queue \in Seq(AnyMessage)
    BY <1>2, <2>2, ConcatProperties
  <2> QED
    BY <2>3 DEF Stream, work
<1>5. Due \in AnyMessage /\ Due.index = next /\ (Due.kind = "leaf" <=> collector # "end")
  BY DEF Due, Leaf, EpochEnd, AnyMessage, TypeOK
<1> QED
  BY <1>2, <1>3, <1>4, <1>5

\* What was handled is the beginning of the stream.
LEMMA HandledFirst ==
  ASSUME TypeOK, MessageOK
  PROVE  /\ \A i \in DOMAIN handled : i \in DOMAIN Stream /\ Stream[i] = handled[i]
         /\ InOrder(Stream) => InOrder(handled)
         /\ consumer = "work" /\ InOrder(Stream) => InOrder(Append(handled, message))
<1> DEFINE work == IF consumer = "work" THEN <<message>> ELSE <<>>
<1>1. handled \in Seq(AnyMessage) /\ queue \in Seq(AnyMessage) /\ work \in Seq(AnyMessage)
  BY StreamTypes
<1>2. consumer = "work" => Append(handled, message) = handled \o work
  BY StreamTypes, AppendIsConcat
<1>3. Stream = (handled \o work) \o queue
  BY DEF Stream
<1> HIDE DEF work
<1>4. handled \o work \in Seq(AnyMessage)
  BY <1>1, ConcatProperties
<1>5. InOrder(Stream) => InOrder(handled \o work)
  BY <1>1, <1>3, <1>4, InOrderPrefix
<1>6. InOrder(handled \o work) => InOrder(handled)
  BY <1>1, InOrderPrefix
<1>7. \A i \in DOMAIN handled : i \in DOMAIN Stream /\ Stream[i] = handled[i]
  <2> TAKE i \in DOMAIN handled
  <2>1. i \in 1 .. Len(handled) /\ Len(handled) \in Nat /\ Len(work) \in Nat /\ Len(queue) \in Nat
    BY <1>1, LenProperties
  <2>2. Len(handled \o work) = Len(handled) + Len(work) /\ (handled \o work)[i] = handled[i]
    BY <1>1, <2>1, ConcatProperties
  <2>3. /\ Len(Stream) = Len(handled \o work) + Len(queue)
        /\ Stream[i] = (handled \o work)[i]
    BY <1>1, <1>3, <1>4, <2>1, <2>2, ConcatProperties
  <2>4. DOMAIN Stream = 1 .. Len(Stream)
    BY StreamTypes, LenProperties
  <2> QED
    BY <2>1, <2>2, <2>3, <2>4
<1> QED
  BY <1>2, <1>5, <1>6, <1>7

\* The stream stays, grows by the message that is due, or, when the consumer
\* leaves, shrinks to what it has handled.
LEMMA StreamMoves ==
  ASSUME TypeOK, MessageOK, ControlInv, StreamInv, [Next]_vars
  PROVE  \/ QueueOpen /\ QueueOpen' /\ Stream' = Stream /\ Due' = Due
         \/ /\ QueueOpen /\ QueueOpen' /\ Stream' = Append(Stream, Due)
            /\ Follows(Due, Due') /\ (Due.kind = "leaf" => next \in ready)
         \/ ~ QueueOpen' /\ queue' = <<>> /\ handled' = handled /\ Stream' = handled
<1>0. /\ handled \in Seq(AnyMessage) /\ queue \in Seq(AnyMessage)
      /\ consumer = "work" => message \in AnyMessage
      /\ Due \in AnyMessage /\ next \in Nat
  BY StreamTypes DEF TypeOK
<1>1. CASE UNCHANGED <<handled, message, consumer, queue>> /\ ~ QueueOpen
  <2>1. Stream' = handled
    BY <1>0, <1>1, ConcatEmptySeq DEF Stream, StreamInv, QueueOpen
  <2> QED
    BY <1>1, <2>1 DEF StreamInv, QueueOpen
<1>2. CASE UNCHANGED <<handled, message, consumer, queue, next, collector>> /\ QueueOpen
  BY <1>2 DEF Stream, Due, QueueOpen
<1>3. CASE UNCHANGED vars \/ Expire
  BY <1>1, <1>2, <1>3 DEF vars, Expire, collectorVars, consumerVars
<1>4. ASSUME NEW w \in WorkerIds, Worker(w)
      PROVE  UNCHANGED <<handled, message, consumer, queue, next, collector>>
  BY <1>4, WorkerMoves DEF collectorVars, consumerVars
<1>5. CASE Collector
  <2>1. UNCHANGED <<handled, message, consumer>>
    BY <1>5 DEF Collector, Collect, CollectEnds, SendFails, DeliverLeaf,
                DeliverEpochEnd, Delivered, Return, CollectorAlone, consumerVars
  <2>2. CASE (Collect \/ CollectEnds \/ Delivered \/ Return) /\ QueueOpen
    <3>1. UNCHANGED <<queue, next>> /\ collector # "end" /\ collector' # "end"
      BY <2>2 DEF Collect, CollectEnds, Delivered, Return
    <3> QED
      BY <2>1, <2>2, <3>1 DEF Stream, Due, QueueOpen
  <2>3. CASE (DeliverLeaf \/ DeliverEpochEnd) /\ QueueOpen
    <3>1. queue' = Append(queue, Due)
      BY <2>3 DEF DeliverLeaf, DeliverEpochEnd, Send, Due
    <3>2. Stream' = Append(Stream, Due)
      <4> DEFINE work == IF consumer = "work" THEN <<message>> ELSE <<>>
      <4>1. work \in Seq(AnyMessage)
        BY <1>0
      <4>2. Stream = handled \o work \o queue /\ Stream' = handled \o work \o queue'
        BY <2>1 DEF Stream
      <4> HIDE DEF work
      <4>3. handled \o work \in Seq(AnyMessage)
        BY <1>0, <4>1, ConcatProperties
      <4> QED
        BY <1>0, <3>1, <4>2, <4>3, TakeOver
    <3>3. Follows(Due, Due')
      <4>1. CASE DeliverLeaf /\ LastOfEpoch(next)
        <5>1. Due = Leaf(next) /\ Due' = EpochEnd(next) /\ next \in EpochEnds
          BY <4>1 DEF DeliverLeaf, Due, LastOfEpoch, EpochEnd
        <5> QED
          BY <5>1 DEF Follows, Leaf
      <4>2. CASE DeliverLeaf /\ ~ LastOfEpoch(next)
        <5>1. Due = Leaf(next) /\ Due' = Leaf(next + 1) /\ next \notin EpochEnds
          BY <4>2 DEF DeliverLeaf, Due, LastOfEpoch, Leaf, Release
        <5> QED
          BY <5>1 DEF Follows, Leaf
      <4>3. CASE DeliverEpochEnd
        <5>1. Due = EpochEnd(next) /\ Due' = Leaf(next + 1)
          BY <4>3 DEF DeliverEpochEnd, Due, Leaf, Release
        <5> QED
          BY <5>1 DEF Follows, EpochEnd
      <4> QED
        BY <2>3, <4>1, <4>2, <4>3
    <3>4. Due.kind = "leaf" => next \in ready
      BY <2>3, StreamTypes DEF DeliverLeaf, DeliverEpochEnd
    <3> QED
      BY <2>1, <2>3, <3>2, <3>3, <3>4 DEF QueueOpen
  <2>4. ~ QueueOpen => queue' = queue
    BY <1>5 DEF Collector, Collect, CollectEnds, SendFails, DeliverLeaf,
                DeliverEpochEnd, Delivered, Return, Send
  <2>5. SendFails => ~ QueueOpen
    BY DEF SendFails
  <2> QED
    BY <1>1, <1>5, <2>1, <2>2, <2>3, <2>4, <2>5 DEF Collector
<1>6. CASE Consumer
  <2>1. UNCHANGED <<next, collector>> /\ Due' = Due
    BY <1>6 DEF Consumer, Receive, ReceiveEnds, Handle, HandleFails, Report,
                ConsumerAlone, collectorVars, Due
  <2>2. CASE LeaveLoop /\ handled' = handled
    <3>1. Stream' = handled
      BY <1>0, <2>2, ConcatEmptySeq DEF Stream, LeaveLoop
    <3> QED
      BY <2>2, <3>1 DEF LeaveLoop, QueueOpen
  <2>3. CASE Receive /\ ~ expired
    <3>1. /\ consumer = "receive" /\ consumer' = "work" /\ queue # <<>>
          /\ message' = Head(queue) /\ queue' = Tail(queue) /\ handled' = handled
      BY <2>3 DEF Receive
    <3>2. Head(queue) \in AnyMessage
      BY <1>0, <3>1, HeadTailProperties
    <3>3. Stream = handled \o queue
      BY <1>0, <3>1, <3>2, TakeOver DEF Stream
    <3>4. Stream' = handled \o queue
      BY <1>0, <3>1, <3>2, TakeOver DEF Stream
    <3> QED
      BY <2>1, <3>1, <3>3, <3>4 DEF QueueOpen
  <2>4. CASE Handle
    <3>1. /\ consumer = "work" /\ consumer' = "receive" /\ queue' = queue
          /\ handled' = Append(handled, message)
      BY <2>4 DEF Handle
    <3>2. message \in AnyMessage /\ Append(handled, message) \in Seq(AnyMessage)
      BY <1>0, <3>1, AppendProperties
    <3>3. Stream' = Append(handled, message) \o queue
      BY <1>0, <3>1, <3>2, TakeOver DEF Stream
    <3>4. Stream = handled \o <<message>> \o queue
      BY <3>1 DEF Stream
    <3>5. Stream' = Stream
      BY <1>0, <3>2, <3>3, <3>4, TakeOver
    <3> QED
      BY <2>1, <3>1, <3>5 DEF QueueOpen
  <2>5. CASE Report
    <3>1. consumer = "join" /\ consumer' = "done" /\ UNCHANGED <<handled, queue>>
      BY <2>5 DEF Report
    <3>2. Stream' = handled
      BY <1>0, <3>1, ConcatEmptySeq DEF Stream, StreamInv, QueueOpen
    <3> QED
      BY <3>1, <3>2 DEF StreamInv, QueueOpen
  <2>6. CASE ReceiveEnds \/ HandleFails \/ (Receive /\ expired)
    BY <2>2, <2>6 DEF ReceiveEnds, HandleFails, Receive
  <2> QED
    BY <1>6, <2>3, <2>4, <2>5, <2>6 DEF Consumer
<1> QED
  BY <1>1, <1>2, <1>3, <1>4, <1>5, <1>6 DEF Next, Finished

\* The stream is the schedule in order, up to the message that is due.
LEMMA StreamStep ==
  TypeOK /\ MessageOK /\ ControlInv /\ StreamInv /\ [Next]_vars => StreamInv'
<1> SUFFICES ASSUME TypeOK, MessageOK, ControlInv, StreamInv, [Next]_vars
             PROVE  StreamInv'
  OBVIOUS
<1>0. Stream \in Seq(AnyMessage) /\ Due \in AnyMessage /\ Due' \in AnyMessage
  <2>1. Stream \in Seq(AnyMessage) /\ Due \in AnyMessage
    BY StreamTypes
  <2>2. next' \in Nat
    BY TypeStep DEF TypeOK
  <2>3. Due' \in AnyMessage
    BY <2>2 DEF Due, Leaf, EpochEnd, AnyMessage
  <2> QED
    BY <2>1, <2>3
<1>1. InOrder(handled)
  <2>1. CASE QueueOpen
    <3>1. InOrder(Stream)
      BY <1>0, <2>1, InOrderAppend DEF StreamInv
    <3> QED
      BY <3>1, HandledFirst
  <2> QED
    BY <2>1 DEF StreamInv
<1>2. CASE QueueOpen /\ QueueOpen' /\ Stream' = Stream /\ Due' = Due
  BY <1>2 DEF StreamInv
<1>3. CASE /\ QueueOpen /\ QueueOpen' /\ Stream' = Append(Stream, Due)
           /\ Follows(Due, Due')
  <2>1. InOrder(Append(Append(Stream, Due), Due'))
    BY <1>0, <1>3, InOrderAppend DEF StreamInv
  <2> QED
    BY <1>3, <2>1 DEF StreamInv
<1>4. CASE ~ QueueOpen' /\ queue' = <<>> /\ handled' = handled
  BY <1>1, <1>4 DEF StreamInv
<1> QED
  BY <1>2, <1>3, <1>4, StreamMoves

\* What the consumer gets is on Fabric.
LEMMA OnFabricStep ==
  /\ TypeOK /\ MessageOK /\ ControlInv /\ OnceInv /\ StreamInv /\ OnFabric
  /\ [Next]_vars
  => OnFabric'
<1> SUFFICES ASSUME TypeOK, MessageOK, ControlInv, OnceInv, StreamInv, OnFabric,
                    [Next]_vars, NEW i \in DOMAIN Stream', Stream'[i].kind = "leaf"
             PROVE  Stream'[i].index \in posted'
  BY DEF OnFabric
<1>0. posted \subseteq posted'
  BY OneWay
<1>1. CASE Stream' = Stream
  BY <1>0, <1>1 DEF OnFabric
<1>2. CASE Stream' = Append(Stream, Due) /\ (Due.kind = "leaf" => next \in ready)
  <2>1. Stream \in Seq(AnyMessage) /\ Due \in AnyMessage /\ Due.index = next
    BY StreamTypes
  <2>2. /\ DOMAIN Stream' = 1 .. Len(Stream) + 1 /\ DOMAIN Stream = 1 .. Len(Stream)
        /\ Len(Stream) \in Nat
        /\ \A k \in 1 .. Len(Stream) : Stream'[k] = Stream[k]
        /\ Stream'[Len(Stream) + 1] = Due
    BY <1>2, <2>1, AppendProperties, LenProperties
  <2>3. CASE i \in 1 .. Len(Stream)
    BY <1>0, <2>2, <2>3 DEF OnFabric
  <2>4. CASE i = Len(Stream) + 1
    BY <1>0, <1>2, <2>1, <2>2, <2>4 DEF OnceInv
  <2> QED
    BY <2>2, <2>3, <2>4
<1>3. CASE Stream' = handled
  BY <1>0, <1>3, HandledFirst DEF OnFabric
<1> QED
  BY <1>1, <1>2, <1>3, StreamMoves
-----------------------------------------------------------------------------
(* What the consumer commits and reports.                                    *)

\* What a sequence in order ends with, and what comes after it.
LEMMA LastFollows ==
  ASSUME NEW S, NEW s \in Seq(S), NEW m \in S, InOrder(Append(s, m))
  PROVE  /\ s = <<>> => m = Leaf(0)
         /\ s # <<>> => s[Len(s)] \in S /\ Follows(s[Len(s)], m)
<1> DEFINE t == Append(s, m)
<1>1. t \in Seq(S) /\ Len(t) = Len(s) + 1 /\ t # <<>> /\ t[Len(s) + 1] = m
      /\ \A i \in 1 .. Len(s) : t[i] = s[i]
  BY AppendProperties
<1>2. t[1] = Leaf(0) /\ \A i \in 1 .. Len(t) - 1 : Follows(t[i], t[i + 1])
  BY <1>1 DEF InOrder
<1>3. Len(s) \in Nat /\ (s # <<>> => Len(s) > 0) /\ (s = <<>> => Len(s) = 0)
  BY EmptySeq, LenProperties
<1> HIDE DEF t
<1>4. s = <<>> => m = Leaf(0)
  BY <1>1, <1>2, <1>3
<1>5. ASSUME s # <<>> PROVE s[Len(s)] \in S /\ Follows(s[Len(s)], m)
  <2>1. Len(s) \in 1 .. Len(s) /\ Len(s) \in 1 .. Len(t) - 1
    BY <1>1, <1>3, <1>5
  <2> QED
    BY <1>1, <1>2, <2>1, ElementOfSeq
<1> QED
  BY <1>4, <1>5

\* The message the consumer works on is the next of the schedule.
LEMMA WorkFollows ==
  ASSUME TypeOK, MessageOK, StreamInv, consumer = "work"
  PROVE  /\ message \in Messages
         /\ handled = <<>> => message = Leaf(0)
         /\ handled # <<>> =>
              /\ Last \in Messages /\ Follows(Last, message)
              /\ message.kind = "leaf" =>
                   /\ message.index = Last.index + 1
                   /\ Last.kind = "leaf" => Last.index \notin EpochEnds
              /\ message.kind = "epochEnd" =>
                   /\ message.index = Last.index
                   /\ Last.kind = "leaf" /\ Last.index \in EpochEnds
         /\ message.kind = "epochEnd" => handled # <<>>
<1>1. /\ handled \in Seq(AnyMessage) /\ message \in AnyMessage
      /\ Stream \in Seq(AnyMessage) /\ Due \in AnyMessage /\ message \in Messages
      /\ handled \in Seq(Messages)
  BY StreamTypes DEF MessageOK, TypeOK
<1>2. InOrder(Stream)
  BY <1>1, InOrderAppend DEF StreamInv, QueueOpen
<1>3. InOrder(Append(handled, message))
  BY <1>2, HandledFirst
<1>4. /\ handled = <<>> => message = Leaf(0)
      /\ handled # <<>> => Last \in Messages /\ Follows(Last, message)
  BY <1>1, <1>3, LastFollows DEF Last
<1> QED
  BY <1>1, <1>4 DEF Follows, Leaf, EpochEnd, Messages

\* After a message is handled it is the last.
LEMMA HandleLast ==
  ASSUME TypeOK, MessageOK, Handle
  PROVE  handled' # <<>> /\ Last' = message /\ LeavesHandled' = message.index + 1
<1>1. handled \in Seq(AnyMessage) /\ message \in AnyMessage /\ handled' = Append(handled, message)
  BY StreamTypes DEF Handle
<1>2. handled' # <<>> /\ handled'[Len(handled')] = message
  BY <1>1, AppendProperties
<1> QED
  BY <1>2 DEF Last, LeavesHandled

\* The leaves and the epochs counted are the ones that were handled.
LEMMA CountStep ==
  TypeOK /\ MessageOK /\ ControlInv /\ StreamInv /\ CountInv /\ [Next]_vars => CountInv'
<1> SUFFICES ASSUME TypeOK, MessageOK, ControlInv, StreamInv, CountInv, [Next]_vars
             PROVE  CountInv'
  OBVIOUS
<1>1. config' = config
  BY OneWay
<1>2. CASE UNCHANGED <<handled, committed, pending, epochs>>
  BY <1>1, <1>2 DEF CountInv, LeavesHandled, EndsHandled, Last
<1>3. CASE Handle
  <2>0. consumer = "work"
    BY <1>3 DEF Handle
  <2>1. handled' # <<>> /\ Last' = message /\ LeavesHandled' = message.index + 1
    BY <1>3, HandleLast
  <2>2. message \in Messages /\ message.index \in Nat
    BY <2>0, WorkFollows DEF Messages, LeafIndexes
  <2>3. handled # <<>> => Last.index \in Nat /\ Last.kind \in {"leaf", "epochEnd"}
    BY <2>0, WorkFollows DEF Messages, LeafIndexes
  <2>4. EpochEnds \subseteq Nat /\ pending \in Nat /\ committed \in Nat
    BY ScheduleAssumption DEF TypeOK
  <2>5. EndsHandled' =
          {e \in EpochEnds : e < message.index
                             \/ (e = message.index /\ message.kind = "epochEnd")}
    BY <2>1, <2>2, <2>4 DEF EndsHandled
  <2>6. handled # <<>> =>
          /\ LeavesHandled = Last.index + 1
          /\ EndsHandled = {e \in EpochEnds : e < Last.index
                                              \/ (e = Last.index /\ Last.kind = "epochEnd")}
    BY <2>3, <2>4 DEF EndsHandled, LeavesHandled
  <2>7. handled = <<>> => LeavesHandled = 0 /\ EndsHandled = {}
    <3> SUFFICES ASSUME handled = <<>> PROVE LeavesHandled = 0 /\ EndsHandled = {}
      OBVIOUS
    <3>1. LeavesHandled = 0
      BY DEF LeavesHandled
    <3>2. \A e \in EndsHandled : FALSE
      <4> SUFFICES ASSUME NEW e \in EndsHandled PROVE FALSE
        OBVIOUS
      <4>1. e \in Nat /\ e <= -1
        BY <2>4, <3>1 DEF EndsHandled
      <4> QED
        BY <4>1
    <3> QED
      BY <3>1, <3>2
  <2>8. CASE HandleLeaf
    <3>1. message.kind = "leaf" /\ epochs' = epochs
      BY <2>8 DEF HandleLeaf
    <3>2. LeavesHandled' = LeavesHandled + 1
      <4>1. CASE handled = <<>>
        BY <2>0, <2>1, <2>7, <4>1, WorkFollows DEF Leaf
      <4>2. CASE handled # <<>>
        BY <2>0, <2>1, <2>6, <3>1, <4>2, WorkFollows
      <4> QED
        BY <4>1, <4>2
    <3>3. EndsHandled' = EndsHandled
      <4>1. CASE handled = <<>>
        <5>1. message.index = 0
          BY <2>0, <4>1, WorkFollows DEF Leaf
        <5>2. \A e \in EpochEnds : ~ (e < message.index)
          BY <2>4, <5>1
        <5> QED
          BY <2>5, <2>7, <3>1, <4>1, <5>2
      <4>2. CASE handled # <<>>
        <5>1. message.index = Last.index + 1 /\ (Last.kind = "leaf" => Last.index \notin EpochEnds)
          BY <2>0, <3>1, <4>2, WorkFollows
        <5>2. \A e \in EpochEnds :
                e < message.index
                <=> e < Last.index \/ (e = Last.index /\ Last.kind = "epochEnd")
          BY <2>3, <2>4, <4>2, <5>1
        <5> QED
          BY <2>5, <2>6, <3>1, <4>2, <5>2
      <4> QED
        BY <4>1, <4>2
    <3>4. /\ committed' + pending' = committed + pending + 1
          /\ config.mode = "vecro" => pending' = 0
          /\ config.mode = "proposed" => pending' > 0
          /\ config.mode = "baseline" /\ message.index \in ShipmentEnds => pending' = 0
      BY <2>4, <2>8 DEF HandleLeaf
    <3>5. committed' + pending' = LeavesHandled'
      BY <2>4, <3>2, <3>4 DEF CountInv
    <3>6. epochs' = Cardinality(EndsHandled')
      BY <3>1, <3>3 DEF CountInv
    <3> QED
      BY <1>1, <2>1, <3>1, <3>4, <3>5, <3>6 DEF CountInv
  <2>9. CASE HandleEpochEnd
    <3>1. /\ message.kind = "epochEnd" /\ committed' = committed + pending /\ pending' = 0
          /\ epochs' = epochs + 1
      BY <2>9 DEF HandleEpochEnd
    <3>2. /\ handled # <<>> /\ message.index = Last.index
          /\ Last.kind = "leaf" /\ Last.index \in EpochEnds
      BY <2>0, <3>1, WorkFollows
    <3>3. committed' + pending' = LeavesHandled'
      BY <2>1, <2>4, <2>6, <3>1, <3>2 DEF CountInv
    <3>4. EndsHandled' = EndsHandled \cup {Last.index} /\ Last.index \notin EndsHandled
      BY <2>3, <2>4, <2>5, <2>6, <3>1, <3>2
    <3>5. IsFiniteSet(EndsHandled)
      <4>1. EndsHandled \subseteq 0 .. Total - 1
        BY ScheduleAssumption DEF EndsHandled
      <4>2. 0 \in Int /\ Total - 1 \in Int
        BY ScheduleAssumption
      <4>3. IsFiniteSet(0 .. Total - 1)
        BY <4>2, FS_Interval
      <4> QED
        BY <4>1, <4>3, FS_Subset
    <3>6. epochs' = Cardinality(EndsHandled')
      BY <3>1, <3>4, <3>5, FS_AddElement DEF CountInv
    <3> QED
      BY <1>1, <2>1, <3>1, <3>3, <3>6 DEF CountInv
  <2> QED
    BY <1>3, <2>8, <2>9 DEF Handle
<1>4. CASE UNCHANGED vars \/ Expire \/ Collector
  BY <1>2, <1>4
  DEF vars, consumerVars, Expire, Collector, Collect, CollectEnds, SendFails,
      DeliverLeaf, DeliverEpochEnd, Delivered, Return, CollectorAlone
<1>5. CASE \E w \in WorkerIds : Worker(w)
  BY <1>2, <1>5, WorkerMoves DEF consumerVars
<1>6. CASE Receive \/ ReceiveEnds \/ HandleFails \/ Report
  BY <1>2, <1>6 DEF Receive, ReceiveEnds, HandleFails, Report
<1> QED
  BY <1>3, <1>4, <1>5, <1>6 DEF Next, Finished, Consumer

\* An epoch is never found unfit to be closed, and a failed leaf is not posted.
LEMMA FaultStep ==
  /\ TypeOK /\ MessageOK /\ ControlInv /\ FaultInv /\ WorkerInv /\ StreamInv
  /\ CountInv /\ [Next]_vars
  => FaultInv'
<1> SUFFICES ASSUME TypeOK, MessageOK, ControlInv, FaultInv, WorkerInv, StreamInv,
                    CountInv, [Next]_vars
             PROVE  FaultInv'
  OBVIOUS
<1> USE DEF StopFor, RaiseStop, RaiseStopAt, stopVars
<1>1. CASE Expire \/ UNCHANGED vars \/ Collector \/ Receive \/ ReceiveEnds \/ Handle \/ Report
  <2>1. UNCHANGED <<pc, at, posted>>
    BY <1>1, OthersMove DEF vars, workerVars, Consumer
  <2>2. UNCHANGED faults
    BY <1>1 DEF Expire, vars, Collector, Collect, CollectEnds, SendFails, DeliverLeaf,
                DeliverEpochEnd, Delivered, Return, Receive, ReceiveEnds, Handle, Report
  <2>3. CASE UNCHANGED reason
    BY <2>1, <2>2, <2>3 DEF FaultInv
  <2>4. CASE Report
    BY <2>1, <2>2, <2>4 DEF FaultInv, Report
  <2>5. CASE Expire \/ UNCHANGED vars \/ Collector \/ Receive \/ ReceiveEnds \/ Handle
    <3>1. UNCHANGED reason
      BY <2>5 DEF Expire, vars, consumerVars, Collector, Collect, CollectEnds, SendFails,
                  DeliverLeaf, DeliverEpochEnd, Delivered, Return, Receive,
                  ReceiveEnds, Handle, CollectorAlone
    <3> QED
      BY <2>3, <3>1
  <2> QED
    BY <1>1, <2>4, <2>5
<1>2. CASE HandleFails
  <2>1. consumer = "work" /\ reason' = TRUE /\ UNCHANGED <<pc, at, posted>>
    BY <1>2 DEF HandleFails, ConsumerAlone, workerVars
  <2>2. message.kind = "epochEnd" => EpochClosable
    <3> SUFFICES ASSUME message.kind = "epochEnd" PROVE EpochClosable
      OBVIOUS
    <3>1. handled # <<>> /\ Last.kind = "leaf" /\ Last.index \in EpochEnds
      BY <2>1, WorkFollows
    <3>2. config.mode \in {"proposed", "vecro", "baseline"} /\ Last.index \in ShipmentEnds
      BY <3>1, IngestAssumption DEF ControlInv
    <3> QED
      BY <3>1, <3>2 DEF EpochClosable, CountInv
  <2>3. faults' = faults \cup {"anchoring"}
    BY <1>2, <2>2 DEF HandleFails
  <2> QED
    BY <2>1, <2>3 DEF FaultInv
<1>3. ASSUME NEW w \in WorkerIds, Worker(w) PROVE FaultInv'
  <2>1. reason' = reason
    BY <1>3, WorkerMoves DEF consumerVars
  <2>2. faults' \subseteq faults \cup {"fabric"}
    BY <1>3 DEF Worker, TestWindow, Wait, Pace, Post, PostFails, SendError,
                CheckPosted, SendLeaf
  <2>3. "fabric" \in faults' =>
          \E v \in WorkerIds : pc'[v] \in {"failed", "done"} /\ at'[v] \notin posted'
    <3>1. CASE PostFails(w)
      <4>1. pc[w] = "posting" /\ pc'[w] = "failed" /\ at'[w] = at[w] /\ posted' = posted
        BY <3>1 DEF PostFails, Goto, TypeOK
      <4>2. at[w] \in Nat /\ Owner(at[w]) = w
        BY DEF TypeOK, LeafIndexes, WorkerInv
      <4>3. ~ SentBy(at[w], {"posted", "sending", "done"})
        BY <4>1, <4>2 DEF SentBy
      <4>4. at[w] \notin posted
        BY <4>3 DEF WorkerInv
      <4> QED
        BY <4>1, <4>4
    <3>2. CASE ~ PostFails(w) /\ "fabric" \in faults'
      <4>1. "fabric" \in faults
        BY <1>3, <3>2 DEF Worker, TestWindow, Wait, Pace, Post, SendError,
                          CheckPosted, SendLeaf
      <4>2. PICK v \in WorkerIds : pc[v] \in {"failed", "done"} /\ at[v] \notin posted
        BY <4>1 DEF FaultInv
      <4>3. pc'[v] \in {"failed", "done"} /\ at'[v] = at[v]
        <5>1. CASE v # w
          BY <1>3, <4>2, <5>1, WorkerMoves
        <5>2. CASE v = w
          <6>1. SendError(w)
            BY <1>3, <4>2, <5>2
            DEF Worker, TestWindow, Wait, Pace, Post, PostFails, SendError,
                CheckPosted, SendLeaf
          <6> QED
            BY <5>2, <6>1 DEF SendError, Goto, TypeOK
        <5> QED
          BY <5>1, <5>2
      <4>4. at[v] \notin posted'
        <5> SUFFICES ASSUME at[v] \in posted' PROVE FALSE
          OBVIOUS
        <5>1. PICK u \in WorkerIds : Post(u) /\ at[v] = at[u]
          BY <4>2, PostsOwn
        <5>2. u = v
          BY <5>1 DEF WorkerInv
        <5> QED
          BY <4>2, <5>1, <5>2 DEF Post
      <4> QED
        BY <4>3, <4>4
    <3> QED
      BY <3>1, <3>2
  <2> QED
    BY <2>1, <2>2, <2>3 DEF FaultInv
<1> QED
  BY <1>1, <1>2, <1>3 DEF Next, Finished, Consumer

\* A consumer that left without a reason has had all there was to have.
LEMMA EndStep ==
  TypeOK /\ MessageOK /\ ControlInv /\ StreamInv /\ EndInv /\ [Next]_vars => EndInv'
<1> SUFFICES ASSUME TypeOK, MessageOK, ControlInv, StreamInv, EndInv, [Next]_vars,
                    ~ QueueOpen'
             PROVE  reason' \/ saturated' \/ Drained'
  BY DEF EndInv
<1>1. CASE ~ QueueOpen
  <2>1. handled' = handled
    BY <1>1, StreamMoves
  <2>2. Drained => Drained'
    <3> SUFFICES ASSUME Drained PROVE Drained'
      OBVIOUS
    <3>1. collector = "returned" /\ collector' = "returned"
      BY OneWay DEF Drained
    <3>2. next' = next
      BY <3>1, CollectorOwns DEF Collector, Collect, CollectEnds, SendFails, DeliverLeaf,
                                 DeliverEpochEnd, Delivered, Return
    <3> QED
      BY <2>1, <3>1, <3>2 DEF Drained
  <2>3. (reason => reason') /\ (saturated => saturated')
    <3>1. CASE Consumer
      <4>1. Report
        BY <1>1, <3>1 DEF Consumer, Receive, ReceiveEnds, Handle, HandleFails, QueueOpen
      <4> QED
        BY <4>1 DEF Report
    <3>2. CASE UNCHANGED vars \/ Expire \/ Collector
      <4>1. UNCHANGED <<reason, saturated>>
        BY <3>2 DEF vars, consumerVars, Expire, Collector, Collect, CollectEnds,
                    SendFails, DeliverLeaf, DeliverEpochEnd, Delivered, Return,
                    CollectorAlone
      <4> QED
        BY <4>1
    <3>3. CASE \E w \in WorkerIds : Worker(w)
      <4>1. UNCHANGED <<reason, saturated>>
        BY <3>3, WorkerMoves DEF consumerVars
      <4> QED
        BY <4>1
    <3> QED
      BY <3>1, <3>2, <3>3 DEF Next, Finished
  <2> QED
    BY <1>1, <2>2, <2>3 DEF EndInv
<1>2. CASE QueueOpen
  <2>1. Consumer
    <3>1. consumer' # consumer
      BY <1>2 DEF QueueOpen
    <3>2. ~ \E w \in WorkerIds : Worker(w)
      BY <3>1, WorkerMoves DEF consumerVars
    <3> QED
      BY <3>1, <3>2
      DEF vars, consumerVars, Expire, Collector, Collect, CollectEnds, SendFails,
          DeliverLeaf, DeliverEpochEnd, Delivered, Return, CollectorAlone, Next,
          Finished
  <2>2. CASE Receive
    BY <2>2 DEF Receive, QueueOpen
  <2>3. CASE ReceiveEnds
    <3>1. /\ consumer = "receive" /\ queue = <<>> /\ collector = "returned"
          /\ UNCHANGED <<handled, next, collector>>
      BY <2>3 DEF ReceiveEnds, ConsumerAlone, collectorVars
    <3>2. handled \in Seq(AnyMessage)
      BY StreamTypes
    <3>3. Stream = handled /\ Due = Leaf(next)
      BY <3>1, <3>2, ConcatEmptySeq DEF Stream, Due
    <3>4. InOrder(Append(handled, Leaf(next)))
      BY <1>2, <3>3 DEF StreamInv
    <3> QED
      BY <3>1, <3>4 DEF Drained, Leaf
  <2>4. CASE HandleFails
    BY <2>4 DEF HandleFails
  <2>5. CASE Handle \/ Report
    BY <1>2, <2>5 DEF Handle, Report, QueueOpen
  <2> QED
    BY <2>1, <2>2, <2>3, <2>4, <2>5 DEF Consumer
<1> QED
  BY <1>1, <1>2

\* When the turn has come to the end of the schedule and the consumer has had all
\* there was, it has handled the schedule, and committed it.
LEMMA DrainedIsComplete ==
  ASSUME TypeOK, MessageOK, CountInv, Drained, next = Total
  PROVE  Complete(handled) /\ committed = Total /\ epochs = Cardinality(EpochEnds)
<1>1. /\ handled \in Seq(AnyMessage) /\ handled \in Seq(Messages)
      /\ Leaf(Total) \in AnyMessage /\ Total \in Nat \ {0}
  BY StreamTypes, ScheduleAssumption DEF TypeOK, Leaf, AnyMessage
<1>2. InOrder(Append(handled, Leaf(Total)))
  BY DEF Drained
<1>3. InOrder(handled)
  BY <1>1, <1>2, InOrderAppend
<1>4. handled # <<>> /\ Follows(Last, Leaf(Total))
  <2>1. handled # <<>>
    BY <1>1, <1>2, LastFollows DEF Leaf
  <2> QED
    BY <1>1, <1>2, <2>1, LastFollows DEF Last
<1>5. Last \in Messages
  <2>1. Len(handled) \in 1 .. Len(handled)
    BY <1>1, <1>4, LenProperties, EmptySeq
  <2> QED
    BY <1>1, <2>1, ElementOfSeq DEF Last
<1>6. Last = EpochEnd(Total - 1)
  <2>1. Last.kind \in {"leaf", "epochEnd"} /\ Last.index \in LeafIndexes
        /\ Last = [kind |-> Last.kind, index |-> Last.index]
    BY <1>5 DEF Messages
  <2>2. ~ (Last.kind = "leaf" /\ Last.index \in EpochEnds)
    BY <1>4 DEF Follows, Leaf, EpochEnd
  <2>3. Leaf(Total) = Leaf(Last.index + 1)
    BY <1>4, <2>2 DEF Follows
  <2>4. Last.index = Total - 1
    BY <1>1, <2>1, <2>3 DEF Leaf, LeafIndexes
  <2>5. Last.kind = "epochEnd"
    BY <2>1, <2>2, <2>4, ScheduleAssumption
  <2> QED
    BY <2>1, <2>4, <2>5 DEF EpochEnd
<1>7. Last.index = Total - 1 /\ Last.kind = "epochEnd" /\ LeavesHandled = Total
  BY <1>1, <1>4, <1>6 DEF EpochEnd, LeavesHandled
<1>8. EndsHandled = EpochEnds
  <2>1. \A e \in EpochEnds : e < Total - 1 \/ e = Total - 1
    BY <1>1, ScheduleAssumption
  <2> QED
    BY <1>7, <2>1 DEF EndsHandled
<1>9. committed = Total /\ epochs = Cardinality(EpochEnds)
  <2>1. pending = 0 /\ committed + pending = Total /\ committed \in Nat
    BY <1>7 DEF CountInv, TypeOK
  <2> QED
    BY <1>1, <1>8, <2>1 DEF CountInv
<1> QED
  BY <1>3, <1>4, <1>6, <1>9 DEF Complete, Last

\* The status says what happened.
LEMMA HonestStep ==
  IInv /\ [Next]_vars => HonestStatus'
<1> SUFFICES ASSUME IInv, [Next]_vars PROVE HonestStatus'
  OBVIOUS
<1> USE DEF IInv
<1>1. FaultInv'
  BY FaultStep
<1>2. "order" \notin faults'
  BY <1>1 DEF FaultInv
<1>3. CASE status # "running"
  <2>1. UNCHANGED vars
    BY <1>3, OverIsOver
  <2> QED
    BY <2>1 DEF vars, stopVars, consumerVars, HonestStatus
<1>4. CASE status' = "running"
  BY <1>2, <1>4 DEF HonestStatus
<1>5. CASE Report
  <2>1. /\ consumer = "join" /\ collector = "returned"
        /\ reason' = (reason \/ produced = "error")
        /\ saturated' = (saturated \/ expired)
        /\ status' =
             IF /\ ~ reason' /\ ~ saturated'
                /\ epochs = Cardinality(EpochEnds) /\ committed = Total
               THEN "ok"
               ELSE IF ~ reason' /\ saturated' THEN "saturated" ELSE "censored"
        /\ UNCHANGED <<handled, committed, faults, expired>>
    BY <1>5 DEF Report, stopVars, ConsumerAlone
  <2>2. reason' => faults # {}
    BY <2>1 DEF CauseInv
  <2>3. saturated' => expired
    BY <2>1 DEF CauseInv
  <2>4. ASSUME ~ reason', ~ saturated'
        PROVE  /\ Complete(handled) /\ committed = Total /\ faults = {}
               /\ epochs = Cardinality(EpochEnds)
    <3>1. ~ reason /\ ~ saturated /\ ~ expired /\ produced = "ok"
      BY <2>1, <2>4 DEF ControlInv, TypeOK
    <3>2. next = Total
      BY <3>1 DEF CauseInv
    <3>3. Drained
      BY <2>1, <3>1 DEF EndInv, QueueOpen
    <3>4. "fabric" \notin faults
      <4> SUFFICES ASSUME "fabric" \in faults PROVE FALSE
        OBVIOUS
      <4>1. PICK w \in WorkerIds : at[w] \notin posted
        BY DEF FaultInv
      <4>2. at[w] \in LeafIndexes /\ at[w] < next
        BY <3>2, ScheduleAssumption DEF TypeOK, LeafIndexes
      <4> QED
        BY <4>1, <4>2 DEF HandedInv, Handed
    <3>5. faults = {}
      BY <3>1, <3>4 DEF FaultInv
    <3> QED
      BY <3>2, <3>3, <3>5, DrainedIsComplete
  <2> QED
    BY <1>2, <2>1, <2>2, <2>3, <2>4 DEF HonestStatus
<1>6. CASE UNCHANGED vars \/ Expire \/ Collector \/ Receive \/ ReceiveEnds \/ Handle
           \/ HandleFails
  <2>1. status' = status
    BY <1>6 DEF vars, consumerVars, Expire, Collector, Collect, CollectEnds,
                SendFails, DeliverLeaf, DeliverEpochEnd, Delivered, Return,
                CollectorAlone, Receive, ReceiveEnds, Handle, HandleFails
  <2> QED
    BY <1>3, <1>4, <2>1
<1>7. CASE \E w \in WorkerIds : Worker(w)
  <2>1. status' = status
    BY <1>7, WorkerMoves DEF consumerVars
  <2> QED
    BY <1>3, <1>4, <2>1
<1> QED
  BY <1>5, <1>6, <1>7 DEF Next, Finished, Consumer

\* Every step keeps the invariant.
LEMMA IInvStep == IInv /\ [Next]_vars => IInv'
<1> SUFFICES ASSUME IInv, [Next]_vars PROVE IInv'
  OBVIOUS
<1>1. TypeOK' /\ MessageOK' /\ ControlInv'
  BY TypeStep, ControlStep DEF IInv
<1>2. CauseInv' /\ FaultInv' /\ WorkerInv'
  BY CauseStep, FaultStep, WorkerStep DEF IInv
<1>3. WaitingInv' /\ HandedInv' /\ OnceInv' /\ ArrivedInv'
  BY WaitingStep, HandedStep, OnceStep, ArrivedStep DEF IInv
<1>4. StreamInv' /\ EndInv' /\ CountInv' /\ OnFabric'
  BY StreamStep, EndStep, CountStep, OnFabricStep DEF IInv
<1>5. HonestStatus'
  BY HonestStep
<1> QED
  BY <1>1, <1>2, <1>3, <1>4, <1>5 DEF IInv
-----------------------------------------------------------------------------
(* The theorems.                                                             *)

\* The invariant holds in every reachable state.
THEOREM Inductive == Spec => []IInv
  BY InitHolds, IInvStep, PTL DEF Spec

\* Every variable has its type.
THEOREM TypeCorrect == Spec => []TypeOK
<1>1. IInv => TypeOK
  BY DEF IInv
<1> QED
  BY Inductive, <1>1, PTL

\* What the consumer proves and anchors is on Fabric, event by event: a leaf
\* whose worker gave up in the middle (e4_real_cell.rs) never gets there.
THEOREM StreamOnFabric == Spec => []OnFabric
<1>1. IInv => OnFabric
  BY DEF IInv
<1> QED
  BY Inductive, <1>1, PTL

\* The status of a run says what happened to it.
THEOREM StatusHonest == Spec => []HonestStatus
<1>1. IInv => HonestStatus
  BY DEF IInv
<1> QED
  BY Inductive, <1>1, PTL

\* The collector buffers at most a window of leaves: with the results still in
\* the channel they are different leaves between the one whose turn it is and the
\* end of the window.
LEMMA WaitingFits == IInv => Cardinality(ready) + Len(results) <= Window
<1> SUFFICES ASSUME IInv PROVE Cardinality(ready) + Len(results) <= Window
  OBVIOUS
<1> DEFINE Results == [index : LeafIndexes, ok : BOOLEAN]
           index == [k \in 1 .. Len(results) |-> results[k].index]
           window == next .. next + Window - 1
<1>1. /\ results \in Seq(Results) /\ \A r \in Results : r.index \in LeafIndexes
      /\ next \in Nat /\ Window \in Nat \ {0} /\ ready \subseteq LeafIndexes
  BY IngestAssumption DEF IInv, TypeOK
<1> HIDE DEF Results
<1>2. Len(results) \in Nat /\ DOMAIN results = 1 .. Len(results)
      /\ \A k \in 1 .. Len(results) : results[k].index \in LeafIndexes
  BY <1>1, ElementOfSeq, LenProperties
<1>3. index \in Injection(1 .. Len(results), ResultLeaves)
  <2>1. index \in [1 .. Len(results) -> ResultLeaves]
    BY <1>2 DEF ResultLeaves
  <2>2. \A j, k \in 1 .. Len(results) : index[j] = index[k] => j = k
    BY <1>2 DEF IInv, OnceInv
  <2> QED
    BY <2>1, <2>2 DEF Injection, IsInjective
<1>4. ResultLeaves \cup ready \subseteq window
  <2>1. ResultLeaves \cup ready \subseteq LeafIndexes
    BY <1>1, ResultTypes DEF IInv
  <2>2. \A i \in ResultLeaves \cup ready : i \in Nat /\ next <= i /\ i < next + Window
    BY <2>1 DEF IInv, WaitingInv, LeafIndexes
  <2> QED
    BY <1>1, <2>2
<1>5. IsFiniteSet(window) /\ Cardinality(window) = Window
  <2>1. next \in Int /\ next + Window - 1 \in Int
    BY <1>1
  <2>2. IsFiniteSet(window)
        /\ Cardinality(window) = IF next > next + Window - 1 THEN 0
                                 ELSE (next + Window - 1) - next + 1
    BY <2>1, FS_Interval
  <2> QED
    BY <1>1, <2>2
<1> HIDE DEF index, window
<1>6. /\ IsFiniteSet(ResultLeaves) /\ IsFiniteSet(ready)
      /\ Cardinality(ResultLeaves \cup ready) <= Window
  BY <1>4, <1>5, FS_Subset
<1>7. Cardinality(ResultLeaves \cup ready) = Cardinality(ResultLeaves) + Cardinality(ready)
  <2>1. ResultLeaves \cap ready = {}
    BY DEF IInv, OnceInv
  <2>2. Cardinality(ResultLeaves \cup ready)
          = Cardinality(ResultLeaves) + Cardinality(ready) - Cardinality({})
    BY <1>6, <2>1, FS_Union
  <2>3. Cardinality(ResultLeaves) \in Nat /\ Cardinality(ready) \in Nat
    BY <1>6, FS_CardinalityType
  <2> QED
    BY <2>2, <2>3, FS_EmptySet
<1>8. Len(results) <= Cardinality(ResultLeaves)
  <2>1. IsFiniteSet(1 .. Len(results)) /\ Cardinality(1 .. Len(results)) = Len(results)
    <3>1. 1 \in Int /\ Len(results) \in Int
      BY <1>2
    <3>2. IsFiniteSet(1 .. Len(results))
          /\ Cardinality(1 .. Len(results))
               = IF 1 > Len(results) THEN 0 ELSE Len(results) - 1 + 1
      BY <3>1, FS_Interval
    <3> QED
      BY <1>2, <3>2
  <2> QED
    BY <1>3, <1>6, <2>1, FS_Injection
<1>9. Cardinality(ResultLeaves) \in Nat /\ Cardinality(ready) \in Nat
  BY <1>6, FS_CardinalityType
<1> QED
  BY <1>1, <1>2, <1>6, <1>7, <1>8, <1>9

\* The window of wait_for_window bounds how far Fabric gets ahead of the stream,
\* and what the collector buffers.
THEOREM AheadBounded == Spec => []AheadBound
<1>1. IInv => AheadBound
  BY WaitingFits DEF IInv, WorkerInv, AheadBound
<1> QED
  BY Inductive, <1>1, PTL

\* Nothing is posted to Fabric once the status is reported: produce has joined
\* its workers.
THEOREM QuietAfterwards == Spec => QuietAfterReport
<1>1. IInv /\ [Next]_vars => [status # "running" => posted' = posted]_vars
  <2> SUFFICES ASSUME IInv, [Next]_vars, status # "running" PROVE posted' = posted
    OBVIOUS
  <2>1. UNCHANGED vars
    BY OverIsOver DEF IInv
  <2> QED
    BY <2>1 DEF vars, workerVars
<1> QED
  BY Inductive, <1>1, PTL DEF Spec, QuietAfterReport

\* To its consumer every run is the schedule, one message at a time, in its order,
\* with nothing skipped or repeated, until it reports a status; and ok is reported
\* only of the whole schedule.  (That it reports one is the liveness TLC checks.)
THEOREM RefinesStream == Spec => Seen!Init /\ [][Seen!Next]_<<handled, status>>
<1> USE DEF Seen!InOrder, InOrder, Seen!Follows, Follows, Seen!Leaf, Leaf,
            Seen!EpochEnd, EpochEnd, Seen!Messages, Messages, Seen!LeafIndexes,
            LeafIndexes, Seen!Complete, Complete
<1>1. Init => Seen!Init
  BY DEF Init, Seen!Init
<1>2. IInv /\ [Next]_vars => [Seen!Next]_<<handled, status>>
  <2> SUFFICES ASSUME IInv, [Next]_vars, ~ UNCHANGED <<handled, status>>
               PROVE  Seen!Next
    OBVIOUS
  <2>1. status = "running"
    <3> SUFFICES ASSUME status # "running" PROVE FALSE
      OBVIOUS
    <3>1. UNCHANGED vars
      BY OverIsOver DEF IInv
    <3> QED
      BY <3>1 DEF vars, consumerVars
  <2>2. Handle \/ Report
    <3>1. ~ \E w \in WorkerIds : Worker(w)
      BY WorkerMoves DEF IInv, consumerVars
    <3> QED
      BY <3>1
      DEF vars, consumerVars, Expire, Collector, Collect, CollectEnds, SendFails,
          DeliverLeaf, DeliverEpochEnd, Delivered, Return, CollectorAlone, Consumer,
          Receive, ReceiveEnds, HandleFails, Next, Finished
  <2>3. CASE Handle
    <3>1. /\ consumer = "work" /\ handled' = Append(handled, message) /\ status' = status
      BY <2>3 DEF Handle
    <3>2. message \in Messages
      BY <3>1 DEF IInv, MessageOK
    <3>3. InOrder(Stream)
      <4>1. Stream \in Seq(AnyMessage) /\ Due \in AnyMessage
        BY StreamTypes DEF IInv
      <4>2. InOrder(Append(Stream, Due))
        BY <3>1 DEF IInv, StreamInv, QueueOpen
      <4> HIDE DEF InOrder
      <4> QED
        BY <4>1, <4>2, InOrderAppend
    <3>4. InOrder(Append(handled, message))
      <4> HIDE DEF InOrder
      <4> QED
        BY <3>1, <3>3, HandledFirst DEF IInv
    <3>5. Seen!Handle(message)
      BY <2>1, <3>1, <3>4 DEF Seen!Handle
    <3> QED
      BY <3>2, <3>5 DEF Seen!Next
  <2>4. CASE Report
    <3>1. status' \in {"ok", "saturated", "censored"} /\ handled' = handled
      BY <2>4 DEF Report
    <3>2. status' = "ok" => Complete(handled)
      <4> HIDE DEF Complete
      <4>1. HonestStatus'
        BY HonestStep
      <4> QED
        BY <3>1, <4>1 DEF HonestStatus, Complete
    <3>3. Seen!Finish(status')
      BY <2>1, <3>1, <3>2 DEF Seen!Finish
    <3> QED
      BY <3>1, <3>3 DEF Seen!Next
  <2> QED
    BY <2>2, <2>3, <2>4
<1> QED
  BY Inductive, <1>1, <1>2, PTL DEF Spec
-----------------------------------------------------------------------------
(* Natural numbers: the greater, the smaller, the least, and recursion.     *)

\* The larger of two numbers.
LEMMA MaxOfTwo ==
  ASSUME NEW a \in Int, NEW b \in Int
  PROVE  Max({a, b}) = IF a >= b THEN a ELSE b
<1> DEFINE m == IF a >= b THEN a ELSE b
<1>1. m \in {a, b} /\ \A x \in {a, b} : m >= x
  OBVIOUS
<1>2. \A x \in {a, b} : (\A y \in {a, b} : x >= y) => x = m
  OBVIOUS
<1> QED
  BY <1>1, <1>2 DEF Max

\* The smaller of two numbers.
LEMMA MinOfTwo ==
  ASSUME NEW a \in Int, NEW b \in Int
  PROVE  Min({a, b}) = IF a <= b THEN a ELSE b
<1> DEFINE m == IF a <= b THEN a ELSE b
<1>1. m \in {a, b} /\ \A x \in {a, b} : m <= x
  OBVIOUS
<1>2. \A x \in {a, b} : (\A y \in {a, b} : x <= y) => x = m
  OBVIOUS
<1> QED
  BY <1>1, <1>2 DEF Min


\* Least-number principle: a set of naturals that is not empty has a least
\* element.  The subsets of 0 .. t are well-founded by inclusion.
LEMMA Least ==
  ASSUME NEW T \in SUBSET Nat, T # {}
  PROVE  \E x \in T : \A y \in T : x <= y
<1>1. PICK t \in T : TRUE
  OBVIOUS
<1> DEFINE S == 0 .. t
           Below(n) == {m \in S : m < n}
           Small == {Below(n) : n \in {x \in T : x <= t}}
<1>2. IsFiniteSet(S) /\ t \in Nat
  BY FS_Interval
<1>3. IsWellFoundedOn(StrictSubsetOrdering(S), FiniteSubsetsOf(S))
  BY <1>2, FS_StrictSubsetOrderingWellFounded
<1>4. Small \subseteq FiniteSubsetsOf(S) /\ Small # {}
  <2>1. Below(t) \in Small
    BY <1>2
  <2>2. \A n : Below(n) \in SUBSET S
    OBVIOUS
  <2>3. \A n : Below(n) \in FiniteSubsetsOf(S)
    <3> HIDE DEF S, Below
    <3> QED
      BY <1>2, <2>2, FS_Subset, FS_FiniteSubsetsOfFinite
  <2>4. \A b \in Small : \E n : b = Below(n)
    OBVIOUS
  <2> HIDE DEF Small, Below
  <2> QED
    BY <2>1, <2>3, <2>4
<1>5. PICK b \in Small : \A c \in Small : ~ (<<c, b>> \in StrictSubsetOrdering(S))
  <2> HIDE DEF Small, S
  <2> QED
    BY <1>3, <1>4, WFMin
<1>6. PICK n \in T : n <= t /\ b = Below(n)
  BY <1>5
<1>7. ASSUME NEW m \in T, m < n PROVE FALSE
  <2>1. Below(m) \in Small
    BY <1>2, <1>6, <1>7
  <2>2. m \in Below(n) /\ m \notin Below(m) /\ Below(m) \subseteq Below(n)
    BY <1>2, <1>6, <1>7
  <2>3. <<Below(m), b>> \in StrictSubsetOrdering(S)
    BY <2>2, <1>6 DEF StrictSubsetOrdering
  <2> QED
    BY <1>5, <2>1, <2>3
<1> QED
  BY <1>6, <1>7

\* Induction, for a set.
LEMMA Induction ==
  ASSUME NEW T \in SUBSET Nat, 0 \in T, \A n \in T : n + 1 \in T
  PROVE  T = Nat
<1> SUFFICES ASSUME Nat \ T # {} PROVE FALSE
  OBVIOUS
<1>1. Nat \ T \in SUBSET Nat
  OBVIOUS
<1>2. PICK x \in Nat \ T : \A y \in Nat \ T : x <= y
  BY <1>1, Least
<1>3. x # 0 /\ x - 1 \in Nat /\ x - 1 \in T
  BY <1>2
<1> QED
  BY <1>2, <1>3

Turns(S) == [Nat \X S -> S]

\* A function that begins with a value of S and goes on by a table of turns.
LEMMA Recursion ==
  ASSUME NEW S, NEW a \in S, NEW turn \in Turns(S)
  PROVE  \E f \in [Nat -> S] : f[0] = a /\ \A k \in Nat : f[k + 1] = turn[<<k, f[k]>>]
<1> USE DEF Turns
<1> DEFINE Fits(f, n) == /\ f \in [0 .. n -> S] /\ f[0] = a
                         /\ \A k \in Nat : k < n => f[k + 1] = turn[<<k, f[k]>>]
           T == {n \in Nat : \E f : Fits(f, n)}
           Upto(n) == CHOOSE f : Fits(f, n)
           all == [n \in Nat |-> Upto(n)[n]]
<1>1. 0 \in T
  <2> DEFINE f == [k \in 0 .. 0 |-> a]
  <2>1. Fits(f, 0)
    OBVIOUS
  <2> HIDE DEF f, Fits
  <2> QED
    BY <2>1
<1>2. ASSUME NEW n \in T PROVE n + 1 \in T
  <2>1. PICK f : Fits(f, n)
    OBVIOUS
  <2>2. n \in Nat /\ f[n] \in S /\ <<n, f[n]>> \in Nat \X S
    BY <2>1
  <2> DEFINE g == [k \in 0 .. n + 1 |-> IF k = n + 1 THEN turn[<<n, f[n]>>] ELSE f[k]]
  <2>3. g \in [0 .. n + 1 -> S]
    BY <2>1, <2>2
  <2>4. g[0] = a
    BY <2>1, <2>2
  <2>5. ASSUME NEW k \in Nat, k < n + 1 PROVE g[k + 1] = turn[<<k, g[k]>>]
    <3>1. CASE k = n
      <4>1. g[k + 1] = turn[<<n, f[n]>>] /\ g[k] = f[n]
        BY <2>2, <3>1
      <4> QED
        BY ONLY <3>1, <4>1
    <3>2. CASE k # n
      <4>1. k < n /\ k \in 0 .. n + 1 /\ k + 1 \in 0 .. n + 1 /\ k # n + 1 /\ k + 1 # n + 1
        BY <2>2, <2>5, <3>2
      <4>2. g[k] = f[k] /\ g[k + 1] = f[k + 1]
        BY <4>1
      <4>3. f[k + 1] = turn[<<k, f[k]>>]
        BY <2>1, <4>1
      <4> QED
        BY <4>2, <4>3
    <3> QED
      BY <3>1, <3>2
  <2>6. Fits(g, n + 1)
    <3> HIDE DEF g
    <3> QED
      BY <2>3, <2>4, <2>5
  <2> HIDE DEF g, Fits
  <2> QED
    BY <2>2, <2>6
<1>3. T = Nat
  <2>1. T \in SUBSET Nat
    OBVIOUS
  <2> HIDE DEF T
  <2> QED
    BY <1>1, <1>2, <2>1, Induction
<1>4. ASSUME NEW n \in Nat PROVE Fits(Upto(n), n)
  <2>1. \E f : Fits(f, n)
    BY <1>3
  <2> HIDE DEF Fits
  <2> QED
    BY <2>1
<1> HIDE DEF T, Upto
\* The functions for different lengths agree where both are defined.
<1>5. ASSUME NEW n \in Nat PROVE Upto(n + 1)[n] = Upto(n)[n]
  <2>1. PICK f : f = Upto(n + 1) /\ Fits(f, n + 1)
    BY <1>4
  <2>2. PICK g : g = Upto(n) /\ Fits(g, n)
    BY <1>4
  <2> DEFINE U == {k \in Nat : k <= n => f[k] = g[k]}
  <2>3. 0 \in U
    BY <2>1, <2>2
  <2>4. ASSUME NEW k \in U PROVE k + 1 \in U
    <3>1. k \in Nat /\ (k + 1 <= n => k < n /\ k < n + 1 /\ f[k] = g[k])
      OBVIOUS
    <3>2. k + 1 <= n => f[k + 1] = g[k + 1]
      BY <2>1, <2>2, <3>1
    <3> QED
      BY <3>1, <3>2
  <2>5. U = Nat
    <3>1. U \in SUBSET Nat
      OBVIOUS
    <3> HIDE DEF U
    <3> QED
      BY <2>3, <2>4, <3>1, Induction
  <2> QED
    BY <2>1, <2>2, <2>5
<1>6. ASSUME NEW n \in Nat PROVE Upto(n)[n] \in S
  BY <1>4
<1>7. ASSUME NEW k \in Nat PROVE all[k + 1] = turn[<<k, all[k]>>]
  <2>1. Fits(Upto(k + 1), k + 1)
    BY <1>4
  <2>2. Upto(k + 1)[k + 1] = turn[<<k, Upto(k + 1)[k]>>]
    BY <2>1
  <2> QED
    BY <1>5, <2>2
<1>8. all[0] = a
  BY <1>4
<1>9. all \in [Nat -> S]
  BY <1>6
<1> HIDE DEF all
<1> QED
  BY <1>7, <1>8, <1>9
-----------------------------------------------------------------------------
(* The cuts: sums of sizes.                                                  *)

\* Whatever adds up the sizes one by one is the sum.
LEMMA SumIs ==
  ASSUME NEW s, Len(s) \in Nat, \A i \in 1 .. Len(s) : s[i] \in Int,
         NEW f, f[0] = 0, \A i \in 1 .. Len(s) : f[i] = f[i - 1] + s[i]
  PROVE  EventsIn(s) = f[Len(s)]
<1> DEFINE n == Len(s)
           Adds(g) == g = [i \in 0 .. n |-> IF i = 0 THEN 0 ELSE g[i - 1] + s[i]]
           sum == CHOOSE g : Adds(g)
           own == [i \in 0 .. n |-> f[i]]
<1>1. Adds(own)
  <2>1. \A i \in 0 .. n : own[i] = IF i = 0 THEN 0 ELSE own[i - 1] + s[i]
    <3> SUFFICES ASSUME NEW i \in 0 .. n
                 PROVE  own[i] = IF i = 0 THEN 0 ELSE own[i - 1] + s[i]
      OBVIOUS
    <3>1. CASE i = 0
      BY <3>1
    <3>2. CASE i # 0
      <4>1. i \in 1 .. n /\ i - 1 \in 0 .. n
        BY <3>2
      <4> QED
        BY <3>2, <4>1
    <3> QED
      BY <3>1, <3>2
  <2>2. own = [i \in 0 .. n |-> own[i]]
    OBVIOUS
  <2> HIDE DEF own
  <2> QED
    BY <2>1, <2>2
<1>2. Adds(sum)
  <2> HIDE DEF Adds, own
  <2> QED
    BY <1>1
<1>3. EventsIn(s) = sum[n]
  BY DEF EventsIn
<1>4. PICK g : g = sum /\ Adds(g)
  BY <1>2
<1>5. \A i \in 0 .. n : g[i] = IF i = 0 THEN 0 ELSE g[i - 1] + s[i]
  BY <1>4
<1> DEFINE U == {k \in Nat : k <= n => g[k] = f[k]}
<1> HIDE DEF sum, own, Adds
<1>6. 0 \in U
  BY <1>5
<1>7. ASSUME NEW k \in U PROVE k + 1 \in U
  <2>1. k \in Nat
    OBVIOUS
  <2>2. ASSUME k + 1 <= n PROVE g[k + 1] = f[k + 1]
    <3>1. k + 1 \in 1 .. n /\ k + 1 \in 0 .. n /\ (k + 1) - 1 = k /\ k + 1 # 0
      BY <2>1, <2>2
    <3>2. g[k] = f[k]
      BY <2>1, <2>2
    <3>3. f[k + 1] = f[k] + s[k + 1]
      BY <3>1
    <3>4. g[k + 1] = g[k] + s[k + 1]
      BY <1>5, <3>1
    <3> QED
      BY <3>2, <3>3, <3>4
  <2> QED
    BY <2>1, <2>2
<1>8. U = Nat
  <2>1. U \in SUBSET Nat
    OBVIOUS
  <2> HIDE DEF U
  <2> QED
    BY <1>6, <1>7, <2>1, Induction
<1>9. g[n] = f[n]
  BY <1>8
<1> QED
  BY <1>3, <1>4, <1>9

\* The sizes of a list do add up.
LEMMA SumExists ==
  ASSUME NEW s, Len(s) \in Nat, \A i \in 1 .. Len(s) : s[i] \in Int
  PROVE  \E f \in [Nat -> Int] :
           /\ f[0] = 0 /\ \A i \in 1 .. Len(s) : f[i] = f[i - 1] + s[i]
           /\ EventsIn(s) = f[Len(s)]
<1> DEFINE turn == [x \in Nat \X Int |->
                      IF x[1] < Len(s) THEN x[2] + s[x[1] + 1] ELSE x[2]]
<1>1. turn \in [Nat \X Int -> Int]
  <2> SUFFICES ASSUME NEW x \in Nat \X Int
               PROVE  (IF x[1] < Len(s) THEN x[2] + s[x[1] + 1] ELSE x[2]) \in Int
    OBVIOUS
  <2>1. x[1] \in Nat /\ x[2] \in Int /\ (x[1] < Len(s) => x[1] + 1 \in 1 .. Len(s))
    OBVIOUS
  <2> QED
    BY <2>1
<1>2. PICK f \in [Nat -> Int] : f[0] = 0 /\ \A k \in Nat : f[k + 1] = turn[<<k, f[k]>>]
  <2>1. PICK S, a : S = Int /\ a = 0
    OBVIOUS
  <2>2. a \in S /\ turn \in Turns(S)
    BY <1>1, <2>1 DEF Turns
  <2> HIDE DEF turn
  <2>3. \E f \in [Nat -> S] : f[0] = a /\ \A k \in Nat : f[k + 1] = turn[<<k, f[k]>>]
    BY ONLY <2>2, Recursion
  <2> QED
    BY <2>1, <2>3
<1>3. ASSUME NEW i \in 1 .. Len(s) PROVE f[i] = f[i - 1] + s[i]
  <2>1. i - 1 \in Nat /\ i - 1 < Len(s) /\ (i - 1) + 1 = i /\ <<i - 1, f[i - 1]>> \in Nat \X Int
    OBVIOUS
  <2>2. f[i] = turn[<<i - 1, f[i - 1]>>]
    BY <1>2, <2>1, ZenonT(40)
  <2> QED
    BY <2>1, <2>2
<1>4. EventsIn(s) = f[Len(s)]
  BY <1>2, <1>3, SumIs
<1> QED
  BY <1>2, <1>3, <1>4

\* Sizes that are integers.
AreSizes(s) == Len(s) \in Nat /\ \A i \in 1 .. Len(s) : s[i] \in Int

\* Without the first size.
LEMMA SumOfTail ==
  ASSUME NEW s, NEW t, AreSizes(s), Len(s) > 0, Len(t) = Len(s) - 1,
         \A i \in 1 .. Len(t) : t[i] = s[i + 1]
  PROVE  EventsIn(t) = EventsIn(s) - s[1]
<1>1. PICK f \in [Nat -> Int] :
        /\ f[0] = 0 /\ \A i \in 1 .. Len(s) : f[i] = f[i - 1] + s[i]
        /\ EventsIn(s) = f[Len(s)]
  BY SumExists DEF AreSizes
<1> DEFINE g == [k \in Nat |-> f[k + 1] - s[1]]
<1>2. g[0] = 0
  <2>1. 1 \in 1 .. Len(s) /\ f[1] = f[1 - 1] + s[1] /\ 1 - 1 = 0 /\ s[1] \in Int
    BY <1>1 DEF AreSizes
  <2> QED
    BY <1>1, <2>1
<1>3. ASSUME NEW i \in 1 .. Len(t)
      PROVE  t[i] \in Int /\ g[i] = g[i - 1] + t[i]
  <2>1. /\ i + 1 \in 1 .. Len(s) /\ i \in Nat /\ i - 1 \in Nat /\ (i + 1) - 1 = i
        /\ (i - 1) + 1 = i /\ 1 \in 1 .. Len(s) /\ i + 1 \in Nat
    BY DEF AreSizes
  <2>2. f[i + 1] = f[i] + s[i + 1] /\ s[i + 1] \in Int /\ s[1] \in Int
    BY <1>1, <2>1 DEF AreSizes
  <2>3. f[i] \in Int /\ f[i + 1] \in Int /\ t[i] = s[i + 1]
    BY <2>1
  <2>4. g[i] = f[i + 1] - s[1] /\ g[i - 1] = f[i] - s[1]
    BY <2>1
  <2> HIDE DEF g
  <2> QED
    BY ONLY <2>2, <2>3, <2>4
<1>4. Len(t) \in Nat /\ g[Len(t)] = EventsIn(s) - s[1]
  BY <1>1 DEF AreSizes
<1> HIDE DEF g
<1>5. EventsIn(t) = g[Len(t)]
  BY <1>2, <1>3, <1>4, SumIs
<1> QED
  BY <1>4, <1>5

\* With one size made smaller.
LEMMA SumOfLess ==
  ASSUME NEW s, NEW t, AreSizes(s), NEW here \in 1 .. Len(s), NEW less \in Int,
         Len(t) = Len(s),
         \A i \in 1 .. Len(s) : t[i] = IF i = here THEN s[i] - less ELSE s[i]
  PROVE  EventsIn(t) = EventsIn(s) - less
<1>1. PICK f \in [Nat -> Int] :
        /\ f[0] = 0 /\ \A i \in 1 .. Len(s) : f[i] = f[i - 1] + s[i]
        /\ EventsIn(s) = f[Len(s)]
  BY SumExists DEF AreSizes
<1> DEFINE g == [k \in Nat |-> IF k >= here THEN f[k] - less ELSE f[k]]
<1>2. g[0] = 0
  BY <1>1
<1>3. ASSUME NEW i \in 1 .. Len(t)
      PROVE  t[i] \in Int /\ g[i] = g[i - 1] + t[i]
  <2>1. i \in 1 .. Len(s) /\ i \in Nat /\ i - 1 \in Nat /\ here \in Nat
    BY DEF AreSizes
  <2>2. f[i] = f[i - 1] + s[i] /\ s[i] \in Int /\ f[i] \in Int /\ f[i - 1] \in Int
    BY <1>1, <2>1 DEF AreSizes
  <2>3. /\ g[i] = IF i >= here THEN f[i] - less ELSE f[i]
        /\ g[i - 1] = IF i - 1 >= here THEN f[i - 1] - less ELSE f[i - 1]
        /\ t[i] = IF i = here THEN s[i] - less ELSE s[i]
    BY <2>1
  <2> QED
    BY <2>1, <2>2, <2>3, SMTT(40)
<1>4. Len(t) \in Nat /\ g[Len(t)] = EventsIn(s) - less
  BY <1>1 DEF AreSizes
<1> HIDE DEF g
<1>5. EventsIn(t) = g[Len(t)]
  BY <1>2, <1>3, <1>4, SumIs
<1> QED
  BY <1>4, <1>5

\* With one size more.
LEMMA SumOfMore ==
  ASSUME NEW s, NEW t, AreSizes(s), Len(t) = Len(s) + 1, t[Len(t)] \in Int,
         \A i \in 1 .. Len(s) : t[i] = s[i]
  PROVE  EventsIn(t) = EventsIn(s) + t[Len(t)]
<1>1. PICK f \in [Nat -> Int] :
        /\ f[0] = 0 /\ \A i \in 1 .. Len(s) : f[i] = f[i - 1] + s[i]
        /\ EventsIn(s) = f[Len(s)]
  BY SumExists DEF AreSizes
<1> DEFINE n == Len(s)
           g == [k \in Nat |-> IF k <= n THEN f[k] ELSE f[n] + t[Len(t)]]
<1>2. g[0] = 0
  BY <1>1 DEF AreSizes
<1>3. ASSUME NEW i \in 1 .. Len(t)
      PROVE  t[i] \in Int /\ g[i] = g[i - 1] + t[i]
  <2>1. i \in Nat /\ i - 1 \in Nat /\ n \in Nat /\ i <= n + 1 /\ i - 1 <= n
    BY DEF AreSizes
  <2>2. /\ g[i] = IF i <= n THEN f[i] ELSE f[n] + t[Len(t)]
        /\ g[i - 1] = f[i - 1]
    BY <2>1
  <2>3. CASE i <= n
    <3>1. i \in 1 .. Len(s) /\ s[i] \in Int /\ t[i] = s[i] /\ f[i] = f[i - 1] + s[i]
      BY <1>1, <2>1, <2>3 DEF AreSizes
    <3> QED
      BY <2>2, <2>3, <3>1
  <2>4. CASE i = n + 1
    BY <2>1, <2>2, <2>4
  <2> QED
    BY <2>1, <2>3, <2>4
<1>4. Len(t) \in Nat /\ g[Len(t)] = EventsIn(s) + t[Len(t)]
  BY <1>1 DEF AreSizes
<1> HIDE DEF g
<1>5. EventsIn(t) = g[Len(t)]
  BY <1>2, <1>3, <1>4, SumIs
<1> QED
  BY <1>4, <1>5

\* Of sizes that are all the same.
LEMMA SumOfEqual ==
  ASSUME NEW n \in Nat, NEW each \in Nat, NEW s, Len(s) = n,
         \A i \in 1 .. n : s[i] = each
  PROVE  EventsIn(s) = n * each
<1> DEFINE g == [k \in Nat |-> k * each]
<1>1. \A a, b \in Nat : (a + 1) * b = a * b + b
  OBVIOUS
<1>2. ASSUME NEW i \in 1 .. n
      PROVE  s[i] \in Int /\ g[i] = g[i - 1] + s[i]
  <2>1. i - 1 \in Nat /\ (i - 1) + 1 = i
    OBVIOUS
  <2>2. i * each = (i - 1) * each + each
    BY <1>1, <2>1
  <2>3. g[i] = i * each /\ g[i - 1] = (i - 1) * each /\ s[i] = each
    BY <2>1, SMTT(40)
  <2> HIDE DEF g
  <2> QED
    BY ONLY <2>2, <2>3, each \in Nat
<1>3. g[0] = 0 /\ g[n] = n * each
  OBVIOUS
<1> HIDE DEF g
<1> QED
  BY <1>2, <1>3, SumIs

-----------------------------------------------------------------------------
(* The cuts: every lot fits.                                                 *)

PlanType ==
  [total : Nat, shipment : {0} \cup Shipments, todo : Seq(Nat), lot : Nat, ends : BOOLEAN,
   open : Nat, cut : Nat, failed : BOOLEAN]

\* What is left of a shipment is no less than a lot, and with what is cut of it
\* no more than a shipment.
CutsInv ==
  /\ plan \in PlanType /\ ~ plan.failed
  /\ \A i \in 1 .. Len(plan.todo) : plan.todo[i] >= MinEvents
  /\ plan.cut > 0 => plan.lot \in MinEvents .. MaxEvents
  /\ plan.cut + EventsIn(plan.todo) = plan.total
  /\ plan.shipment = 0 => Len(plan.todo) <= 1
  /\ plan.shipment # 0 =>
       /\ \A i \in 1 .. Len(plan.todo) : plan.todo[i] <= plan.shipment
       /\ IF plan.ends THEN plan.open \in MinEvents .. plan.shipment
          ELSE Len(plan.todo) > 0 => plan.open + plan.todo[1] <= plan.shipment

\* The cutting into shipments keeps the number of events, and no shipment is
\* too small or too large.
LEMMA ShipmentsFit ==
  ASSUME NEW total \in Nat, total >= MinEvents, NEW shipment \in Shipments
  PROVE  \E s : /\ s = ShipmentSizes(total, shipment)
               /\ s \in Seq(Nat) /\ EventsIn(s) = total
               /\ \A i \in 1 .. Len(s) : s[i] \in MinEvents .. shipment
<1> DEFINE k == total \div shipment
           tail == total % shipment
           whole == [i \in 1 .. k |-> shipment]
           s == ShipmentSizes(total, shipment)
<1>1. /\ MinEvents \in Nat /\ MinEvents >= 1 /\ shipment \in Nat /\ shipment >= 1
      /\ shipment + 1 >= 2 * MinEvents
  BY CutsAssumption
<1>2. k \in Nat /\ tail \in 0 .. shipment - 1 /\ total = k * shipment + tail
  BY <1>1
<1>3. /\ whole \in Seq(Nat) /\ Len(whole) = k /\ \A i \in 1 .. k : whole[i] = shipment
      /\ AreSizes(whole)
  BY <1>1, <1>2 DEF AreSizes
<1>4. EventsIn(whole) = k * shipment
  <2> HIDE DEF whole, k
  <2> QED
    BY <1>1, <1>2, <1>3, SumOfEqual
<1>5. s = CASE tail >= MinEvents -> Append(whole, tail)
            [] tail \in 1 .. MinEvents - 1 /\ whole # <<>> ->
                 Append([whole EXCEPT ![Len(whole)] = @ - (MinEvents - tail)], MinEvents)
            [] OTHER -> whole
  BY DEF ShipmentSizes
<1>6. k = 0 => tail >= MinEvents
  BY <1>1, <1>2
<1> HIDE DEF s, k, tail, whole
<1> SUFFICES /\ s \in Seq(Nat) /\ EventsIn(s) = total
             /\ \A i \in 1 .. Len(s) : s[i] \in MinEvents .. shipment
  BY DEF s
<1>7. CASE tail >= MinEvents
  <2>1. s = Append(whole, tail)
    BY <1>1, <1>2, <1>5, <1>7
  <2>2. /\ s \in Seq(Nat) /\ Len(s) = k + 1 /\ s[k + 1] = tail
        /\ \A i \in 1 .. k : s[i] = shipment
    BY <1>2, <1>3, <2>1
  <2>3. EventsIn(s) = EventsIn(whole) + s[Len(s)]
    BY <1>2, <1>3, <2>2, SumOfMore
  <2>4. \A i \in 1 .. Len(s) : s[i] = shipment \/ s[i] = tail
    BY <1>2, <2>2
  <2> QED
    BY <1>1, <1>2, <1>4, <1>7, <2>2, <2>3, <2>4
<1>8. CASE tail < MinEvents /\ tail > 0
  <2>1. k > 0 /\ whole # <<>> /\ tail \in 1 .. MinEvents - 1
    BY <1>1, <1>2, <1>3, <1>6, <1>8
  <2> DEFINE less == MinEvents - tail
             lent == [whole EXCEPT ![k] = @ - less]
  <2>2. s = Append(lent, MinEvents)
    BY <1>3, <1>5, <2>1
  <2>3. less \in 1 .. MinEvents - 1 /\ shipment - less \in MinEvents .. shipment
    BY <1>1, <1>2, <1>8
  <2>4. /\ lent \in Seq(Nat) /\ Len(lent) = k
        /\ \A i \in 1 .. k : lent[i] = IF i = k THEN whole[i] - less ELSE whole[i]
    <3>1. k \in 1 .. k /\ shipment - less \in Nat
      BY <1>1, <1>2, <2>1, <2>3
    <3> HIDE DEF less
    <3> QED
      BY <1>2, <1>3, <3>1
  <2>5. AreSizes(lent)
    BY <1>2, <2>4 DEF AreSizes
  <2> HIDE DEF lent, less
  <2>6. EventsIn(lent) = EventsIn(whole) - less
    <3>1. k \in 1 .. Len(whole) /\ less \in Int /\ Len(lent) = Len(whole)
      BY <1>2, <1>3, <2>1, <2>3, <2>4
    <3>2. \A i \in 1 .. Len(whole) : lent[i] = IF i = k THEN whole[i] - less ELSE whole[i]
      BY <1>3, <2>4
    <3> QED
      BY <1>3, <3>1, <3>2, SumOfLess
  <2>7. /\ s \in Seq(Nat) /\ Len(s) = k + 1 /\ s[k + 1] = MinEvents
        /\ \A i \in 1 .. k : s[i] = lent[i]
    BY <1>1, <1>2, <2>2, <2>4
  <2>8. EventsIn(s) = EventsIn(lent) + s[Len(s)]
    BY <1>1, <1>2, <2>4, <2>5, <2>7, SumOfMore
  <2>9. EventsIn(s) = total
    BY <1>1, <1>2, <1>4, <2>3, <2>6, <2>7, <2>8 DEF less
  <2>10. ASSUME NEW i \in 1 .. Len(s) PROVE s[i] \in MinEvents .. shipment
    <3>1. i = k + 1 \/ (i \in 1 .. k /\ s[i] = IF i = k THEN shipment - less ELSE shipment)
      BY <1>2, <1>3, <2>4, <2>7
    <3> QED
      BY <1>1, <2>3, <2>7, <3>1
  <2> QED
    BY <2>7, <2>9, <2>10
<1>9. CASE tail = 0
  <2>1. s = whole
    BY <1>1, <1>5, <1>9
  <2> QED
    BY <1>1, <1>2, <1>3, <1>4, <1>9, <2>1
<1> QED
  BY <1>1, <1>2, <1>7, <1>8, <1>9

\* The plan fits at first.
LEMMA CutsBegin == CutsInit => CutsInv
<1> SUFFICES ASSUME CutsInit PROVE CutsInv
  OBVIOUS
<1>1. PICK total, shipment, todo :
        /\ total \in Arrivals /\ shipment \in {0} \cup Shipments
        /\ total >= MinEvents /\ plan = Planned(total, shipment, todo)
        /\ IF shipment = 0 THEN todo = <<total>>
           ELSE shipment \in Shipments /\ todo = ShipmentSizes(total, shipment)
  <2>1. 0 \notin Shipments
    BY CutsAssumption
  <2> QED
    BY <2>1 DEF CutsInit
<1>2. total \in Nat /\ MinEvents \in Nat /\ MinEvents >= 1
  BY <1>1, CutsAssumption
<1>3. CASE shipment = 0
  <2>1. todo = <<total>>
    BY <1>1, <1>3
  <2>2. Len(todo) = 1 /\ todo[1] = total /\ todo \in Seq(Nat) /\ \A i \in 1 .. 1 : todo[i] = total
    BY <1>2, <2>1
  <2>3. 1 \in Nat /\ 1 * total = total
    BY <1>2
  <2>4. EventsIn(todo) = 1 * total
    BY ONLY <1>2, <2>2, <2>3, SumOfEqual
  <2>5. EventsIn(todo) = total
    BY <2>3, <2>4
  <2>6. /\ plan = Planned(total, 0, todo) /\ 0 + EventsIn(todo) = total
        /\ \A i \in 1 .. Len(todo) : todo[i] >= MinEvents
    BY <1>1, <1>2, <1>3, <2>2, <2>5
  <2>7. /\ plan.total = total /\ plan.shipment = 0 /\ plan.todo = todo /\ plan.lot = 0
        /\ plan.ends = FALSE /\ plan.open = 0 /\ plan.cut = 0 /\ plan.failed = FALSE
        /\ plan \in PlanType
    BY <1>2, <2>2, <2>6 DEF Planned, PlanType
  <2>8. /\ plan.cut + EventsIn(plan.todo) = plan.total /\ Len(plan.todo) <= 1
        /\ \A i \in 1 .. Len(plan.todo) : plan.todo[i] >= MinEvents
        /\ ~ plan.cut > 0
    <3>1. plan.cut + EventsIn(plan.todo) = plan.total
      BY ONLY <2>6, <2>7
    <3>2. \A i \in 1 .. Len(plan.todo) : plan.todo[i] >= MinEvents
      BY ONLY <2>6, <2>7
    <3>3. Len(plan.todo) <= 1
      <4>1. Len(todo) <= 1
        BY ONLY <2>2
      <4>2. plan.todo = todo
        BY ONLY <2>7
      <4> QED
        BY ONLY <4>1, <4>2
    <3>4. ~ plan.cut > 0
      BY ONLY <2>7
    <3> QED
      BY <3>1, <3>2, <3>3, <3>4
  <2> QED
    BY <2>7, <2>8 DEF CutsInv
<1>4. CASE shipment # 0
  <2>1. /\ todo \in Seq(Nat) /\ EventsIn(todo) = total
        /\ \A i \in 1 .. Len(todo) : todo[i] \in MinEvents .. shipment
    BY <1>1, <1>2, <1>4, ShipmentsFit
  <2>2. \A i \in 1 .. Len(todo) : todo[i] >= MinEvents /\ todo[i] <= shipment
    BY <1>2, <2>1
  <2>3. Len(todo) > 0 => 0 + todo[1] <= shipment
    BY <1>4, <2>1
  <2> QED
    BY <1>1, <1>2, <1>4, <2>1, <2>2, <2>3 DEF Planned, CutsInv, PlanType
<1> QED
  BY <1>3, <1>4

\* A lot that leaves nothing of its shipment, or at least another lot.
LEMMA CutKeeps ==
  ASSUME CutsInv, plan.todo # <<>>, NEW part \in MinEvents .. MaxEvents, Cut(part),
         part = plan.todo[1] \/ (part <= plan.todo[1] /\ plan.todo[1] - part >= MinEvents)
  PROVE  CutsInv'
<1> DEFINE todo == plan.todo
<1>1. /\ MinEvents \in Nat /\ MinEvents >= 1 /\ MaxEvents \in Nat /\ part \in Nat
      /\ todo \in Seq(Nat) /\ Len(todo) > 0 /\ todo[1] \in Nat /\ AreSizes(todo)
  BY CutsAssumption DEF CutsInv, PlanType, AreSizes
<1> DEFINE ends == part = todo[1]
           open == (IF plan.ends THEN 0 ELSE plan.open) + part
           left == IF ends THEN Tail(todo) ELSE [todo EXCEPT ![1] = @ - part]
<1>2. plan' = [plan EXCEPT !.todo = left, !.lot = part, !.ends = ends, !.open = open,
                           !.cut = @ + part]
  BY DEF Cut
<1>3. /\ plan.total \in Nat /\ plan.shipment \in {0} \cup Shipments /\ plan.ends \in BOOLEAN
      /\ plan.open \in Nat /\ plan.cut \in Nat /\ plan.lot \in Nat
      /\ plan.shipment \in Nat
  <2>1. /\ plan.total \in Nat /\ plan.shipment \in {0} \cup Shipments /\ plan.ends \in BOOLEAN
        /\ plan.open \in Nat /\ plan.cut \in Nat /\ plan.lot \in Nat
    BY DEF CutsInv, PlanType
  <2>2. \A x \in Shipments : x \in Nat
    BY CutsAssumption
  <2> QED
    BY <2>1, <2>2
<1>4. /\ left \in Seq(Nat) /\ EventsIn(left) = EventsIn(todo) - part
      /\ \A i \in 1 .. Len(left) : left[i] >= MinEvents
      /\ plan.shipment = 0 => Len(left) <= 1
      /\ plan.shipment # 0 => \A i \in 1 .. Len(left) : left[i] <= plan.shipment
      /\ ~ ends => Len(left) > 0 /\ left[1] = todo[1] - part
  <2>1. CASE ends
    <3>1. left = Tail(todo)
      BY <2>1
    <3> HIDE DEF left
    <3>2. /\ left \in Seq(Nat) /\ Len(left) = Len(todo) - 1
          /\ \A i \in 1 .. Len(left) : left[i] = todo[i + 1] /\ i + 1 \in 1 .. Len(todo)
      <4> HIDE DEF todo
      <4> QED
        BY ONLY <1>1, <3>1
    <3>3. EventsIn(left) = EventsIn(todo) - part
      BY <1>1, <2>1, <3>2, SumOfTail
    <3>4. \A i \in 1 .. Len(todo) :
            /\ todo[i] >= MinEvents
            /\ plan.shipment # 0 => todo[i] <= plan.shipment
      BY DEF CutsInv
    <3>5. plan.shipment = 0 => Len(left) <= 1
      BY <1>1, <3>2 DEF CutsInv
    <3> HIDE DEF todo
    <3> QED
      BY <2>1, <3>2, <3>3, <3>4, <3>5
  <2>2. CASE ~ ends
    <3>1. left = [todo EXCEPT ![1] = @ - part] /\ todo[1] - part \in Nat
          /\ todo[1] - part >= MinEvents
      BY <1>1, <2>2
    <3> HIDE DEF left
    <3>2. /\ left \in Seq(Nat) /\ Len(left) = Len(todo)
          /\ \A i \in 1 .. Len(todo) : left[i] = IF i = 1 THEN todo[i] - part ELSE todo[i]
      BY <1>1, <3>1
    <3>3. EventsIn(left) = EventsIn(todo) - part
      <4>1. 1 \in 1 .. Len(todo) /\ part \in Int
        BY <1>1
      <4> HIDE DEF todo
      <4> QED
        BY <1>1, <3>2, <4>1, SumOfLess
    <3>4. \A i \in 1 .. Len(todo) : todo[i] \in Nat
      BY <1>1
    <3>5. \A i \in 1 .. Len(left) : left[i] >= MinEvents /\ left[i] <= todo[i]
      BY <1>1, <3>1, <3>2, <3>4 DEF CutsInv
    <3>6. plan.shipment # 0 => \A i \in 1 .. Len(left) : left[i] <= plan.shipment
      <4>1. \A i \in 1 .. Len(left) : left[i] \in Nat
        BY <3>2
      <4>2. plan.shipment # 0 => \A i \in 1 .. Len(todo) : todo[i] <= plan.shipment
        BY DEF CutsInv
      <4> HIDE DEF todo
      <4>3. \A a, b, c \in Nat : a <= b /\ b <= c => a <= c
        OBVIOUS
      <4> QED
        BY <1>3, <3>2, <3>4, <3>5, <4>1, <4>2, <4>3
    <3>7. Len(left) > 0 /\ left[1] = todo[1] - part
      BY <1>1, <3>2
    <3> QED
      BY <2>2, <3>2, <3>3, <3>5, <3>6, <3>7 DEF CutsInv
  <2> QED
    BY <2>1, <2>2
<1>5. EventsIn(todo) \in Int
  <2>1. PICK f \in [Nat -> Int] : EventsIn(todo) = f[Len(todo)]
    BY <1>1, SumExists DEF AreSizes
  <2> QED
    BY <1>1, <2>1
<1>6. plan.shipment # 0 =>
        IF ends THEN open \in MinEvents .. plan.shipment
                ELSE Len(left) > 0 => open + left[1] <= plan.shipment
  <2> SUFFICES ASSUME plan.shipment # 0
               PROVE  IF ends THEN open \in MinEvents .. plan.shipment
                              ELSE Len(left) > 0 => open + left[1] <= plan.shipment
    OBVIOUS
  <2>1. (IF plan.ends THEN 0 ELSE plan.open) + todo[1] <= plan.shipment
    <3>1. todo[1] <= plan.shipment
      BY <1>1 DEF CutsInv
    <3> QED
      BY <1>1, <1>3, <3>1 DEF CutsInv
  <2> HIDE DEF todo, left
  <2> QED
    BY <1>1, <1>3, <1>4, <2>1
<1>7. open \in Nat /\ ends \in BOOLEAN
  BY <1>1, <1>3
<1> HIDE DEF left, ends, open
<1>8. /\ plan'.todo = left /\ plan'.lot = part /\ plan'.ends = ends /\ plan'.open = open
      /\ plan'.cut = plan.cut + part /\ plan'.total = plan.total
      /\ plan'.shipment = plan.shipment /\ plan' \in PlanType /\ ~ plan'.failed
  <2>1. plan \in PlanType /\ ~ plan.failed
    BY DEF CutsInv
  <2>2. plan.cut + part \in Nat
    BY <1>1, <1>3
  <2> QED
    BY <1>1, <1>2, <1>4, <1>7, <2>1, <2>2 DEF PlanType
<1>9. plan'.cut + EventsIn(left) = plan'.total
  BY <1>1, <1>3, <1>4, <1>5, <1>8 DEF CutsInv
<1> QED
  BY <1>4, <1>6, <1>8, <1>9 DEF CutsInv

\* And every cut keeps it so.
LEMMA CutsKeep == CutsInv /\ [CutsNext]_plan => CutsInv'
<1> SUFFICES ASSUME CutsInv, [CutsNext]_plan PROVE CutsInv'
  OBVIOUS
<1>1. CASE UNCHANGED plan
  BY <1>1 DEF CutsInv
<1> DEFINE left == plan.todo[1]
<1>2. /\ MinEvents \in Nat /\ MinEvents >= 1 /\ MaxEvents \in Nat
      /\ 2 * MinEvents <= MaxEvents + 1
  BY CutsAssumption
<1>3. ASSUME CutsNext PROVE left \in Nat /\ left >= MinEvents /\ plan.todo # <<>>
  BY <1>3 DEF CutsNext, CutsInv, PlanType
<1>4. ASSUME CutLeaf, CutsNext PROVE CutsInv'
  <2> DEFINE part == IF left <= MaxEvents THEN left
                     ELSE IF left - MinEvents < MaxEvents THEN left - MinEvents
                     ELSE MaxEvents
  <2>1. /\ part \in MinEvents .. MaxEvents
        /\ part = left \/ (part <= left /\ left - part >= MinEvents)
    BY <1>2, <1>3, <1>4
  <2>2. Cut(part)
    BY <1>2, <1>4, <2>1 DEF CutLeaf
  <2> HIDE DEF part
  <2> QED
    BY <1>3, <1>4, <2>1, <2>2, CutKeeps
<1>5. ASSUME CutLot, CutsNext PROVE CutsInv'
  <2>1. PICK target \in IF left <= MaxEvents THEN {left} ELSE MinEvents .. MaxEvents :
          Cut(IF left - target \in 1 .. MinEvents - 1
                THEN target - (MinEvents - (left - target)) ELSE target)
    BY <1>5 DEF CutLot
  <2> DEFINE part == IF left - target \in 1 .. MinEvents - 1
                       THEN target - (MinEvents - (left - target)) ELSE target
  <2>2. /\ part \in MinEvents .. MaxEvents
        /\ part = left \/ (part <= left /\ left - part >= MinEvents)
    <3>1. /\ left \in Nat /\ left >= MinEvents
          /\ (left <= MaxEvents /\ target = left)
             \/ (left > MaxEvents /\ target \in MinEvents .. MaxEvents)
      BY <1>2, <1>3, <1>5
    <3> HIDE DEF left
    <3> QED
      BY <1>2, <3>1
  <2>3. Cut(part)
    BY <2>1
  <2> HIDE DEF part
  <2> QED
    BY <1>3, <1>5, <2>2, <2>3, CutKeeps
<1> QED
  BY <1>1, <1>4, <1>5 DEF CutsNext

\* All events are in lots of a size that a policy proof takes, whatever their
\* number, the shipment and the sizes drawn, as long as the bounds leave room to
\* split a lot (schedule, shipment_sizes, accumulate_lots).
THEOREM AllLotsFit == CutsSpec => []LotsFit
<1>1. CutsInv => LotsFit
  BY DEF CutsInv, PlanType, LotsFit
<1> QED
  BY <1>1, CutsBegin, CutsKeep, PTL DEF CutsSpec
-----------------------------------------------------------------------------
(* The geofence: segments have no direction.                                 *)

\* Products that are equal have factors of equal sign.
LEMMA SameSign ==
  ASSUME NEW k \in Int, NEW m \in Int, NEW s \in Int, NEW t \in Int, k > 0, m > 0, k * s = m * t
  PROVE  (s > 0 <=> t > 0) /\ (s < 0 <=> t < 0)
<1>1. \A x, y \in Int : x > 0 /\ y > 0 => x * y > 0
  OBVIOUS
<1>2. \A x, y \in Int : x > 0 /\ y < 0 => x * y < 0
  OBVIOUS
<1>3. \A x \in Int : x * 0 = 0
  OBVIOUS
<1>4. /\ s > 0 => k * s > 0
      /\ s < 0 => k * s < 0
      /\ s = 0 => k * s = 0
      /\ t > 0 => m * t > 0
      /\ t < 0 => m * t < 0
      /\ t = 0 => m * t = 0
  BY <1>1, <1>2, <1>3
<1>5. k * s \in Int /\ m * t \in Int
  OBVIOUS
<1> QED
  BY <1>4, <1>5

\* An orientation, seen from the first and from the second point.
LEMMA OrientationTurns ==
  ASSUME NEW a \in Point, NEW b \in Point, NEW p \in Point
  PROVE  /\ Orientation(a, b, p) \in Int
         /\ Orientation(b, a, p) = - Orientation(a, b, p)
         /\ Orientation(b, p, a) = Orientation(a, b, p)
<1>1. /\ a.lat \in Int /\ a.lon \in Int /\ b.lat \in Int /\ b.lon \in Int
      /\ p.lat \in Int /\ p.lon \in Int
  BY DEF Point
<1>2. PICK al, ao, bl, bo, pl, po \in Int :
        /\ al = a.lat /\ ao = a.lon /\ bl = b.lat /\ bo = b.lon /\ pl = p.lat /\ po = p.lon
  BY <1>1
<1>3. /\ Orientation(a, b, p) = (bo - ao) * (pl - al) - (bl - al) * (po - ao)
      /\ Orientation(b, a, p) = (ao - bo) * (pl - bl) - (al - bl) * (po - bo)
      /\ Orientation(b, p, a) = (po - bo) * (al - bl) - (pl - bl) * (ao - bo)
  BY <1>2 DEF Orientation
<1>4. /\ (bo - ao) * (pl - al) = bo * pl - bo * al - ao * pl + ao * al
      /\ (bl - al) * (po - ao) = bl * po - bl * ao - al * po + al * ao
      /\ (ao - bo) * (pl - bl) = ao * pl - ao * bl - bo * pl + bo * bl
      /\ (al - bl) * (po - bo) = al * po - al * bo - bl * po + bl * bo
      /\ (po - bo) * (al - bl) = po * al - po * bl - bo * al + bo * bl
      /\ (pl - bl) * (ao - bo) = pl * ao - pl * bo - bl * ao + bl * bo
  OBVIOUS
<1>5. \A x, y \in Int : x * y = y * x /\ x * y \in Int
  OBVIOUS
<1> QED
  BY <1>3, <1>4, <1>5

\* On a line through a and b, a point that is not between them has both on one
\* side of any line through it.
LEMMA SameSide ==
  ASSUME NEW a \in Point, NEW b \in Point, NEW c \in Point, NEW d \in Point,
         Orientation(a, b, c) = 0, ~ PointOnSegment(a, b, c)
  PROVE  /\ Orientation(c, d, a) > 0 <=> Orientation(c, d, b) > 0
         /\ Orientation(c, d, a) < 0 <=> Orientation(c, d, b) < 0
<1>1. /\ a.lat \in Int /\ a.lon \in Int /\ b.lat \in Int /\ b.lon \in Int
      /\ c.lat \in Int /\ c.lon \in Int /\ d.lat \in Int /\ d.lon \in Int
  BY DEF Point
<1>2. PICK x, y, z, w, u, v :
        /\ x = a.lon - c.lon /\ y = a.lat - c.lat /\ z = b.lon - c.lon /\ w = b.lat - c.lat
        /\ u = d.lon - c.lon /\ v = d.lat - c.lat
  BY Zenon
<1>10. x \in Int /\ y \in Int /\ z \in Int /\ w \in Int /\ u \in Int /\ v \in Int
  BY <1>1, <1>2
<1>3. PICK s, t : s = u * y - v * x /\ t = u * w - v * z /\ s \in Int /\ t \in Int
  BY <1>10
<1>4. Orientation(c, d, a) = s /\ Orientation(c, d, b) = t
  BY <1>2, <1>3 DEF Orientation
<1>5. x * w = z * y
  <2>1. Orientation(b, c, a) = 0
    BY OrientationTurns
  <2>2. Orientation(c, a, b) = 0
    BY <2>1, OrientationTurns
  <2>3. Orientation(c, a, b) = x * w - y * z
    BY <1>2 DEF Orientation
  <2> QED
    BY <1>10, <2>2, <2>3
<1>6. (x > 0 /\ z > 0) \/ (x < 0 /\ z < 0) \/ (y > 0 /\ w > 0) \/ (y < 0 /\ w < 0)
  <2>1. /\ Min({a.lat, b.lat}) = IF a.lat <= b.lat THEN a.lat ELSE b.lat
        /\ Max({a.lat, b.lat}) = IF a.lat >= b.lat THEN a.lat ELSE b.lat
        /\ Min({a.lon, b.lon}) = IF a.lon <= b.lon THEN a.lon ELSE b.lon
        /\ Max({a.lon, b.lon}) = IF a.lon >= b.lon THEN a.lon ELSE b.lon
    BY <1>1, MinOfTwo, MaxOfTwo
  <2>2. ~ (/\ c.lon >= (IF a.lon <= b.lon THEN a.lon ELSE b.lon)
           /\ c.lon <= (IF a.lon >= b.lon THEN a.lon ELSE b.lon)
           /\ c.lat >= (IF a.lat <= b.lat THEN a.lat ELSE b.lat)
           /\ c.lat <= (IF a.lat >= b.lat THEN a.lat ELSE b.lat))
    BY <2>1 DEF PointOnSegment
  <2> QED
    BY <1>1, <1>2, <2>2
<1>7. /\ z * s = x * t
      /\ w * s = y * t
  <2>1. /\ z * (u * y - v * x) = u * (z * y) - (z * v) * x
        /\ x * (u * w - v * z) = u * (x * w) - (z * v) * x
        /\ w * (u * y - v * x) = (u * y) * w - v * (x * w)
        /\ y * (u * w - v * z) = (u * y) * w - v * (z * y)
    BY <1>10
  <2> QED
    BY <1>3, <1>5, <2>1
<1>8. /\ (- z) * s = (- x) * t
      /\ (- w) * s = (- y) * t
  <2>1. \A k, m \in Int : (- k) * m = - (k * m)
    OBVIOUS
  <2> QED
    BY <1>10, <1>3, <1>7, <2>1
<1>9. (s > 0 <=> t > 0) /\ (s < 0 <=> t < 0)
  <2>1. CASE x > 0 /\ z > 0
    BY <1>10, <1>3, <1>7, <2>1, SameSign
  <2>2. CASE x < 0 /\ z < 0
    <3>1. - x > 0 /\ - z > 0 /\ - x \in Int /\ - z \in Int
      BY <1>10, <2>2
    <3> QED
      BY <1>3, <1>8, <3>1, SameSign
  <2>3. CASE y > 0 /\ w > 0
    BY <1>10, <1>3, <1>7, <2>3, SameSign
  <2>4. CASE y < 0 /\ w < 0
    <3>1. - y > 0 /\ - w > 0 /\ - y \in Int /\ - w \in Int
      BY <1>10, <2>4
    <3> QED
      BY <1>3, <1>8, <3>1, SameSign
  <2> QED
    BY <1>6, <2>1, <2>2, <2>3, <2>4
<1> QED
  BY <1>4, <1>9

\* The direction of a segment, and the order of two, do not matter.
LEMMA SegmentTurns ==
  ASSUME NEW a \in Point, NEW b \in Point, NEW c \in Point, NEW d \in Point
  PROVE  /\ PointOnSegment(b, a, c) <=> PointOnSegment(a, b, c)
         /\ CrossesRight(b, a, c) <=> CrossesRight(a, b, c)
         /\ SegmentsIntersect(c, d, a, b) <=> SegmentsIntersect(a, b, c, d)
         /\ SegmentsIntersect(b, a, c, d) <=> SegmentsIntersect(a, b, c, d)
<1>1. ASSUME NEW e \in Point, NEW f \in Point, NEW p \in Point
      PROVE  PointOnSegment(f, e, p) <=> PointOnSegment(e, f, p)
  <2>1. {e.lat, f.lat} = {f.lat, e.lat} /\ {e.lon, f.lon} = {f.lon, e.lon}
    OBVIOUS
  <2>2. Orientation(f, e, p) = - Orientation(e, f, p) /\ Orientation(e, f, p) \in Int
    BY OrientationTurns
  <2>3. Orientation(f, e, p) = 0 <=> Orientation(e, f, p) = 0
    BY <2>2
  <2> QED
    BY <2>1, <2>3 DEF PointOnSegment
<1>2. CrossesRight(b, a, c) <=> CrossesRight(a, b, c)
  <2>1. Orientation(b, a, c) = - Orientation(a, b, c) /\ Orientation(a, b, c) \in Int
    BY OrientationTurns
  <2>2. a.lat \in Int /\ b.lat \in Int /\ c.lat \in Int
    BY DEF Point
  <2> QED
    BY <2>1, <2>2 DEF CrossesRight
<1>3. SegmentsIntersect(c, d, a, b) <=> SegmentsIntersect(a, b, c, d)
  BY DEF SegmentsIntersect
\* The signs of the orientations, where neither end is on the other segment.
<1>4. ASSUME NEW e \in Point, NEW f \in Point,
             SegmentsIntersect(e, f, c, d),
             ~ PointOnSegment(e, f, c), ~ PointOnSegment(e, f, d),
             ~ PointOnSegment(c, d, e), ~ PointOnSegment(c, d, f)
      PROVE  SegmentsIntersect(f, e, c, d)
  <2>1. /\ (Orientation(e, f, c) > 0) # (Orientation(e, f, d) > 0)
        /\ (Orientation(c, d, e) > 0) # (Orientation(c, d, f) > 0)
    BY <1>4 DEF SegmentsIntersect
  <2>2. /\ Orientation(f, e, c) = - Orientation(e, f, c) /\ Orientation(e, f, c) \in Int
        /\ Orientation(f, e, d) = - Orientation(e, f, d) /\ Orientation(e, f, d) \in Int
        /\ Orientation(d, c, e) = - Orientation(c, d, e) /\ Orientation(c, d, e) \in Int
        /\ Orientation(d, c, f) = - Orientation(c, d, f) /\ Orientation(c, d, f) \in Int
    BY OrientationTurns
  <2>3. Orientation(e, f, c) # 0
    <3> SUFFICES ASSUME Orientation(e, f, c) = 0 PROVE FALSE
      OBVIOUS
    <3>1. Orientation(c, d, e) > 0 <=> Orientation(c, d, f) > 0
      BY <1>4, SameSide
    <3> QED
      BY <2>1, <3>1
  <2>4. Orientation(e, f, d) # 0
    <3> SUFFICES ASSUME Orientation(e, f, d) = 0 PROVE FALSE
      OBVIOUS
    <3>1. Orientation(d, c, e) < 0 <=> Orientation(d, c, f) < 0
      BY <1>4, SameSide
    <3> QED
      BY <2>1, <2>2, <3>1
  <2>5. (Orientation(f, e, c) > 0) # (Orientation(f, e, d) > 0)
    BY <2>1, <2>2, <2>3, <2>4
  <2> QED
    BY <2>1, <2>5 DEF SegmentsIntersect
\* Either way, an end that lies on the other segment decides.
<1>5. ASSUME NEW e \in Point, NEW f \in Point,
             \/ PointOnSegment(e, f, c) \/ PointOnSegment(e, f, d)
             \/ PointOnSegment(c, d, e) \/ PointOnSegment(c, d, f)
      PROVE  SegmentsIntersect(e, f, c, d)
  BY <1>5 DEF SegmentsIntersect, PointOnSegment
<1>6. SegmentsIntersect(b, a, c, d) <=> SegmentsIntersect(a, b, c, d)
  <2> DEFINE touch == \/ PointOnSegment(a, b, c) \/ PointOnSegment(a, b, d)
                      \/ PointOnSegment(c, d, a) \/ PointOnSegment(c, d, b)
  <2>1. (PointOnSegment(b, a, c) <=> PointOnSegment(a, b, c))
        /\ (PointOnSegment(b, a, d) <=> PointOnSegment(a, b, d))
    BY <1>1
  <2>2. CASE touch
    <3>1. SegmentsIntersect(a, b, c, d)
      BY <1>5, <2>2
    <3>2. SegmentsIntersect(b, a, c, d)
      BY <1>5, <2>1, <2>2
    <3> QED
      BY <3>1, <3>2
  <2>3. CASE ~ touch
    <3>1. SegmentsIntersect(a, b, c, d) => SegmentsIntersect(b, a, c, d)
      BY <1>4, <2>3
    <3>2. SegmentsIntersect(b, a, c, d) => SegmentsIntersect(a, b, c, d)
      BY <1>4, <2>1, <2>3
    <3> QED
      BY <3>1, <3>2
  <2> QED
    BY <2>2, <2>3
<1>7. PointOnSegment(b, a, c) <=> PointOnSegment(a, b, c)
  BY <1>1
<1> QED
  BY ONLY <1>2, <1>3, <1>6, <1>7

\* Each edge of one polygon is an edge of the other, in either direction, and
\* edges that are not adjacent stay so.
Redraws(vs, ws, f) ==
  /\ vs \in Seq(Point) /\ ws \in Seq(Point) /\ Len(ws) = Len(vs) /\ Len(vs) >= 3
  /\ f \in [1 .. Len(vs) -> 1 .. Len(vs)]
  /\ \A i \in 1 .. Len(vs) :
       \/ ws[i] = vs[f[i]] /\ After(ws, i) = After(vs, f[i])
       \/ ws[i] = After(vs, f[i]) /\ After(ws, i) = vs[f[i]]
  /\ \A i, j \in 1 .. Len(vs) : i # j => f[i] # f[j]
  /\ \A i, j \in 1 .. Len(vs) :
       i < j /\ ~ Adjacent(i, j, Len(vs)) =>
         \/ f[i] < f[j] /\ ~ Adjacent(f[i], f[j], Len(vs))
         \/ f[j] < f[i] /\ ~ Adjacent(f[j], f[i], Len(vs))

\* The edges of a polygon that the ray from a point crosses.
Crossed(vs, p) == {i \in 1 .. Len(vs) : CrossesRight(vs[i], After(vs, i), p)}

\* The vertex after one of a polygon is one of it, the first after the last.
LEMMA AfterIn ==
  ASSUME NEW vs \in Seq(Point), Len(vs) >= 3, NEW i \in 1 .. Len(vs)
  PROVE  vs[i] \in Point /\ After(vs, i) \in Point
         /\ After(vs, i) = IF i = Len(vs) THEN vs[1] ELSE vs[i + 1]
<1>1. Len(vs) \in Nat /\ vs[i] \in Point
  OBVIOUS
<1>2. i % Len(vs) = IF i = Len(vs) THEN 0 ELSE i
  BY <1>1
<1>3. (i % Len(vs)) + 1 \in 1 .. Len(vs)
  BY <1>1, <1>2
<1> QED
  BY <1>1, <1>2, <1>3 DEF After

\* What validate_polygon tests of the edges, and the crossings of a ray, hold of
\* the edges whatever their order.
LEMMA RedrawKeeps ==
  ASSUME NEW vs, NEW ws, NEW f, Redraws(vs, ws, f)
  PROVE  /\ (\A i \in 1 .. Len(vs) : InBounds(vs[i])) => \A i \in 1 .. Len(ws) : InBounds(ws[i])
         /\ NoDuplicateNeighbours(vs) => NoDuplicateNeighbours(ws)
         /\ NoCrossing(vs) => NoCrossing(ws)
         /\ \A p \in Point : OnBoundary(ws, p) => OnBoundary(vs, p)
         /\ \A p \in Point : Cardinality(Crossed(ws, p)) <= Cardinality(Crossed(vs, p))
<1>1. PICK n : n = Len(vs) /\ n = Len(ws) /\ n \in Nat /\ n >= 3
  BY DEF Redraws
<1>2. vs \in Seq(Point) /\ ws \in Seq(Point) /\ f \in [1 .. n -> 1 .. n]
  BY <1>1 DEF Redraws
<1>3. ASSUME NEW i \in 1 .. n
      PROVE  /\ f[i] \in 1 .. n
             /\ ws[i] \in Point /\ After(ws, i) \in Point
             /\ vs[f[i]] \in Point /\ After(vs, f[i]) \in Point
             /\ \/ ws[i] = vs[f[i]] /\ After(ws, i) = After(vs, f[i])
                \/ ws[i] = After(vs, f[i]) /\ After(ws, i) = vs[f[i]]
             /\ \E k \in 1 .. n : After(vs, f[i]) = vs[k]
  <2>1. f[i] \in 1 .. n
    BY <1>2
  <2>2. PICK k : k = f[i] /\ k \in 1 .. Len(vs)
    BY <1>1, <2>1
  <2>3. vs[k] \in Point /\ After(vs, k) \in Point
        /\ After(vs, k) = IF k = Len(vs) THEN vs[1] ELSE vs[k + 1]
    BY ONLY <1>1, <1>2, <2>2, AfterIn
  <2>4. ws[i] \in Point /\ After(ws, i) \in Point
    <3>1. i \in 1 .. Len(ws) /\ Len(ws) >= 3
      BY <1>1
    <3> QED
      BY ONLY <1>2, <3>1, AfterIn
  <2>5. \/ ws[i] = vs[f[i]] /\ After(ws, i) = After(vs, f[i])
        \/ ws[i] = After(vs, f[i]) /\ After(ws, i) = vs[f[i]]
    BY <1>1 DEF Redraws
  <2>6. \E j \in 1 .. n : After(vs, k) = vs[j]
    <3>1. CASE k = n
      <4>1. 1 \in 1 .. n
        BY <1>1
      <4> QED
        BY <1>1, <2>3, <3>1, <4>1
    <3>2. CASE k # n
      <4>1. k + 1 \in 1 .. n
        BY <1>1, <2>2, <3>2
      <4> QED
        BY <1>1, <2>3, <3>2, <4>1
    <3> QED
      BY <3>1, <3>2
  <2> QED
    BY <2>1, <2>2, <2>3, <2>4, <2>5, <2>6
<1>4. (\A i \in 1 .. n : InBounds(vs[i])) => \A i \in 1 .. n : InBounds(ws[i])
  <2> SUFFICES ASSUME \A i \in 1 .. n : InBounds(vs[i]), NEW i \in 1 .. n PROVE InBounds(ws[i])
    OBVIOUS
  <2>1. \E k \in 1 .. n : ws[i] = vs[k]
    BY <1>3
  <2> QED
    BY <2>1
<1>5. NoDuplicateNeighbours(vs) => NoDuplicateNeighbours(ws)
  <2> SUFFICES ASSUME NoDuplicateNeighbours(vs), NEW i \in 1 .. n PROVE ws[i] # After(ws, i)
    BY <1>1 DEF NoDuplicateNeighbours
  <2>1. vs[f[i]] # After(vs, f[i])
    BY <1>1, <1>3 DEF NoDuplicateNeighbours
  <2> QED
    BY <1>3, <2>1
\* Two edges meet in the one polygon if they do in the other.
<1>6. ASSUME NEW i \in 1 .. n, NEW j \in 1 .. n,
             SegmentsIntersect(ws[i], After(ws, i), ws[j], After(ws, j))
      PROVE  /\ SegmentsIntersect(vs[f[i]], After(vs, f[i]), vs[f[j]], After(vs, f[j]))
             /\ SegmentsIntersect(vs[f[j]], After(vs, f[j]), vs[f[i]], After(vs, f[i]))
  <2>1. PICK a, b, c, d, e, g, h, k :
          /\ a = ws[i] /\ b = After(ws, i) /\ c = ws[j] /\ d = After(ws, j)
          /\ e = vs[f[i]] /\ g = After(vs, f[i]) /\ h = vs[f[j]] /\ k = After(vs, f[j])
    BY Zenon
  <2>2. /\ a \in Point /\ b \in Point /\ c \in Point /\ d \in Point
        /\ e \in Point /\ g \in Point /\ h \in Point /\ k \in Point
        /\ (a = e /\ b = g) \/ (a = g /\ b = e)
        /\ (c = h /\ d = k) \/ (c = k /\ d = h)
    BY <1>3, <2>1
  <2>3. SegmentsIntersect(a, b, c, d)
    BY <1>6, <2>1
  <2>4. SegmentsIntersect(e, g, c, d)
    BY <2>2, <2>3, SegmentTurns
  <2>5. SegmentsIntersect(c, d, e, g)
    BY <2>2, <2>4, SegmentTurns
  <2>6. SegmentsIntersect(h, k, e, g)
    BY <2>2, <2>5, SegmentTurns
  <2>7. SegmentsIntersect(e, g, h, k)
    BY <2>2, <2>6, SegmentTurns
  <2> QED
    BY <2>1, <2>6, <2>7
<1>7. NoCrossing(vs) => NoCrossing(ws)
  <2> SUFFICES ASSUME NoCrossing(vs), NEW i \in 1 .. n, NEW j \in 1 .. n, i < j,
                      ~ Adjacent(i, j, n),
                      SegmentsIntersect(ws[i], After(ws, i), ws[j], After(ws, j))
               PROVE  FALSE
    BY <1>1 DEF NoCrossing
  <2>1. /\ SegmentsIntersect(vs[f[i]], After(vs, f[i]), vs[f[j]], After(vs, f[j]))
        /\ SegmentsIntersect(vs[f[j]], After(vs, f[j]), vs[f[i]], After(vs, f[i]))
    BY <1>6
  <2>2. \/ f[i] < f[j] /\ ~ Adjacent(f[i], f[j], n)
        \/ f[j] < f[i] /\ ~ Adjacent(f[j], f[i], n)
    BY <1>1 DEF Redraws
  <2> QED
    BY <1>1, <1>3, <2>1, <2>2 DEF NoCrossing
<1>8. ASSUME NEW p \in Point, OnBoundary(ws, p) PROVE OnBoundary(vs, p)
  <2>1. PICK i \in 1 .. n : PointOnSegment(ws[i], After(ws, i), p)
    BY <1>1, <1>8 DEF OnBoundary
  <2>2. PointOnSegment(vs[f[i]], After(vs, f[i]), p)
    <3>1. PICK a, b, c, d : a = ws[i] /\ b = After(ws, i) /\ c = vs[f[i]] /\ d = After(vs, f[i])
      OBVIOUS
    <3>2. /\ a \in Point /\ b \in Point /\ c \in Point /\ d \in Point
          /\ (a = c /\ b = d) \/ (a = d /\ b = c)
      BY <1>3, <3>1
    <3> QED
      BY <2>1, <3>1, <3>2, SegmentTurns
  <2> QED
    BY <1>1, <1>3, <2>2 DEF OnBoundary
<1>9. ASSUME NEW p \in Point PROVE Cardinality(Crossed(ws, p)) <= Cardinality(Crossed(vs, p))
  <2> DEFINE A == Crossed(ws, p)
             B == Crossed(vs, p)
             g == [i \in A |-> f[i]]
  <2>1. A \subseteq 1 .. n /\ B \subseteq 1 .. n
    BY <1>1 DEF Crossed
  <2>2. ASSUME NEW i \in A PROVE f[i] \in B
    <3>1. i \in 1 .. n /\ CrossesRight(ws[i], After(ws, i), p)
      BY <1>1 DEF Crossed
    <3>2. CrossesRight(vs[f[i]], After(vs, f[i]), p)
      <4>1. PICK a, b, c, d : a = ws[i] /\ b = After(ws, i) /\ c = vs[f[i]] /\ d = After(vs, f[i])
        OBVIOUS
      <4>2. /\ a \in Point /\ b \in Point /\ c \in Point /\ d \in Point
            /\ (a = c /\ b = d) \/ (a = d /\ b = c)
        BY <1>3, <3>1, <4>1
      <4> QED
        BY <3>1, <4>1, <4>2, SegmentTurns
    <3> QED
      BY <1>1, <1>3, <3>1, <3>2 DEF Crossed
  <2>3. \A i, j \in A : i # j => f[i] # f[j]
    BY <1>1, <2>1 DEF Redraws
  <2> HIDE DEF A, B
  <2>4. g \in Injection(A, B)
    BY <2>2, <2>3 DEF Injection, IsInjective
  <2>5. IsFiniteSet(B)
    <3>1. IsFiniteSet(1 .. n)
      BY <1>1, FS_Interval
    <3> QED
      BY <2>1, <3>1, FS_Subset
  <2>6. Cardinality(A) <= Cardinality(B)
    BY <2>4, <2>5, FS_Injection
  <2> QED
    BY <2>6 DEF A, B
<1> QED
  BY <1>1, <1>4, <1>5, <1>7, <1>8, <1>9

AddsUp(f, s, n) == f[0] = 0 /\ \A i \in 1 .. n : f[i] = f[i - 1] + s[i]

\* Whatever adds up the entries one by one is any other that does.
LEMMA SumOnly ==
  ASSUME NEW n \in Nat, NEW s,
         NEW g, AddsUp(g, s, n), NEW f, AddsUp(f, s, n)
  PROVE  g[n] = f[n]
<1> USE DEF AddsUp
<1> DEFINE U == {k \in Nat : k <= n => g[k] = f[k]}
<1>2. 0 \in U
  OBVIOUS
<1>3. ASSUME NEW k \in U PROVE k + 1 \in U
  <2>1. k \in Nat
    OBVIOUS
  <2>2. ASSUME k + 1 <= n PROVE g[k + 1] = f[k + 1]
    <3>1. k + 1 \in 1 .. n /\ k + 1 \in 0 .. n /\ (k + 1) - 1 = k /\ k + 1 # 0
      BY <2>1, <2>2
    <3>2. g[k] = f[k]
      BY <2>1, <2>2
    <3>3. f[k + 1] = f[k] + s[k + 1]
      BY <3>1
    <3>4. g[k + 1] = g[k] + s[k + 1]
      BY <3>1
    <3> QED
      BY <3>2, <3>3, <3>4
  <2> QED
    BY <2>1, <2>2
<1>4. U = Nat
  <2>1. U \in SUBSET Nat
    OBVIOUS
  <2> HIDE DEF U
  <2> QED
    BY <1>2, <1>3, <2>1, Induction
<1>5. n \in U
  BY <1>4
<1>6. n <= n => g[n] = f[n]
  BY ONLY <1>5
<1> QED
  BY ONLY <1>6, n \in Nat

\* What each edge adds to the area.
Terms(vs) ==
  [i \in 1 .. Len(vs) |-> vs[i].lon * After(vs, i).lat - After(vs, i).lon * vs[i].lat]

\* The area is the sum of the terms of the edges.
LEMMA AreaIsSum ==
  ASSUME NEW vs \in Seq(Point), Len(vs) >= 3
  PROVE  /\ AreSizes(Terms(vs)) /\ Len(Terms(vs)) = Len(vs)
         /\ DoubleArea(vs) = EventsIn(Terms(vs))
<1> DEFINE n == Len(vs)
           s == Terms(vs)
           Grows(g) == g = [i \in 0 .. n |-> IF i = 0 THEN 0
                              ELSE g[i - 1] + (vs[i].lon * After(vs, i).lat - After(vs, i).lon * vs[i].lat)]
           Adds(g) == g = [i \in 0 .. n |-> IF i = 0 THEN 0 ELSE g[i - 1] + s[i]]
           area == CHOOSE g : Grows(g)
<1>1. n \in Nat
  OBVIOUS
<1>2. ASSUME NEW i \in 1 .. n
      PROVE  /\ s[i] = vs[i].lon * After(vs, i).lat - After(vs, i).lon * vs[i].lat
             /\ s[i] \in Int
  <2>1. vs[i] \in Point /\ After(vs, i) \in Point
    BY ONLY vs \in Seq(Point), Len(vs) >= 3, i \in 1 .. Len(vs), AfterIn
  <2>2. /\ vs[i].lon \in Int /\ vs[i].lat \in Int
        /\ After(vs, i).lon \in Int /\ After(vs, i).lat \in Int
    BY <2>1 DEF Point
  <2>3. s[i] = vs[i].lon * After(vs, i).lat - After(vs, i).lon * vs[i].lat
    BY DEF Terms
  <2> QED
    BY <2>2, <2>3
<1>3. Len(s) = n
  <2>1. s \in [1 .. n -> Int]
    <3>1. s = [i \in 1 .. n |-> s[i]]
      BY DEF Terms
    <3> HIDE DEF s
    <3> QED
      BY <1>2, <3>1
  <2> QED
    BY <1>1, <2>1, LenProperties
<1>4. DoubleArea(vs) = area[n]
  BY DEF DoubleArea
<1> HIDE DEF s
<1>5. PICK f \in [Nat -> Int] :
        /\ f[0] = 0 /\ \A i \in 1 .. n : f[i] = f[i - 1] + s[i]
        /\ EventsIn(s) = f[n]
  BY <1>1, <1>2, <1>3, SumExists
<1>6. ASSUME NEW g PROVE Grows(g) <=> Adds(g)
  <2> DEFINE own(i) == IF i = 0 THEN 0
                       ELSE g[i - 1] + (vs[i].lon * After(vs, i).lat - After(vs, i).lon * vs[i].lat)
             other(i) == IF i = 0 THEN 0 ELSE g[i - 1] + s[i]
  <2>1. ASSUME NEW i \in 0 .. n PROVE own(i) = other(i)
    <3>1. CASE i = 0
      BY <3>1
    <3>2. CASE i # 0
      <4>1. i \in 1 .. n
        BY <3>2
      <4>2. s[i] = vs[i].lon * After(vs, i).lat - After(vs, i).lon * vs[i].lat
        BY <1>2, <4>1
      <4> QED
        BY <4>2
    <3> QED
      BY <3>1, <3>2
  <2>2. Grows(g) <=> g = [i \in 0 .. n |-> own(i)]
    OBVIOUS
  <2>3. Adds(g) <=> g = [i \in 0 .. n |-> other(i)]
    OBVIOUS
  <2> HIDE DEF own, other, Grows, Adds
  <2> QED
    BY <2>1, <2>2, <2>3
<1>7. \E g : Grows(g)
  <2> DEFINE own == [i \in 0 .. n |-> f[i]]
  <2>1. ASSUME NEW i \in 0 .. n PROVE own[i] = IF i = 0 THEN 0 ELSE own[i - 1] + s[i]
    <3>1. CASE i = 0
      BY <1>5, <3>1
    <3>2. CASE i # 0
      <4>1. i \in 1 .. n /\ i - 1 \in 0 .. n
        BY <1>1, <3>2
      <4> QED
        BY <1>5, <3>2, <4>1
    <3> QED
      BY <3>1, <3>2
  <2>2. own = [i \in 0 .. n |-> own[i]]
    OBVIOUS
  <2> HIDE DEF own
  <2>3. Adds(own)
    BY <2>1, <2>2
  <2> HIDE DEF Adds, Grows
  <2> QED
    BY <1>6, <2>3
<1>8. Grows(area)
  <2> HIDE DEF Grows
  <2> QED
    BY <1>7
<1>9. Adds(area)
  <2> HIDE DEF Adds, Grows, area
  <2> QED
    BY <1>6, <1>8
<1> HIDE DEF area
<1>10. area[n] = f[n]
  <2>1. PICK g : g = area
    OBVIOUS
  <2>2. \A i \in 0 .. n : g[i] = IF i = 0 THEN 0 ELSE g[i - 1] + s[i]
    <3> DEFINE own == [i \in 0 .. n |-> IF i = 0 THEN 0 ELSE g[i - 1] + s[i]]
    <3>1. \A i \in 0 .. n : own[i] = IF i = 0 THEN 0 ELSE g[i - 1] + s[i]
      OBVIOUS
    <3>2. g = own
      BY <1>9, <2>1
    <3> HIDE DEF own
    <3> QED
      BY <3>1, <3>2
  <2>3. g[0] = 0 /\ \A i \in 1 .. n : g[i] = g[i - 1] + s[i]
    BY <1>1, <2>2
  <2>4. AddsUp(g, s, n) /\ AddsUp(f, s, n)
    BY <1>5, <2>3 DEF AddsUp
  <2>5. g[n] = f[n]
    BY ONLY <1>1, <2>4, SumOnly
  <2> QED
    BY <2>1, <2>5
<1> QED
  BY <1>1, <1>2, <1>3, <1>4, <1>5, <1>10 DEF AreSizes, s

\* A sum may begin anywhere.
LEMMA SumTurned ==
  ASSUME NEW s, NEW t, AreSizes(s), Len(s) > 0, Len(t) = Len(s),
         \A i \in 1 .. Len(s) : t[i] = IF i = Len(s) THEN s[1] ELSE s[i + 1]
  PROVE  EventsIn(t) = EventsIn(s)
<1>1. PICK f \in [Nat -> Int] :
        /\ f[0] = 0 /\ \A i \in 1 .. Len(s) : f[i] = f[i - 1] + s[i]
        /\ EventsIn(s) = f[Len(s)]
  BY SumExists DEF AreSizes
<1>2. PICK n : n = Len(s) /\ n \in Nat /\ n > 0
  BY DEF AreSizes
<1> DEFINE g == [k \in Nat |-> IF k < n THEN f[k + 1] - s[1] ELSE f[n]]
<1>3. 1 \in 1 .. n /\ s[1] \in Int /\ f[1] = s[1]
  <2>1. 1 \in 1 .. Len(s)
    BY <1>2
  <2>2. f[1] = f[1 - 1] + s[1] /\ 1 - 1 = 0 /\ s[1] \in Int
    BY <1>1, <2>1 DEF AreSizes
  <2> QED
    BY <1>1, <1>2, <2>1, <2>2
<1>4. g[0] = 0
  <2>1. g[0] = f[0 + 1] - s[1] /\ 0 + 1 = 1
    BY <1>2
  <2> QED
    BY <1>3, <2>1
<1>5. ASSUME NEW i \in 1 .. n PROVE t[i] \in Int /\ g[i] = g[i - 1] + t[i]
  <2>1. i \in Nat /\ i - 1 \in Nat /\ i - 1 < n /\ (i - 1) + 1 = i /\ n \in 1 .. n
    BY <1>2
  <2>2. g[i - 1] = f[i] - s[1] /\ f[i] \in Int
    BY <2>1
  <2>3. CASE i = n
    <3>1. g[i] = f[n] /\ t[i] = s[1]
      BY <1>2, <2>1, <2>3
    <3> HIDE DEF g
    <3> QED
      BY <1>3, <2>2, <2>3, <3>1
  <2>4. CASE i # n
    <3>1. i + 1 \in 1 .. n /\ i < n /\ (i + 1) - 1 = i
      BY <1>2, <2>1, <2>4
    <3>2. g[i] = f[i + 1] - s[1] /\ t[i] = s[i + 1]
      BY <1>2, <2>1, <2>4, <3>1
    <3>3. f[i + 1] = f[i] + s[i + 1] /\ s[i + 1] \in Int
      BY <1>1, <1>2, <3>1 DEF AreSizes
    <3> HIDE DEF g
    <3> QED
      BY <1>3, <2>2, <3>2, <3>3
  <2> HIDE DEF g
  <2> QED
    BY <2>3, <2>4
<1>6. g[n] = f[n]
  BY <1>2
<1> HIDE DEF g
<1>7. EventsIn(t) = g[Len(t)]
  <2>1. Len(t) = n
    BY <1>2
  <2>2. Len(t) \in Nat /\ \A i \in 1 .. Len(t) : t[i] \in Int
    BY <1>2, <1>5, <2>1
  <2>3. \A i \in 1 .. Len(t) : g[i] = g[i - 1] + t[i]
    BY <1>5, <2>1
  <2> QED
    BY ONLY <1>4, <2>2, <2>3, SumIs
<1> QED
  BY <1>1, <1>2, <1>6, <1>7

\* A sum may run backwards, and subtract.
LEMMA SumReversed ==
  ASSUME NEW s, NEW t, AreSizes(s), Len(s) > 0, Len(t) = Len(s),
         \A i \in 1 .. Len(s) : t[i] = IF i = Len(s) THEN - s[i] ELSE - s[Len(s) - i]
  PROVE  EventsIn(t) = - EventsIn(s) /\ EventsIn(s) \in Int
<1>1. PICK f \in [Nat -> Int] :
        /\ f[0] = 0 /\ \A i \in 1 .. Len(s) : f[i] = f[i - 1] + s[i]
        /\ EventsIn(s) = f[Len(s)]
  BY SumExists DEF AreSizes
<1>2. PICK n : n = Len(s) /\ n \in Nat /\ n > 0
  BY DEF AreSizes
<1> DEFINE g == [k \in Nat |-> IF k < n THEN f[n - 1 - k] - f[n - 1] ELSE - f[n]]
<1>3. n - 1 \in Nat /\ f[n - 1] \in Int /\ f[n] \in Int
  BY <1>2
<1>4. g[0] = 0
  <2>1. g[0] = f[n - 1 - 0] - f[n - 1] /\ n - 1 - 0 = n - 1
    BY <1>2
  <2> QED
    BY <1>3, <2>1
<1>5. ASSUME NEW i \in 1 .. n PROVE t[i] \in Int /\ g[i] = g[i - 1] + t[i]
  <2>1. i \in Nat /\ i - 1 \in Nat /\ i - 1 < n /\ n - 1 - (i - 1) = n - i /\ n - i \in Nat
    BY <1>2
  <2>2. g[i - 1] = f[n - i] - f[n - 1] /\ f[n - i] \in Int
    BY <2>1
  <2>3. CASE i = n
    <3>1. g[i] = - f[n] /\ t[i] = - s[n] /\ n - i = 0
      BY <1>2, <2>1, <2>3
    <3>2. f[n] = f[n - 1] + s[n] /\ s[n] \in Int
      BY <1>1, <1>2, <2>3 DEF AreSizes
    <3>3. f[n - i] = 0
      BY <1>1, <3>1
    <3> HIDE DEF g
    <3>4. g[i - 1] = 0 - f[n - 1]
      BY ONLY <2>2, <3>3
    <3> QED
      BY ONLY <1>3, <3>1, <3>2, <3>4
  <2>4. CASE i # n
    <3>1. n - i \in 1 .. n /\ i < n /\ (n - i) - 1 = n - 1 - i /\ n - 1 - i \in Nat
      BY <1>2, <2>1, <2>4
    <3>2. g[i] = f[n - 1 - i] - f[n - 1] /\ t[i] = - s[n - i]
      BY <1>2, <2>1, <2>4, <3>1
    <3>3. f[n - i] = f[(n - i) - 1] + s[n - i] /\ s[n - i] \in Int
      BY <1>1, <1>2, <3>1 DEF AreSizes
    <3>4. f[n - 1 - i] \in Int
      BY <3>1
    <3>5. f[n - i] = f[n - 1 - i] + s[n - i]
      BY ONLY <3>1, <3>3
    <3> HIDE DEF g
    <3> QED
      BY ONLY <1>3, <2>2, <3>2, <3>3, <3>4, <3>5
  <2> HIDE DEF g
  <2> QED
    BY <2>3, <2>4
<1>6. g[n] = - f[n]
  BY <1>2
<1> HIDE DEF g
<1>7. EventsIn(t) = g[Len(t)]
  <2>1. Len(t) = n
    BY <1>2
  <2>2. Len(t) \in Nat /\ \A i \in 1 .. Len(t) : t[i] \in Int
    BY <1>2, <1>5, <2>1
  <2>3. \A i \in 1 .. Len(t) : g[i] = g[i - 1] + t[i]
    BY <1>5, <2>1
  <2> QED
    BY ONLY <1>4, <2>2, <2>3, SumIs
<1> QED
  BY <1>1, <1>2, <1>3, <1>6, <1>7

\* A polygon from its next vertex on, and backwards.
Turned(vs) == [i \in 1 .. Len(vs) |-> After(vs, i)]
Reversed(vs) == [i \in 1 .. Len(vs) |-> vs[Len(vs) + 1 - i]]

\* Both are polygons over the same vertices.
LEMMA Reordered ==
  ASSUME NEW vs \in Seq(Point), Len(vs) >= 3
  PROVE  /\ Turned(vs) \in Seq(Point) /\ Len(Turned(vs)) = Len(vs)
         /\ Reversed(vs) \in Seq(Point) /\ Len(Reversed(vs)) = Len(vs)
         /\ \A i \in 1 .. Len(vs) :
              /\ Turned(vs)[i] = After(vs, i) /\ Reversed(vs)[i] = vs[Len(vs) + 1 - i]
              /\ After(vs, i) = IF i = Len(vs) THEN vs[1] ELSE vs[i + 1]
              /\ After(Turned(vs), i) = IF i = Len(vs) THEN After(vs, 1) ELSE After(vs, i + 1)
              /\ After(Reversed(vs), i) = IF i = Len(vs) THEN vs[i] ELSE vs[Len(vs) - i]
<1> DEFINE n == Len(vs)
           t == Turned(vs)
           r == Reversed(vs)
<1>1. n \in Nat /\ n >= 3
  OBVIOUS
<1>2. \A i \in 1 .. n :
        /\ vs[i] \in Point /\ After(vs, i) \in Point
        /\ After(vs, i) = IF i = n THEN vs[1] ELSE vs[i + 1]
  BY AfterIn
<1>3. /\ \A i \in 1 .. n : t[i] = After(vs, i) /\ r[i] = vs[n + 1 - i]
      /\ t = [i \in 1 .. n |-> t[i]] /\ r = [i \in 1 .. n |-> r[i]]
  BY DEF Turned, Reversed
<1> HIDE DEF t, r
<1>4. t \in [1 .. n -> Point]
  BY <1>2, <1>3
<1>5. r \in [1 .. n -> Point]
  <2>1. \A i \in 1 .. n : n + 1 - i \in 1 .. n
    BY <1>1
  <2> QED
    BY <1>2, <1>3, <2>1
<1>6. t \in Seq(Point) /\ Len(t) = n /\ r \in Seq(Point) /\ Len(r) = n
  BY <1>1, <1>4, <1>5, LenProperties
<1>7. ASSUME NEW i \in 1 .. n
      PROVE  /\ After(t, i) = IF i = n THEN t[1] ELSE t[i + 1]
             /\ After(r, i) = IF i = n THEN r[1] ELSE r[i + 1]
  <2>1. i \in 1 .. Len(t) /\ Len(t) >= 3 /\ i \in 1 .. Len(r) /\ Len(r) >= 3
    BY <1>1, <1>6
  <2>2. After(t, i) = IF i = Len(t) THEN t[1] ELSE t[i + 1]
    BY ONLY <1>6, <2>1, AfterIn
  <2>3. After(r, i) = IF i = Len(r) THEN r[1] ELSE r[i + 1]
    BY ONLY <1>6, <2>1, AfterIn
  <2> QED
    BY <1>6, <2>2, <2>3
<1>8. ASSUME NEW i \in 1 .. n
      PROVE  /\ After(t, i) = IF i = n THEN After(vs, 1) ELSE After(vs, i + 1)
             /\ After(r, i) = IF i = n THEN vs[i] ELSE vs[n - i]
  <2>1. CASE i = n
    <3>1. 1 \in 1 .. n /\ n + 1 - 1 = n
      BY <1>1
    <3> QED
      BY <1>3, <1>7, <2>1, <3>1
  <2>2. CASE i # n
    <3>1. i + 1 \in 1 .. n /\ n + 1 - (i + 1) = n - i
      BY <1>1, <2>2
    <3> QED
      BY <1>3, <1>7, <2>2, <3>1
  <2> QED
    BY <2>1, <2>2
<1> QED
  BY <1>2, <1>3, <1>6, <1>8 DEF t, r

\* Each has the edges of the other.
LEMMA TurnedRedraws ==
  ASSUME NEW vs \in Seq(Point), Len(vs) >= 3
  PROVE  /\ \E f : Redraws(vs, Turned(vs), f)
         /\ \E f : Redraws(Turned(vs), vs, f)
<1>1. PICK n, ws : n = Len(vs) /\ ws = Turned(vs) /\ n \in Nat /\ n >= 3
  OBVIOUS
<1>2. /\ ws \in Seq(Point) /\ Len(ws) = n
      /\ \A i \in 1 .. n :
           /\ ws[i] = After(vs, i)
           /\ After(vs, i) = IF i = n THEN vs[1] ELSE vs[i + 1]
           /\ After(ws, i) = IF i = n THEN After(vs, 1) ELSE After(vs, i + 1)
  BY <1>1, Reordered
<1> DEFINE f == [i \in 1 .. n |-> IF i = n THEN 1 ELSE i + 1]
           g == [i \in 1 .. n |-> IF i = 1 THEN n ELSE i - 1]
<1>3. f \in [1 .. n -> 1 .. n] /\ \A i \in 1 .. n : f[i] = IF i = n THEN 1 ELSE i + 1
  BY <1>1
<1>4. g \in [1 .. n -> 1 .. n] /\ \A i \in 1 .. n : g[i] = IF i = 1 THEN n ELSE i - 1
  BY <1>1
<1> HIDE DEF f, g
<1>5. Redraws(vs, ws, f)
  <2>1. \A i \in 1 .. n : ws[i] = vs[f[i]] /\ After(ws, i) = After(vs, f[i])
    BY <1>1, <1>2, <1>3
  <2>2. \A i, j \in 1 .. n : i # j => f[i] # f[j]
    BY <1>1, <1>3
  <2>3. ASSUME NEW i \in 1 .. n, NEW j \in 1 .. n, i < j, ~ Adjacent(i, j, n)
        PROVE  \/ f[i] < f[j] /\ ~ Adjacent(f[i], f[j], n)
               \/ f[j] < f[i] /\ ~ Adjacent(f[j], f[i], n)
    BY <1>1, <1>3, <2>3 DEF Adjacent
  <2> QED
    BY <1>1, <1>2, <1>3, <2>1, <2>2, <2>3 DEF Redraws
<1>6. Redraws(ws, vs, g)
  <2>1. ASSUME NEW i \in 1 .. n PROVE vs[i] = ws[g[i]] /\ After(vs, i) = After(ws, g[i])
    <3>1. CASE i = 1
      <4>1. g[i] = n /\ n \in 1 .. n
        BY <1>1, <1>4, <3>1
      <4> QED
        BY <1>2, <3>1, <4>1
    <3>2. CASE i # 1
      <4>1. g[i] = i - 1 /\ i - 1 \in 1 .. n /\ (i - 1) + 1 = i /\ i - 1 # n
        BY <1>1, <1>4, <3>2
      <4> QED
        BY <1>2, <4>1
    <3> QED
      BY <3>1, <3>2
  <2>2. \A i, j \in 1 .. n : i # j => g[i] # g[j]
    BY <1>1, <1>4
  <2>3. ASSUME NEW i \in 1 .. n, NEW j \in 1 .. n, i < j, ~ Adjacent(i, j, n)
        PROVE  \/ g[i] < g[j] /\ ~ Adjacent(g[i], g[j], n)
               \/ g[j] < g[i] /\ ~ Adjacent(g[j], g[i], n)
    BY <1>1, <1>4, <2>3 DEF Adjacent
  <2> QED
    BY <1>1, <1>2, <1>4, <2>1, <2>2, <2>3 DEF Redraws
<1> QED
  BY <1>1, <1>5, <1>6

\* Likewise backwards.
LEMMA ReversedRedraws ==
  ASSUME NEW vs \in Seq(Point), Len(vs) >= 3
  PROVE  /\ \E f : Redraws(vs, Reversed(vs), f)
         /\ \E f : Redraws(Reversed(vs), vs, f)
<1>1. PICK n, ws : n = Len(vs) /\ ws = Reversed(vs) /\ n \in Nat /\ n >= 3
  OBVIOUS
<1>2. /\ ws \in Seq(Point) /\ Len(ws) = n
      /\ \A i \in 1 .. n :
           /\ ws[i] = vs[n + 1 - i]
           /\ After(vs, i) = IF i = n THEN vs[1] ELSE vs[i + 1]
           /\ After(ws, i) = IF i = n THEN vs[i] ELSE vs[n - i]
  BY <1>1, Reordered
<1> DEFINE f == [i \in 1 .. n |-> IF i = n THEN n ELSE n - i]
<1>3. f \in [1 .. n -> 1 .. n] /\ \A i \in 1 .. n : f[i] = IF i = n THEN n ELSE n - i
  BY <1>1
<1> HIDE DEF f
<1>4. /\ \A i, j \in 1 .. n : i # j => f[i] # f[j]
      /\ \A i, j \in 1 .. n :
           i < j /\ ~ Adjacent(i, j, n) =>
             \/ f[i] < f[j] /\ ~ Adjacent(f[i], f[j], n)
             \/ f[j] < f[i] /\ ~ Adjacent(f[j], f[i], n)
  BY <1>1, <1>3 DEF Adjacent
<1>5. ASSUME NEW i \in 1 .. n
      PROVE  /\ ws[i] = After(vs, f[i]) /\ After(ws, i) = vs[f[i]]
             /\ vs[i] = After(ws, f[i]) /\ After(vs, i) = ws[f[i]]
  <2>1. CASE i = n
    <3>1. f[i] = n /\ n + 1 - n = 1
      BY <1>1, <1>3, <2>1
    <3> QED
      BY <1>2, <2>1, <3>1, SMTT(40)
  <2>2. CASE i # n
    <3>1. /\ f[i] = n - i /\ n - i \in 1 .. n /\ n - i # n /\ (n - i) + 1 = n + 1 - i
          /\ n - (n - i) = i /\ n + 1 - (n - i) = i + 1
      BY <1>1, <1>3, <2>2
    <3> QED
      BY <1>2, <2>2, <3>1
  <2> QED
    BY <2>1, <2>2
<1>6. Redraws(vs, ws, f)
  BY <1>1, <1>2, <1>3, <1>4, <1>5 DEF Redraws
<1>7. Redraws(ws, vs, f)
  BY <1>1, <1>2, <1>3, <1>4, <1>5 DEF Redraws
<1> QED
  BY <1>1, <1>6, <1>7

\* The area is the same, or its negative.
LEMMA AreaReordered ==
  ASSUME NEW vs \in Seq(Point), Len(vs) >= 3
  PROVE  /\ DoubleArea(Turned(vs)) # 0 <=> DoubleArea(vs) # 0
         /\ DoubleArea(Reversed(vs)) # 0 <=> DoubleArea(vs) # 0
<1>1. PICK n, t, r : n = Len(vs) /\ t = Turned(vs) /\ r = Reversed(vs) /\ n \in Nat /\ n >= 3
  OBVIOUS
<1>2. /\ t \in Seq(Point) /\ Len(t) = n /\ r \in Seq(Point) /\ Len(r) = n
      /\ \A i \in 1 .. n :
           /\ t[i] = After(vs, i) /\ r[i] = vs[n + 1 - i]
           /\ After(vs, i) = IF i = n THEN vs[1] ELSE vs[i + 1]
           /\ After(t, i) = IF i = n THEN After(vs, 1) ELSE After(vs, i + 1)
           /\ After(r, i) = IF i = n THEN vs[i] ELSE vs[n - i]
  BY <1>1, Reordered
<1>3. PICK s, u, v : s = Terms(vs) /\ u = Terms(t) /\ v = Terms(r)
  OBVIOUS
<1>4. AreSizes(s) /\ Len(s) = n /\ DoubleArea(vs) = EventsIn(s)
  BY <1>1, <1>3, AreaIsSum
<1>5. Len(u) = n /\ DoubleArea(t) = EventsIn(u)
  BY <1>1, <1>2, <1>3, AreaIsSum
<1>6. Len(v) = n /\ DoubleArea(r) = EventsIn(v)
  BY <1>1, <1>2, <1>3, AreaIsSum
<1>7. ASSUME NEW i \in 1 .. n
      PROVE  /\ s[i] = vs[i].lon * After(vs, i).lat - After(vs, i).lon * vs[i].lat
             /\ u[i] = t[i].lon * After(t, i).lat - After(t, i).lon * t[i].lat
             /\ v[i] = r[i].lon * After(r, i).lat - After(r, i).lon * r[i].lat
  BY <1>1, <1>2, <1>3 DEF Terms
<1>8. ASSUME NEW i \in 1 .. n PROVE u[i] = IF i = n THEN s[1] ELSE s[i + 1]
  <2>1. CASE i = n
    <3>1. 1 \in 1 .. n /\ 1 # n
      BY <1>1
    <3>2. t[i] = vs[1] /\ After(t, i) = After(vs, 1)
      BY <1>2, <2>1
    <3> QED
      BY <1>7, <2>1, <3>1, <3>2
  <2>2. CASE i # n
    <3>1. i + 1 \in 1 .. n
      BY <1>1, <2>2
    <3>2. t[i] = vs[i + 1] /\ After(t, i) = After(vs, i + 1)
      BY <1>2, <2>2
    <3> QED
      BY <1>7, <2>2, <3>1, <3>2
  <2> QED
    BY <2>1, <2>2
<1>9. ASSUME NEW i \in 1 .. n PROVE v[i] = IF i = n THEN - s[i] ELSE - s[n - i]
  <2>1. ASSUME NEW k \in 1 .. n, r[i] = After(vs, k), After(r, i) = vs[k]
        PROVE  v[i] = - s[k]
    <3>1. vs[k] \in Point /\ After(vs, k) \in Point
      BY <1>1, AfterIn
    <3>2. PICK a, b, c, d : a = vs[k].lon /\ b = After(vs, k).lat /\ c = After(vs, k).lon /\ d = vs[k].lat
      BY Zenon
    <3>3. a \in Int /\ b \in Int /\ c \in Int /\ d \in Int
      BY <3>1, <3>2 DEF Point
    <3>4. s[k] = a * b - c * d /\ v[i] = c * d - a * b
      BY <1>7, <2>1, <3>2
    <3>5. \A x, y \in Int : x - y = - (y - x)
      OBVIOUS
    <3>6. a * b \in Int /\ c * d \in Int
      BY <3>3
    <3> QED
      BY <3>4, <3>5, <3>6
  <2>2. CASE i = n
    <3>1. n + 1 - i = 1
      BY <1>1, <2>2
    <3>2. r[i] = After(vs, i) /\ After(r, i) = vs[i]
      BY <1>2, <2>2, <3>1
    <3> QED
      BY <2>1, <2>2, <3>2
  <2>3. CASE i # n
    <3>1. n - i \in 1 .. n /\ n - i # n /\ (n - i) + 1 = n + 1 - i
      BY <1>1, <2>3
    <3>2. r[i] = After(vs, n - i) /\ After(r, i) = vs[n - i]
      BY <1>2, <2>3, <3>1
    <3> QED
      BY <2>1, <2>3, <3>1, <3>2
  <2> QED
    BY <2>2, <2>3
<1>10. EventsIn(u) = EventsIn(s)
  <2>1. /\ AreSizes(s) /\ Len(s) > 0 /\ Len(u) = Len(s)
        /\ \A i \in 1 .. Len(s) : u[i] = IF i = Len(s) THEN s[1] ELSE s[i + 1]
    BY <1>1, <1>4, <1>5, <1>8
  <2> QED
    BY ONLY <2>1, SumTurned
<1>11. EventsIn(v) = - EventsIn(s) /\ EventsIn(s) \in Int
  <2>1. /\ AreSizes(s) /\ Len(s) > 0 /\ Len(v) = Len(s)
        /\ \A i \in 1 .. Len(s) : v[i] = IF i = Len(s) THEN - s[i] ELSE - s[Len(s) - i]
    BY <1>1, <1>4, <1>6, <1>9
  <2> QED
    BY ONLY <2>1, SumReversed
<1> QED
  BY <1>1, <1>4, <1>5, <1>6, <1>10, <1>11

\* So it is as good a polygon, with the same outside.
LEMMA RedrawnSame ==
  ASSUME NEW vs, NEW ws, \E f : Redraws(vs, ws, f), \E f : Redraws(ws, vs, f),
         DoubleArea(ws) # 0 <=> DoubleArea(vs) # 0
  PROVE  /\ ValidPolygon(ws) <=> ValidPolygon(vs)
         /\ \A p \in Point : StrictlyOutside(ws, p) <=> StrictlyOutside(vs, p)
<1>1. PICK f : Redraws(vs, ws, f)
  OBVIOUS
<1>2. PICK g : Redraws(ws, vs, g)
  OBVIOUS
<1>3. Len(ws) = Len(vs) /\ Len(vs) \in Nat
  BY <1>1 DEF Redraws
<1>4. /\ (\A i \in 1 .. Len(vs) : InBounds(vs[i])) <=> \A i \in 1 .. Len(ws) : InBounds(ws[i])
      /\ NoDuplicateNeighbours(vs) <=> NoDuplicateNeighbours(ws)
      /\ NoCrossing(vs) <=> NoCrossing(ws)
      /\ \A p \in Point : OnBoundary(ws, p) <=> OnBoundary(vs, p)
  BY <1>1, <1>2, RedrawKeeps
<1>5. ASSUME NEW p \in Point PROVE Cardinality(Crossed(ws, p)) = Cardinality(Crossed(vs, p))
  <2>1. /\ Cardinality(Crossed(ws, p)) <= Cardinality(Crossed(vs, p))
        /\ Cardinality(Crossed(vs, p)) <= Cardinality(Crossed(ws, p))
    BY <1>1, <1>2, RedrawKeeps
  <2>2. ASSUME NEW xs, Len(xs) \in Nat PROVE Cardinality(Crossed(xs, p)) \in Nat
    <3>1. IsFiniteSet(1 .. Len(xs))
      BY <2>2, FS_Interval
    <3>2. Crossed(xs, p) \subseteq 1 .. Len(xs)
      BY DEF Crossed
    <3> QED
      BY <3>1, <3>2, FS_Subset, FS_CardinalityType
  <2> QED
    BY <1>3, <2>1, <2>2
<1>6. ASSUME NEW xs, NEW p \in Point
      PROVE  StrictlyOutside(xs, p) <=> ~ OnBoundary(xs, p) /\ Cardinality(Crossed(xs, p)) % 2 = 0
  BY DEF StrictlyOutside, Quantify, Crossed
<1> QED
  BY <1>3, <1>4, <1>5, <1>6 DEF ValidPolygon

\* Where a walk is: the answers are those for its polygon and its spot.
WalkInv ==
  /\ polygon \in Polygons /\ spot \in Point
  /\ valid = ValidPolygon(polygon)
  /\ outside = StrictlyOutside(polygon, spot)

\* The answers kept are those for the polygon and the spot.
LEMMA WalkInductive == WalkSpec => []WalkInv
<1>1. WalkInit => WalkInv
  <2> SUFFICES ASSUME WalkInit PROVE WalkInv
    OBVIOUS
  <2>1. - Span \in Int
    BY WalkAssumption
  <2>2. spot \in Point
    BY <2>1 DEF WalkInit, PointAt, Point
  <2> QED
    BY <2>2 DEF WalkInit, WalkInv
<1>2. WalkInv /\ [WalkStep]_walkVars => WalkInv'
  <2> SUFFICES ASSUME WalkInv, [WalkStep]_walkVars PROVE WalkInv'
    OBVIOUS
  <2>1. CASE WalkStep
    <3>1. PICK dlat, dlon \in -1 .. 1 : spot' = PointAt(spot.lat + dlat, spot.lon + dlon)
      BY <2>1 DEF WalkStep
    <3>2. spot.lat + dlat \in Int /\ spot.lon + dlon \in Int
      BY DEF WalkInv, Point
    <3>3. spot' \in Point
      BY <3>1, <3>2 DEF PointAt, Point
    <3> QED
      BY <2>1, <3>3 DEF WalkStep, WalkInv
  <2>2. CASE UNCHANGED walkVars
    BY <2>2 DEF WalkInv, walkVars
  <2> QED
    BY <2>1, <2>2
<1> QED
  BY <1>1, <1>2, PTL DEF WalkSpec

\* Which polygons validate_polygon accepts, and which points are strictly outside
\* of one, does not depend on the vertex it starts with, nor on its direction,
\* whatever the polygons and however many vertices they have.
THEOREM AnyOrder == WalkSpec => []OrderFree
<1>1. WalkInv => OrderFree
  <2> SUFFICES ASSUME WalkInv PROVE OrderFree
    OBVIOUS
  <2>1. polygon \in Seq(Point)
    BY WalkAssumption DEF WalkInv
  <2>2. PICK vs, p : vs = polygon /\ p = spot
    OBVIOUS
  <2>3. vs \in Seq(Point) /\ p \in Point /\ Len(vs) \in Nat
    BY <2>1, <2>2 DEF WalkInv
  <2>4. ASSUME NEW ws \in {Turned(vs), Reversed(vs)}
        PROVE  /\ ValidPolygon(ws) <=> ValidPolygon(vs)
               /\ ValidPolygon(vs) => (StrictlyOutside(ws, p) <=> StrictlyOutside(vs, p))
    <3>1. CASE Len(vs) >= 3
      <4>1. /\ \E f : Redraws(vs, ws, f)
            /\ \E f : Redraws(ws, vs, f)
            /\ DoubleArea(ws) # 0 <=> DoubleArea(vs) # 0
        BY <2>3, <3>1, TurnedRedraws, ReversedRedraws, AreaReordered
      <4>2. /\ ValidPolygon(ws) <=> ValidPolygon(vs)
            /\ \A q \in Point : StrictlyOutside(ws, q) <=> StrictlyOutside(vs, q)
        BY ONLY <4>1, RedrawnSame
      <4> QED
        BY <2>3, <4>2
    <3>2. CASE Len(vs) < 3
      <4>1. Len(ws) = Len(vs)
        <5>1. \A i \in 1 .. Len(vs) : After(vs, i) \in Point /\ vs[Len(vs) + 1 - i] \in Point
          <6> SUFFICES ASSUME NEW i \in 1 .. Len(vs)
                       PROVE  After(vs, i) \in Point /\ vs[Len(vs) + 1 - i] \in Point
            OBVIOUS
          <6>1. Len(vs) + 1 - i \in 1 .. Len(vs)
            BY <2>3
          <6>2. (i % Len(vs)) + 1 \in 1 .. Len(vs)
            <7>1. PICK n, k : n = Len(vs) /\ k = i
              OBVIOUS
            <7>2. n \in Nat /\ n < 3 /\ k \in 1 .. n
              BY <2>3, <3>2, <7>1
            <7>3. (n = 1 /\ k = 1) \/ (n = 2 /\ k = 1) \/ (n = 2 /\ k = 2)
              BY ONLY <7>2
            <7>4. (k % n) + 1 \in 1 .. n
              BY ONLY <7>3
            <7> QED
              BY <7>1, <7>4
          <6> QED
            BY <2>3, <6>1, <6>2 DEF After
        <5>2. Turned(vs) \in [1 .. Len(vs) -> Point] /\ Reversed(vs) \in [1 .. Len(vs) -> Point]
          BY <5>1 DEF Turned, Reversed
        <5> QED
          BY <2>3, <5>2, LenProperties
      <4>2. ~ ValidPolygon(ws) /\ ~ ValidPolygon(vs)
        BY <2>3, <3>2, <4>1 DEF ValidPolygon
      <4> QED
        BY <4>2
    <3> QED
      BY <2>3, <3>1, <3>2
  <2>5. /\ valid = ValidPolygon(vs) /\ outside = StrictlyOutside(vs, p)
    BY <2>2 DEF WalkInv
  <2>6. ASSUME NEW ws PROVE ValidPolygon(ws) \in BOOLEAN /\ StrictlyOutside(ws, p) \in BOOLEAN
    BY DEF ValidPolygon, StrictlyOutside
  <2>7. ASSUME NEW ws \in {Turned(vs), Reversed(vs)}
        PROVE  ValidPolygon(ws) = valid /\ (valid => StrictlyOutside(ws, p) = outside)
    BY <2>4, <2>5, <2>6
  <2> QED
    BY <2>2, <2>7 DEF OrderFree, Turned, Reversed
<1> QED
  BY <1>1, WalkInductive, PTL

-----------------------------------------------------------------------------
(* The geofence: what changes where a walk crosses an edge.                  *)

\* The signs of a product.
LEMMA ProductSigns ==
  \A x, y \in Int :
    /\ x * y \in Int
    /\ x > 0 /\ y > 0 => x * y > 0
    /\ x > 0 /\ y < 0 => x * y < 0
    /\ x < 0 /\ y > 0 => x * y < 0
    /\ x < 0 /\ y < 0 => x * y > 0
    /\ x = 0 \/ y = 0 => x * y = 0
  OBVIOUS

\* An edge, seen from two points one above the other: al and bl are the heights
\* of its ends above the lower point, s and t how far they are to the right of
\* the line through the two points, u and v its orientations from the points.
\* How many of the two rays and the segment between the points it crosses is
\* odd if one of its ends is between the rays.
LEMMA SignsUp ==
  ASSUME NEW al \in Int, NEW bl \in Int, NEW s \in Int, NEW t \in Int, al <= bl,
         NEW u \in Int, u = s * bl - t * al, NEW v \in Int, v = u + t - s,
         ~ (s = 0 /\ al \in 0 .. 1), ~ (t = 0 /\ bl \in 0 .. 1),
         ~ (s = 0 /\ t = 0 /\ al < 0 /\ bl > 1),
         ~ (al = 0 /\ bl = 0 /\ ~ (s > 0 <=> t > 0)),
         ~ (al = 1 /\ bl = 1 /\ ~ (s > 0 <=> t > 0))
  PROVE  (((al <= 0 /\ bl > 0 /\ u > 0) <=> (al <= 1 /\ bl > 1 /\ v > 0))
            <=> (~ (u > 0 <=> v > 0) /\ ~ (s < 0 <=> t < 0)))
         <=> ~ ((al = 1 /\ s > 0) <=> (bl = 1 /\ t > 0))
<1>1. PICK x, y \in Int : x = s * bl /\ y = t * al
  OBVIOUS
<1>2. s * (bl - 1) = x - s /\ t * (al - 1) = y - t
  BY <1>1
<1>3. /\ s > 0 /\ bl > 0 => x > 0
      /\ s > 0 /\ bl < 0 => x < 0
      /\ s < 0 /\ bl > 0 => x < 0
      /\ s < 0 /\ bl < 0 => x > 0
      /\ s = 0 \/ bl = 0 => x = 0
  BY <1>1, ProductSigns
<1>4. /\ t > 0 /\ al > 0 => y > 0
      /\ t > 0 /\ al < 0 => y < 0
      /\ t < 0 /\ al > 0 => y < 0
      /\ t < 0 /\ al < 0 => y > 0
      /\ t = 0 \/ al = 0 => y = 0
  BY <1>1, ProductSigns
<1>5. /\ s > 0 /\ bl > 1 => x - s > 0
      /\ s > 0 /\ bl < 1 => x - s < 0
      /\ s < 0 /\ bl > 1 => x - s < 0
      /\ s < 0 /\ bl < 1 => x - s > 0
      /\ s = 0 \/ bl = 1 => x - s = 0
  <2>1. PICK z \in Int : z = bl - 1
    OBVIOUS
  <2>2. s * z = x - s
    BY <1>2, <2>1
  <2>3. /\ s > 0 /\ z > 0 => s * z > 0
        /\ s > 0 /\ z < 0 => s * z < 0
        /\ s < 0 /\ z > 0 => s * z < 0
        /\ s < 0 /\ z < 0 => s * z > 0
        /\ s = 0 \/ z = 0 => s * z = 0
    BY ProductSigns
  <2> QED
    BY <2>1, <2>2, <2>3
<1>6. /\ t > 0 /\ al > 1 => y - t > 0
      /\ t > 0 /\ al < 1 => y - t < 0
      /\ t < 0 /\ al > 1 => y - t < 0
      /\ t < 0 /\ al < 1 => y - t > 0
      /\ t = 0 \/ al = 1 => y - t = 0
  <2>1. PICK z \in Int : z = al - 1
    OBVIOUS
  <2>2. t * z = y - t
    BY <1>2, <2>1
  <2>3. /\ t > 0 /\ z > 0 => t * z > 0
        /\ t > 0 /\ z < 0 => t * z < 0
        /\ t < 0 /\ z > 0 => t * z < 0
        /\ t < 0 /\ z < 0 => t * z > 0
        /\ t = 0 \/ z = 0 => t * z = 0
    BY ProductSigns
  <2> QED
    BY <2>1, <2>2, <2>3
<1>7. u = x - y /\ v = (x - s) - (y - t)
  BY <1>1
<1>8. /\ al <= bl /\ ~ (s = 0 /\ (al = 0 \/ al = 1)) /\ ~ (t = 0 /\ (bl = 0 \/ bl = 1))
      /\ ~ (s = 0 /\ t = 0 /\ al < 0 /\ bl > 1)
      /\ ~ (al = 0 /\ bl = 0 /\ ~ (s > 0 <=> t > 0))
      /\ ~ (al = 1 /\ bl = 1 /\ ~ (s > 0 <=> t > 0))
  OBVIOUS
<1>9. /\ al \in Int /\ bl \in Int /\ s \in Int /\ t \in Int /\ x \in Int /\ y \in Int
      /\ u \in Int /\ v \in Int
  OBVIOUS
<1>10. CASE bl <= 0
  BY ONLY <1>3, <1>4, <1>5, <1>6, <1>7, <1>8, <1>9, <1>10
<1>11. CASE al <= 0 /\ bl = 1
  BY ONLY <1>3, <1>4, <1>5, <1>6, <1>7, <1>8, <1>9, <1>11
<1>12. CASE al <= 0 /\ bl > 1 /\ s > 0
  BY ONLY <1>3, <1>4, <1>5, <1>6, <1>7, <1>8, <1>9, <1>12
<1>13. CASE al <= 0 /\ bl > 1 /\ s = 0
  BY ONLY <1>3, <1>4, <1>5, <1>6, <1>7, <1>8, <1>9, <1>13
<1>14. CASE al <= 0 /\ bl > 1 /\ s < 0
  BY ONLY <1>3, <1>4, <1>5, <1>6, <1>7, <1>8, <1>9, <1>14
<1>15. CASE al = 1
  BY ONLY <1>3, <1>4, <1>5, <1>6, <1>7, <1>8, <1>9, <1>15
<1>16. CASE al > 1
  BY ONLY <1>3, <1>4, <1>5, <1>6, <1>7, <1>8, <1>9, <1>16
<1> QED
  BY ONLY <1>8, <1>9, <1>10, <1>11, <1>12, <1>13, <1>14, <1>15, <1>16

\* A point on a segment is on its line, and between its ends.
LEMMA OnSegment ==
  ASSUME NEW a \in Point, NEW b \in Point, NEW c \in Point
  PROVE  PointOnSegment(a, b, c) <=>
           /\ Orientation(a, b, c) = 0
           /\ (a.lon <= c.lon /\ c.lon <= b.lon) \/ (b.lon <= c.lon /\ c.lon <= a.lon)
           /\ (a.lat <= c.lat /\ c.lat <= b.lat) \/ (b.lat <= c.lat /\ c.lat <= a.lat)
<1>1. /\ a.lat \in Int /\ a.lon \in Int /\ b.lat \in Int /\ b.lon \in Int
      /\ c.lat \in Int /\ c.lon \in Int
  BY DEF Point
<1>2. /\ Min({a.lat, b.lat}) = IF a.lat <= b.lat THEN a.lat ELSE b.lat
      /\ Max({a.lat, b.lat}) = IF a.lat >= b.lat THEN a.lat ELSE b.lat
      /\ Min({a.lon, b.lon}) = IF a.lon <= b.lon THEN a.lon ELSE b.lon
      /\ Max({a.lon, b.lon}) = IF a.lon >= b.lon THEN a.lon ELSE b.lon
  BY <1>1, MinOfTwo, MaxOfTwo
<1> QED
  BY <1>1, <1>2 DEF PointOnSegment

\* The vertices between the rays from two neighbouring points to the right.
BetweenRays(p, q, v) ==
  \/ p.lat < q.lat /\ v.lat = q.lat /\ v.lon > q.lon
  \/ q.lat < p.lat /\ v.lat = p.lat /\ v.lon > p.lon

\* Whether an edge counts an odd number of times: for the ray from the one
\* point, for that from the other, and for the way between them.
CountsOdd(p, q, a, b) ==
  (CrossesRight(a, b, p) <=> CrossesRight(a, b, q)) <=> SegmentsIntersect(p, q, a, b)

\* Neither are the points on the edge, nor its ends on the way.
Clear(p, q, a, b) ==
  /\ ~ PointOnSegment(p, q, a) /\ ~ PointOnSegment(p, q, b)
  /\ ~ PointOnSegment(a, b, p) /\ ~ PointOnSegment(a, b, q)

\* Upwards, and for an edge that does not go down.
LEMMA EdgeUp ==
  ASSUME NEW p \in Point, NEW q \in Point, NEW a \in Point, NEW b \in Point,
         q.lat = p.lat + 1, q.lon - p.lon \in -1 .. 1, a.lat <= b.lat, Clear(p, q, a, b)
  PROVE  CountsOdd(p, q, a, b) <=> ~ (BetweenRays(p, q, a) <=> BetweenRays(p, q, b))
<1>1. /\ a.lat \in Int /\ a.lon \in Int /\ b.lat \in Int /\ b.lon \in Int
      /\ p.lat \in Int /\ p.lon \in Int /\ q.lat \in Int /\ q.lon \in Int
  BY DEF Point
<1>2. PICK al, bl, ao, bo, d :
        /\ al = a.lat - p.lat /\ bl = b.lat - p.lat /\ ao = a.lon - p.lon /\ bo = b.lon - p.lon
        /\ d = q.lon - p.lon
  BY Zenon
<1>3. /\ al \in Int /\ bl \in Int /\ ao \in Int /\ bo \in Int /\ d \in -1 .. 1 /\ al <= bl
  BY <1>1, <1>2
<1>4. PICK s, t : s = ao - d * al /\ t = bo - d * bl /\ s \in Int /\ t \in Int
  BY <1>3
<1>5. PICK u, v : u = Orientation(a, b, p) /\ v = Orientation(a, b, q) /\ u \in Int /\ v \in Int
  BY OrientationTurns
<1>6. u = s * bl - t * al
  <2>1. u = (bo - ao) * (- al) - (bl - al) * (- ao)
    <3>1. /\ b.lon - a.lon = bo - ao /\ p.lat - a.lat = - al
          /\ b.lat - a.lat = bl - al /\ p.lon - a.lon = - ao
      BY <1>1, <1>2
    <3> QED
      BY <1>5, <3>1 DEF Orientation
  <2>2. /\ (bo - ao) * (- al) = ao * al - bo * al
        /\ (bl - al) * (- ao) = ao * al - ao * bl
    BY <1>3
  <2>3. s * bl = ao * bl - d * (al * bl) /\ t * al = bo * al - d * (al * bl)
    BY <1>3, <1>4
  <2>4. ao * bl \in Int /\ bo * al \in Int /\ d * (al * bl) \in Int /\ ao * al \in Int
    BY <1>3
  <2> QED
    BY ONLY <2>1, <2>2, <2>3, <2>4
<1>7. v = u + t - s
  <2>1. v = (bo - ao) * (1 - al) - (bl - al) * (d - ao)
    <3>1. /\ b.lon - a.lon = bo - ao /\ q.lat - a.lat = 1 - al
          /\ b.lat - a.lat = bl - al /\ q.lon - a.lon = d - ao
      BY <1>1, <1>2
    <3> QED
      BY <1>5, <3>1 DEF Orientation
  <2>2. /\ (bo - ao) * (1 - al) = bo - ao - bo * al + ao * al
        /\ (bl - al) * (d - ao) = d * bl - d * al - ao * bl + ao * al
    BY <1>3
  <2>3. s * bl = ao * bl - d * (al * bl) /\ t * al = bo * al - d * (al * bl)
    BY <1>3, <1>4
  <2>4. /\ ao * bl \in Int /\ bo * al \in Int /\ d * (al * bl) \in Int /\ ao * al \in Int
        /\ d * al \in Int /\ d * bl \in Int
    BY <1>3
  <2> QED
    BY ONLY <1>3, <1>4, <1>6, <2>1, <2>2, <2>3, <2>4
<1>8. Orientation(p, q, a) = - s /\ Orientation(p, q, b) = - t
  <2>1. q.lon - p.lon = d /\ q.lat - p.lat = 1
    BY <1>1, <1>2
  <2>2. /\ Orientation(p, q, a) = d * al - 1 * ao
        /\ Orientation(p, q, b) = d * bl - 1 * bo
    BY <1>2, <2>1 DEF Orientation
  <2>3. d * al \in Int /\ d * bl \in Int
    BY <1>3
  <2> QED
    BY ONLY <1>3, <1>4, <2>2, <2>3
\* Where an end is on the way, or a point on the edge.
<1>9. ~ (s = 0 /\ al \in 0 .. 1)
  <2> SUFFICES ASSUME s = 0, al \in 0 .. 1 PROVE FALSE
    OBVIOUS
  <2>1. (al = 0 /\ ao = 0) \/ (al = 1 /\ ao = d)
    BY <1>3, <1>4
  <2>2. PointOnSegment(p, q, a)
    BY <1>1, <1>2, <1>8, <2>1, OnSegment
  <2> QED
    BY <2>2 DEF Clear
<1>10. ~ (t = 0 /\ bl \in 0 .. 1)
  <2> SUFFICES ASSUME t = 0, bl \in 0 .. 1 PROVE FALSE
    OBVIOUS
  <2>1. (bl = 0 /\ bo = 0) \/ (bl = 1 /\ bo = d)
    BY <1>3, <1>4
  <2>2. PointOnSegment(p, q, b)
    BY <1>1, <1>2, <1>8, <2>1, OnSegment
  <2> QED
    BY <2>2 DEF Clear
<1>11. ~ (s = 0 /\ t = 0 /\ al < 0 /\ bl > 1)
  <2> SUFFICES ASSUME s = 0, t = 0, al < 0, bl > 1 PROVE FALSE
    OBVIOUS
  <2>1. ao = d * al /\ bo = d * bl /\ u = 0
    BY <1>3, <1>4, <1>6
  <2>2. (ao <= 0 /\ 0 <= bo) \/ (bo <= 0 /\ 0 <= ao)
    <3>1. d = -1 \/ d = 0 \/ d = 1
      BY <1>3
    <3> QED
      BY <1>3, <2>1, <3>1
  <2>3. PointOnSegment(a, b, p)
    <3>1. (a.lon <= p.lon /\ p.lon <= b.lon) \/ (b.lon <= p.lon /\ p.lon <= a.lon)
      BY ONLY <1>1, <1>2, <2>2
    <3>2. a.lat <= p.lat /\ p.lat <= b.lat
      BY <1>1, <1>2
    <3>3. Orientation(a, b, p) = 0
      BY <1>5, <2>1
    <3> QED
      BY ONLY <3>1, <3>2, <3>3, p \in Point, a \in Point, b \in Point, OnSegment
  <2> QED
    BY <2>3 DEF Clear
<1>12. ~ (al = 0 /\ bl = 0 /\ ~ (s > 0 <=> t > 0))
  <2> SUFFICES ASSUME al = 0, bl = 0, ~ (s > 0 <=> t > 0) PROVE FALSE
    OBVIOUS
  <2>1. s = ao /\ t = bo /\ u = 0
    BY <1>3, <1>4, <1>6
  <2>2. (ao <= 0 /\ 0 <= bo) \/ (bo <= 0 /\ 0 <= ao)
    BY <1>3, <2>1
  <2>3. PointOnSegment(a, b, p)
    <3>1. (a.lon <= p.lon /\ p.lon <= b.lon) \/ (b.lon <= p.lon /\ p.lon <= a.lon)
      BY ONLY <1>1, <1>2, <2>2
    <3>2. a.lat <= p.lat /\ p.lat <= b.lat
      BY <1>1, <1>2
    <3>3. Orientation(a, b, p) = 0
      BY <1>5, <2>1
    <3> QED
      BY ONLY <3>1, <3>2, <3>3, p \in Point, a \in Point, b \in Point, OnSegment
  <2> QED
    BY <2>3 DEF Clear
<1>13. ~ (al = 1 /\ bl = 1 /\ ~ (s > 0 <=> t > 0))
  <2> SUFFICES ASSUME al = 1, bl = 1, ~ (s > 0 <=> t > 0) PROVE FALSE
    OBVIOUS
  <2>1. s = ao - d /\ t = bo - d /\ u = s - t
    BY <1>3, <1>4, <1>6
  <2>2. (ao <= d /\ d <= bo) \/ (bo <= d /\ d <= ao)
    BY <1>3, <2>1
  <2>3. v = 0
    BY <1>4, <1>7, <2>1
  <2>4. PointOnSegment(a, b, q)
    <3>1. (a.lon <= q.lon /\ q.lon <= b.lon) \/ (b.lon <= q.lon /\ q.lon <= a.lon)
      BY ONLY <1>1, <1>2, <2>2
    <3>2. a.lat <= q.lat /\ q.lat <= b.lat
      BY <1>1, <1>2
    <3>3. Orientation(a, b, q) = 0
      BY <1>5, <2>3
    <3> QED
      BY ONLY <3>1, <3>2, <3>3, q \in Point, a \in Point, b \in Point, OnSegment
  <2> QED
    BY <2>4 DEF Clear
<1>14. (((al <= 0 /\ bl > 0 /\ u > 0) <=> (al <= 1 /\ bl > 1 /\ v > 0))
          <=> (~ (u > 0 <=> v > 0) /\ ~ (s < 0 <=> t < 0)))
       <=> ~ ((al = 1 /\ s > 0) <=> (bl = 1 /\ t > 0))
  <2>1. al <= bl /\ al \in Int /\ bl \in Int /\ s \in Int /\ t \in Int /\ u \in Int /\ v \in Int
    BY <1>3, <1>4, <1>5
  <2> QED
    BY ONLY <1>6, <1>7, <1>9, <1>10, <1>11, <1>12, <1>13, <2>1, SignsUp
<1>15. CrossesRight(a, b, p) <=> (al <= 0 /\ bl > 0 /\ u > 0)
  BY <1>1, <1>2, <1>3, <1>5 DEF CrossesRight
<1>16. CrossesRight(a, b, q) <=> (al <= 1 /\ bl > 1 /\ v > 0)
  BY <1>1, <1>2, <1>3, <1>5 DEF CrossesRight
<1>17. SegmentsIntersect(p, q, a, b) <=> (~ (u > 0 <=> v > 0) /\ ~ (s < 0 <=> t < 0))
  <2>1. SegmentsIntersect(p, q, a, b) <=>
          /\ (Orientation(p, q, a) > 0) # (Orientation(p, q, b) > 0)
          /\ (Orientation(a, b, p) > 0) # (Orientation(a, b, q) > 0)
    BY DEF SegmentsIntersect, Clear
  <2>2. (- s > 0 <=> s < 0) /\ (- t > 0 <=> t < 0)
    BY <1>4
  <2> QED
    BY <1>5, <1>8, <2>1, <2>2
<1>18. /\ BetweenRays(p, q, a) <=> (al = 1 /\ s > 0)
       /\ BetweenRays(p, q, b) <=> (bl = 1 /\ t > 0)
  <2>1. /\ a.lat = q.lat <=> al = 1
        /\ b.lat = q.lat <=> bl = 1
        /\ p.lat < q.lat /\ ~ (q.lat < p.lat)
    BY <1>1, <1>2
  <2>2. al = 1 => (a.lon > q.lon <=> s > 0)
    BY <1>1, <1>2, <1>4
  <2>3. bl = 1 => (b.lon > q.lon <=> t > 0)
    BY <1>1, <1>2, <1>4
  <2> QED
    BY <2>1, <2>2, <2>3 DEF BetweenRays
<1> QED
  BY ONLY <1>14, <1>15, <1>16, <1>17, <1>18 DEF CountsOdd

\* The same between two points side by side.
LEMMA EdgeFlat ==
  ASSUME NEW p \in Point, NEW q \in Point, NEW a \in Point, NEW b \in Point,
         q.lat = p.lat, q.lon = p.lon + 1, a.lat <= b.lat, Clear(p, q, a, b)
  PROVE  CountsOdd(p, q, a, b) <=> ~ (BetweenRays(p, q, a) <=> BetweenRays(p, q, b))
<1>1. /\ a.lat \in Int /\ a.lon \in Int /\ b.lat \in Int /\ b.lon \in Int
      /\ p.lat \in Int /\ p.lon \in Int /\ q.lat \in Int /\ q.lon \in Int
  BY DEF Point
<1>2. PICK u, v : u = Orientation(a, b, p) /\ v = Orientation(a, b, q) /\ u \in Int /\ v \in Int
  BY OrientationTurns
<1>3. Orientation(p, q, a) = a.lat - p.lat /\ Orientation(p, q, b) = b.lat - p.lat
  <2>1. q.lon - p.lon = 1 /\ q.lat - p.lat = 0
    BY <1>1
  <2>2. \A x, y \in Int : 1 * x - 0 * y = x
    OBVIOUS
  <2>3. /\ Orientation(p, q, a) = 1 * (a.lat - p.lat) - 0 * (a.lon - p.lon)
        /\ Orientation(p, q, b) = 1 * (b.lat - p.lat) - 0 * (b.lon - p.lon)
    BY <2>1 DEF Orientation
  <2> QED
    BY <1>1, <2>2, <2>3
<1>4. SegmentsIntersect(p, q, a, b) <=>
        /\ (Orientation(p, q, a) > 0) # (Orientation(p, q, b) > 0)
        /\ (Orientation(a, b, p) > 0) # (Orientation(a, b, q) > 0)
  BY DEF SegmentsIntersect, Clear
<1>5. SegmentsIntersect(p, q, a, b) <=> (a.lat <= p.lat /\ b.lat > p.lat /\ ~ (u > 0 <=> v > 0))
  BY <1>1, <1>2, <1>3, <1>4
<1>6. /\ CrossesRight(a, b, p) <=> (a.lat <= p.lat /\ b.lat > p.lat /\ u > 0)
      /\ CrossesRight(a, b, q) <=> (a.lat <= p.lat /\ b.lat > p.lat /\ v > 0)
  BY <1>1, <1>2 DEF CrossesRight
<1>7. ~ BetweenRays(p, q, a) /\ ~ BetweenRays(p, q, b)
  BY <1>1 DEF BetweenRays
<1> QED
  BY ONLY <1>5, <1>6, <1>7 DEF CountsOdd

\* Nor does it matter which way the edge or the walk goes.
LEMMA EdgeCounts ==
  ASSUME NEW p \in Point, NEW q \in Point, NEW a \in Point, NEW b \in Point,
         q.lat - p.lat \in -1 .. 1, q.lon - p.lon \in -1 .. 1, p # q, Clear(p, q, a, b)
  PROVE  CountsOdd(p, q, a, b) <=> ~ (BetweenRays(p, q, a) <=> BetweenRays(p, q, b))
<1>1. /\ a.lat \in Int /\ a.lon \in Int /\ b.lat \in Int /\ b.lon \in Int
      /\ p.lat \in Int /\ p.lon \in Int /\ q.lat \in Int /\ q.lon \in Int
  BY DEF Point
<1>2. ASSUME NEW x \in Point, NEW y \in Point, NEW c \in Point, NEW d \in Point
      PROVE  /\ CountsOdd(x, y, d, c) <=> CountsOdd(x, y, c, d)
             /\ CountsOdd(y, x, c, d) <=> CountsOdd(x, y, c, d)
             /\ Clear(x, y, d, c) <=> Clear(x, y, c, d)
             /\ Clear(y, x, c, d) <=> Clear(x, y, c, d)
             /\ BetweenRays(y, x, c) <=> BetweenRays(x, y, c)
  <2>1. /\ CrossesRight(d, c, x) <=> CrossesRight(c, d, x)
        /\ CrossesRight(d, c, y) <=> CrossesRight(c, d, y)
        /\ SegmentsIntersect(y, x, c, d) <=> SegmentsIntersect(x, y, c, d)
        /\ PointOnSegment(d, c, x) <=> PointOnSegment(c, d, x)
        /\ PointOnSegment(d, c, y) <=> PointOnSegment(c, d, y)
        /\ PointOnSegment(y, x, c) <=> PointOnSegment(x, y, c)
        /\ PointOnSegment(y, x, d) <=> PointOnSegment(x, y, d)
    BY ONLY x \in Point, y \in Point, c \in Point, d \in Point, SegmentTurns
  <2>2. SegmentsIntersect(x, y, d, c) <=> SegmentsIntersect(x, y, c, d)
    <3>1. SegmentsIntersect(x, y, d, c) <=> SegmentsIntersect(d, c, x, y)
      BY ONLY x \in Point, y \in Point, c \in Point, d \in Point, SegmentTurns
    <3>2. SegmentsIntersect(d, c, x, y) <=> SegmentsIntersect(c, d, x, y)
      BY ONLY x \in Point, y \in Point, c \in Point, d \in Point, SegmentTurns
    <3>3. SegmentsIntersect(c, d, x, y) <=> SegmentsIntersect(x, y, c, d)
      BY ONLY x \in Point, y \in Point, c \in Point, d \in Point, SegmentTurns
    <3> QED
      BY <3>1, <3>2, <3>3
  <2> QED
    BY <2>1, <2>2 DEF CountsOdd, Clear, BetweenRays
<1>3. ASSUME NEW x \in Point, NEW y \in Point, NEW c \in Point, NEW d \in Point,
             c.lat <= d.lat, Clear(x, y, c, d),
             \/ y.lat = x.lat + 1 /\ y.lon - x.lon \in -1 .. 1
             \/ y.lat = x.lat /\ y.lon = x.lon + 1
      PROVE  CountsOdd(x, y, c, d) <=> ~ (BetweenRays(x, y, c) <=> BetweenRays(x, y, d))
  BY ONLY <1>3, EdgeUp, EdgeFlat
\* Either from p to q or from q to p is upwards, or to the right.
<1>4. ASSUME NEW c \in Point, NEW d \in Point, c.lat <= d.lat, Clear(p, q, c, d)
      PROVE  CountsOdd(p, q, c, d) <=> ~ (BetweenRays(p, q, c) <=> BetweenRays(p, q, d))
  <2>1. \/ q.lat = p.lat + 1 /\ q.lon - p.lon \in -1 .. 1
        \/ q.lat = p.lat /\ q.lon = p.lon + 1
        \/ p.lat = q.lat + 1 /\ p.lon - q.lon \in -1 .. 1
        \/ p.lat = q.lat /\ p.lon = q.lon + 1
    <3>1. ~ (p.lat = q.lat /\ p.lon = q.lon)
      BY DEF Point
    <3> QED
      BY <1>1, <3>1
  <2>2. CASE \/ q.lat = p.lat + 1 /\ q.lon - p.lon \in -1 .. 1
             \/ q.lat = p.lat /\ q.lon = p.lon + 1
    BY <1>3, <1>4, <2>2
  <2>3. CASE \/ p.lat = q.lat + 1 /\ p.lon - q.lon \in -1 .. 1
             \/ p.lat = q.lat /\ p.lon = q.lon + 1
    <3>1. Clear(q, p, c, d)
      BY <1>2, <1>4
    <3>2. CountsOdd(q, p, c, d) <=> ~ (BetweenRays(q, p, c) <=> BetweenRays(q, p, d))
      BY <1>3, <1>4, <2>3, <3>1
    <3> QED
      BY <1>2, <3>2
  <2> QED
    BY <2>1, <2>2, <2>3
<1>5. CASE a.lat <= b.lat
  BY <1>4, <1>5
<1>6. CASE b.lat <= a.lat
  <2>1. Clear(p, q, b, a)
    BY <1>2
  <2>2. CountsOdd(p, q, b, a) <=> ~ (BetweenRays(p, q, b) <=> BetweenRays(p, q, a))
    BY <1>4, <1>6, <2>1
  <2> QED
    BY <1>2, <2>2
<1> QED
  BY <1>1, <1>5, <1>6

-----------------------------------------------------------------------------
(* The geofence: how often a walk crosses the boundary.                      *)

\* How many elements a set has, up to a number.
UpTo(S, k) == Cardinality(S \cap (1 .. k))

\* Up to the next number there is one more element, or none.
LEMMA CountsOneMore ==
  ASSUME NEW S, NEW k \in Nat
  PROVE  /\ UpTo(S, k) \in Nat
         /\ UpTo(S, k + 1) = IF k + 1 \in S THEN UpTo(S, k) + 1 ELSE UpTo(S, k)
<1> DEFINE A == S \cap (1 .. k)
           B == S \cap (1 .. k + 1)
<1>1. IsFiniteSet(A)
  <2>1. IsFiniteSet(1 .. k)
    BY FS_Interval
  <2> QED
    BY <2>1, FS_Subset
<1>2. k + 1 \notin A
  OBVIOUS
<1>3. B = IF k + 1 \in S THEN A \cup {k + 1} ELSE A
  <2>1. \A x : x \in 1 .. k + 1 <=> x \in 1 .. k \/ x = k + 1
    OBVIOUS
  <2> QED
    BY <2>1
<1> HIDE DEF A, B
<1>4. Cardinality(A) \in Nat /\ Cardinality(A \cup {k + 1}) = Cardinality(A) + 1
  BY <1>1, <1>2, FS_CardinalityType, FS_AddElement
<1>5. UpTo(S, k) = Cardinality(A) /\ UpTo(S, k + 1) = Cardinality(B)
  BY DEF UpTo, A, B
<1> QED
  BY <1>3, <1>4, <1>5

\* A number is in an odd number of the three sets when a mark changes there, and
\* the mark is in the end what it was.
Marks(n, P, Q, M, H) ==
  /\ P \subseteq 1 .. n /\ Q \subseteq 1 .. n /\ M \subseteq 1 .. n
  /\ \A i \in 1 .. n : ((i \in P <=> i \in Q) <=> i \in M) <=> ~ (i \in H <=> i + 1 \in H)
  /\ 1 \in H <=> n + 1 \in H

\* Of what is counted an odd number of times where a mark changes, round a cycle,
\* the counts add up to an even number.
LEMMA OddTogether ==
  ASSUME NEW n \in Nat, NEW P, NEW Q, NEW M, NEW H,
         Marks(n, P, Q, M, H)
  PROVE  ((Cardinality(P) % 2 = 0) <=> (Cardinality(Q) % 2 = 0)) <=> (Cardinality(M) % 2 = 0)
<1> USE DEF Marks
<1> DEFINE even(S, k) == UpTo(S, k) % 2 = 0
           U == {k \in Nat : k <= n =>
                   (((even(P, k) <=> even(Q, k)) <=> even(M, k)) <=> (1 \in H <=> k + 1 \in H))}
<1>1. ASSUME NEW S PROVE even(S, 0)
  <2>1. S \cap (1 .. 0) = {}
    OBVIOUS
  <2>2. UpTo(S, 0) = 0
    BY <2>1, FS_EmptySet DEF UpTo
  <2> QED
    BY <2>2
<1>2. ASSUME NEW S, NEW k \in Nat
      PROVE  even(S, k + 1) <=> (even(S, k) <=> ~ (k + 1 \in S))
  <2>1. PICK x, y : x = UpTo(S, k) /\ y = UpTo(S, k + 1)
    OBVIOUS
  <2>2. x \in Nat /\ y = IF k + 1 \in S THEN x + 1 ELSE x
    BY <2>1, CountsOneMore
  <2>3. (x + 1) % 2 = 0 <=> ~ (x % 2 = 0)
    BY <2>2
  <2> QED
    BY <2>1, <2>2, <2>3
<1>3. \A S : even(S, n) <=> Cardinality(S \cap (1 .. n)) % 2 = 0
  BY DEF UpTo
<1> HIDE DEF even
<1>4. 0 \in U
  BY <1>1
<1>5. ASSUME NEW k \in U PROVE k + 1 \in U
  <2>1. k \in Nat
    OBVIOUS
  <2>2. ASSUME k + 1 <= n
        PROVE  ((even(P, k + 1) <=> even(Q, k + 1)) <=> even(M, k + 1)) <=> (1 \in H <=> k + 2 \in H)
    <3>1. k + 1 \in 1 .. n /\ (k + 1) + 1 = k + 2
      BY <2>1, <2>2
    <3>2. ((k + 1 \in P <=> k + 1 \in Q) <=> k + 1 \in M) <=> ~ (k + 1 \in H <=> k + 2 \in H)
      BY <3>1
    <3>3. ((even(P, k) <=> even(Q, k)) <=> even(M, k)) <=> (1 \in H <=> k + 1 \in H)
      BY <2>1, <2>2
    <3>4. /\ even(P, k + 1) <=> (even(P, k) <=> ~ (k + 1 \in P))
          /\ even(Q, k + 1) <=> (even(Q, k) <=> ~ (k + 1 \in Q))
          /\ even(M, k + 1) <=> (even(M, k) <=> ~ (k + 1 \in M))
      BY <1>2, <2>1
    <3> QED
      BY ONLY <3>2, <3>3, <3>4
  <2>3. (k + 1) + 1 = k + 2
    BY <2>1
  <2> QED
    BY <2>1, <2>2, <2>3
<1>6. U = Nat
  <2>1. U \in SUBSET Nat
    OBVIOUS
  <2> HIDE DEF U
  <2> QED
    BY <1>4, <1>5, <2>1, Induction
<1>7. n \in U
  BY <1>6
<1>8. ((even(P, n) <=> even(Q, n)) <=> even(M, n)) <=> (1 \in H <=> n + 1 \in H)
  BY <1>7
<1>9. P \cap (1 .. n) = P /\ Q \cap (1 .. n) = Q /\ M \cap (1 .. n) = M
  OBVIOUS
<1>10. /\ even(P, n) <=> Cardinality(P) % 2 = 0
       /\ even(Q, n) <=> Cardinality(Q) % 2 = 0
       /\ even(M, n) <=> Cardinality(M) % 2 = 0
  BY <1>3, <1>9
<1> QED
  BY <1>8, <1>10

\* The edges that a segment meets.
EdgesMet(vs, p, q) ==
  {i \in 1 .. Len(vs) : SegmentsIntersect(p, q, vs[i], After(vs, i))}

\* Two neighbouring points that are not on the boundary, with no vertex on the
\* way: one ray crosses an odd number of edges and the other an even one exactly
\* when the way crosses an odd number.
LEMMA CrossingsChange ==
  ASSUME NEW vs \in Seq(Point), Len(vs) >= 3, NEW p \in Point, NEW q \in Point,
         q.lat - p.lat \in -1 .. 1, q.lon - p.lon \in -1 .. 1, p # q,
         ~ OnBoundary(vs, p), ~ OnBoundary(vs, q),
         \A i \in 1 .. Len(vs) : ~ PointOnSegment(p, q, vs[i])
  PROVE  ((Cardinality(Crossed(vs, p)) % 2 = 0) <=> (Cardinality(Crossed(vs, q)) % 2 = 0))
           <=> (Cardinality(EdgesMet(vs, p, q)) % 2 = 0)
<1>1. PICK n, P, Q, M : /\ n = Len(vs) /\ n \in Nat /\ n >= 3
                        /\ P = Crossed(vs, p) /\ Q = Crossed(vs, q) /\ M = EdgesMet(vs, p, q)
  OBVIOUS
<1>2. P \in SUBSET (1 .. n) /\ Q \in SUBSET (1 .. n) /\ M \in SUBSET (1 .. n)
  BY <1>1 DEF Crossed, EdgesMet
<1>3. ASSUME NEW i \in 1 .. n
      PROVE  /\ i \in P <=> CrossesRight(vs[i], After(vs, i), p)
             /\ i \in Q <=> CrossesRight(vs[i], After(vs, i), q)
             /\ i \in M <=> SegmentsIntersect(p, q, vs[i], After(vs, i))
  BY <1>1 DEF Crossed, EdgesMet
<1>4. ASSUME NEW i \in 1 .. n
      PROVE  /\ vs[i] \in Point /\ After(vs, i) \in Point
             /\ After(vs, i) = IF i = n THEN vs[1] ELSE vs[i + 1]
             /\ \E j \in 1 .. n : After(vs, i) = vs[j]
  <2>1. /\ vs[i] \in Point /\ After(vs, i) \in Point
        /\ After(vs, i) = IF i = n THEN vs[1] ELSE vs[i + 1]
    BY <1>1, AfterIn
  <2>2. 1 \in 1 .. n /\ (i # n => i + 1 \in 1 .. n)
    BY <1>1
  <2> QED
    BY <2>1, <2>2
<1>5. ASSUME NEW i \in 1 .. n
      PROVE  ((i \in P <=> i \in Q) <=> i \in M)
               <=> ~ (BetweenRays(p, q, vs[i]) <=> BetweenRays(p, q, After(vs, i)))
  <2>1. PICK a, b : a = vs[i] /\ b = After(vs, i)
    OBVIOUS
  <2>2. Clear(p, q, a, b)
    <3>1. ~ PointOnSegment(p, q, a) /\ ~ PointOnSegment(p, q, b)
      BY <1>1, <1>4, <2>1
    <3>2. ~ PointOnSegment(a, b, p) /\ ~ PointOnSegment(a, b, q)
      BY <1>1, <2>1 DEF OnBoundary
    <3> QED
      BY <3>1, <3>2 DEF Clear
  <2>3. a \in Point /\ b \in Point
    BY <1>4, <2>1
  <2>4. CountsOdd(p, q, a, b) <=> ~ (BetweenRays(p, q, a) <=> BetweenRays(p, q, b))
    BY <2>2, <2>3, EdgeCounts
  <2>5. CountsOdd(p, q, a, b) <=> ((i \in P <=> i \in Q) <=> i \in M)
    BY <1>3, <2>1 DEF CountsOdd
  <2> QED
    BY ONLY <2>1, <2>4, <2>5
<1> DEFINE H == {i \in 1 .. n + 1 : BetweenRays(p, q, IF i = n + 1 THEN vs[1] ELSE vs[i])}
<1>6. ASSUME NEW i \in 1 .. n
      PROVE  /\ i \in H <=> BetweenRays(p, q, vs[i])
             /\ i + 1 \in H <=> BetweenRays(p, q, After(vs, i))
  <2>1. i \in 1 .. n + 1 /\ i + 1 \in 1 .. n + 1 /\ i # n + 1 /\ (i + 1 = n + 1 <=> i = n)
    BY <1>1
  <2>2. i \in H <=> BetweenRays(p, q, vs[i])
    BY <2>1
  <2>3. CASE i = n
    BY <1>4, <2>1, <2>2, <2>3
  <2>4. CASE i # n
    BY <1>4, <2>1, <2>2, <2>4
  <2> QED
    BY <2>3, <2>4
<1>7. 1 \in H <=> n + 1 \in H
  <2>1. 1 \in 1 .. n + 1 /\ n + 1 \in 1 .. n + 1 /\ 1 # n + 1
    BY <1>1
  <2> QED
    BY <2>1
<1> HIDE DEF H
<1>8. \A i \in 1 .. n : ((i \in P <=> i \in Q) <=> i \in M) <=> ~ (i \in H <=> i + 1 \in H)
  BY <1>5, <1>6
<1>9. ((Cardinality(P) % 2 = 0) <=> (Cardinality(Q) % 2 = 0)) <=> (Cardinality(M) % 2 = 0)
  <2>1. Marks(n, P, Q, M, H)
    BY <1>2, <1>7, <1>8 DEF Marks
  <2> QED
    BY ONLY <1>1, <2>1, OddTogether
<1> QED
  BY <1>1, <1>9

\* Below all vertices is outside.
LEMMA OutsideBelow ==
  ASSUME NEW vs \in Seq(Point), Len(vs) >= 3, NEW p \in Point,
         \A i \in 1 .. Len(vs) : vs[i].lat > p.lat
  PROVE  StrictlyOutside(vs, p)
<1>1. ASSUME NEW i \in 1 .. Len(vs)
      PROVE  /\ vs[i] \in Point /\ After(vs, i) \in Point
             /\ vs[i].lat > p.lat /\ After(vs, i).lat > p.lat
  <2>1. /\ vs[i] \in Point /\ After(vs, i) \in Point
        /\ After(vs, i) = IF i = Len(vs) THEN vs[1] ELSE vs[i + 1]
    BY AfterIn
  <2>2. 1 \in 1 .. Len(vs) /\ (i # Len(vs) => i + 1 \in 1 .. Len(vs))
    OBVIOUS
  <2> QED
    BY <2>1, <2>2
<1>2. ASSUME NEW a \in Point, NEW b \in Point, a.lat > p.lat, b.lat > p.lat
      PROVE  ~ PointOnSegment(a, b, p) /\ ~ CrossesRight(a, b, p)
  <2>1. a.lat \in Int /\ b.lat \in Int /\ p.lat \in Int
    BY DEF Point
  <2>2. ~ PointOnSegment(a, b, p)
    BY <1>2, <2>1, OnSegment
  <2> QED
    BY <1>2, <2>2 DEF CrossesRight
<1>3. ~ OnBoundary(vs, p)
  BY <1>1, <1>2 DEF OnBoundary
<1>4. Crossed(vs, p) = {}
  BY <1>1, <1>2 DEF Crossed
<1>5. Cardinality(Crossed(vs, p)) % 2 = 0
  <2>1. Cardinality(Crossed(vs, p)) = 0
    BY <1>4, FS_EmptySet
  <2> QED
    BY <2>1
<1> QED
  BY <1>3, <1>5 DEF StrictlyOutside, Quantify, Crossed

\* However many vertices a polygon has, as the point moves the answer of
\* is_strictly_outside changes exactly where the boundary is crossed.
THEOREM OutsideFollows == WalkSpec => FollowsBoundary
<1>1. WalkInv /\ [WalkStep]_walkVars => [StepFollows]_walkVars
  <2> SUFFICES ASSUME WalkInv, WalkStep, walkVars' # walkVars PROVE StepFollows
    BY DEF walkVars
  <2>1. PICK vs, p, q : vs = polygon /\ p = spot /\ q = spot'
    BY Zenon
  <2>2. PICK dlat, dlon \in -1 .. 1 : q = PointAt(p.lat + dlat, p.lon + dlon)
    BY <2>1 DEF WalkStep
  <2>3. vs \in Seq(Point) /\ p \in Point /\ Len(vs) >= 3
    <3>1. vs \in Seq(Point) /\ p \in Point
      BY <2>1, WalkAssumption DEF WalkInv
    <3>2. ValidPolygon(vs)
      BY <2>1 DEF WalkInv, WalkStep
    <3>3. Len(vs) \in 3 .. MaxVertices
      BY <3>2 DEF ValidPolygon
    <3> QED
      BY <3>1, <3>3, GeofenceAssumption
  <2>4. /\ p.lat \in Int /\ p.lon \in Int
        /\ q.lat = p.lat + dlat /\ q.lon = p.lon + dlon
    BY <2>2, <2>3 DEF Point, PointAt
  <2>5. q \in Point /\ q.lat - p.lat \in -1 .. 1 /\ q.lon - p.lon \in -1 .. 1
    BY <2>2, <2>4 DEF Point, PointAt
  <2>6. p # q
    <3>1. SUFFICES ASSUME p = q PROVE FALSE
      OBVIOUS
    <3>2. outside' = outside
      BY <2>1, <3>1 DEF WalkInv, WalkStep
    <3> QED
      BY <2>1, <3>1, <3>2 DEF WalkStep, walkVars
  <2>7. /\ outside = StrictlyOutside(vs, p) /\ outside' = StrictlyOutside(vs, q)
    BY <2>1 DEF WalkInv, WalkStep
  <2>8. ASSUME NEW r \in Point
        PROVE  StrictlyOutside(vs, r) <=> ~ OnBoundary(vs, r) /\ Cardinality(Crossed(vs, r)) % 2 = 0
    BY DEF StrictlyOutside, Quantify, Crossed
  <2>9. OnBoundary(vs, q) => ~ outside'
    BY <2>5, <2>7, <2>8
  <2>10. ASSUME p = PointAt(- Span, - Span) PROVE outside
    <3>1. p.lat = - Span
      BY <2>10 DEF PointAt
    <3>2. \A i \in 1 .. Len(vs) : vs[i].lat > p.lat
      BY <2>1, <3>1, WalkAssumption DEF WalkInv
    <3>3. StrictlyOutside(vs, p)
      BY ONLY <2>3, <3>2, OutsideBelow
    <3> QED
      BY <2>7, <3>3
  <2>11. ASSUME ~ OnBoundary(vs, p), ~ OnBoundary(vs, q), ~ ThroughVertex(p, q)
         PROVE  (outside # outside') <=> (Cardinality(EdgesMet(vs, p, q)) % 2 = 1)
    <3>1. \A i \in 1 .. Len(vs) : ~ PointOnSegment(p, q, vs[i])
      BY <2>1, <2>11 DEF ThroughVertex
    <3>2. ((Cardinality(Crossed(vs, p)) % 2 = 0) <=> (Cardinality(Crossed(vs, q)) % 2 = 0))
            <=> (Cardinality(EdgesMet(vs, p, q)) % 2 = 0)
      BY ONLY <2>3, <2>5, <2>6, <2>11, <3>1, CrossingsChange
    <3>3. Cardinality(EdgesMet(vs, p, q)) % 2 = 1 <=> ~ (Cardinality(EdgesMet(vs, p, q)) % 2 = 0)
      <4>1. IsFiniteSet(1 .. Len(vs))
        BY <2>3, FS_Interval
      <4>2. EdgesMet(vs, p, q) \subseteq 1 .. Len(vs)
        BY DEF EdgesMet
      <4>3. Cardinality(EdgesMet(vs, p, q)) \in Nat
        BY <4>1, <4>2, FS_Subset, FS_CardinalityType
      <4> QED
        BY <4>3
    <3>4. /\ StrictlyOutside(vs, p) <=> Cardinality(Crossed(vs, p)) % 2 = 0
          /\ StrictlyOutside(vs, q) <=> Cardinality(Crossed(vs, q)) % 2 = 0
      BY <2>3, <2>5, <2>8, <2>11
    <3>5. StrictlyOutside(vs, p) \in BOOLEAN /\ StrictlyOutside(vs, q) \in BOOLEAN
      BY DEF StrictlyOutside
    <3>6. (StrictlyOutside(vs, p) # StrictlyOutside(vs, q)) <=> (Cardinality(EdgesMet(vs, p, q)) % 2 = 1)
      BY ONLY <3>2, <3>3, <3>4, <3>5
    <3> QED
      BY <2>7, <3>6
  <2>12. Meets(p, q) = EdgesMet(vs, p, q)
    BY <2>1 DEF Meets, EdgesMet
  <2> QED
    BY <2>1, <2>9, <2>10, <2>11, <2>12 DEF StepFollows
<1> QED
  BY <1>1, WalkInductive, PTL DEF WalkSpec, FollowsBoundary

=============================================================================
