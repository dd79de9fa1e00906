--------------------------- MODULE EpochAggregate ---------------------------
(***************************************************************************)
(* The epoch program: one recursive proof over up to MaxFanIn child        *)
(* proofs, policy leaves or earlier aggregates.  The guest (main.rs)       *)
(* verifies every child under a program key it is given as input, then     *)
(* epoch::evaluate walks over the children once.  One iteration of that    *)
(* loop is one step here, so that node is what the loop carries.           *)
(*                                                                         *)
(* Nothing makes the program insist on the right keys: they are inputs,    *)
(* and it reports them.  Whoever accepts an aggregate compares them.       *)
(***************************************************************************)
EXTENDS PolicyLeaf, Sequences

CONSTANTS
  MaxFanIn,       \* MAX_FAN_IN, 8 in the code
  U64Max,         \* the largest u64
  LeafVk,         \* recursion key of the leaf program
  AggregateVk,    \* recursion key of the epoch program
  ForeignProofs   \* proofs of other builds: records of vk, kind and values

ASSUME MaxFanInAssumption == MaxFanIn \in Nat \ {0}
ASSUME U64MaxAssumption == U64Max \in Nat /\ U64Max >= MaxEvents
ASSUME KeysAssumption ==
  /\ LeafVk # AggregateVk
  /\ \A p \in ForeignProofs : p.vk \notin {LeafVk, AggregateVk}

\* The public values of an aggregate, but for the commitment and the keys.
EpochTyped(v) ==
  /\ v.epoch \in Epochs
  /\ v.old \in Roots /\ v.new \in Roots
  /\ v.lots \in 0 .. U64Max /\ v.events \in 0 .. U64Max
  /\ v.policy \in Policies

\* Public values are decoded before they are used, also those of other builds.
ASSUME ForeignAssumption ==
  \A p \in ForeignProofs :
    IF p.kind = "leaf" THEN p.values \in LeafType ELSE EpochTyped(p.values)

VARIABLES
  aggregates,  \* public values of the proofs made with the epoch program
  node         \* the loop of epoch::evaluate: its state, or NoNode

proverVars == <<aggregates, node>>

NoNode == [running |-> FALSE]

\* verify_sp1_proof in the guest: recursion soundness.  Leaf proofs can be
\* made at any time, so the leaf program's outputs are all at hand.  A proof of
\* one kind never passes for the other: words 4 and 7 of one kind of public
\* values are digests where the other kind has a small integer.
Verified(vk, kind, values) ==
  \/ vk = LeafVk /\ kind = "leaf" /\ values \in LeafOutputs
  \/ vk = AggregateVk /\ kind = "aggregate" /\ values \in aggregates
  \/ [vk |-> vk, kind |-> kind, values |-> values] \in ForeignProofs

\* What a child adds to the sums and to the commitment.
LotsOf(kind, values) == IF kind = "leaf" THEN 1 ELSE values.lots
EventsOf(kind, values) == IF kind = "leaf" THEN values.count ELSE values.events
CommitmentOf(kind, values) ==
  IF kind = "leaf" THEN [batch |-> values.digest] ELSE values.commitment

LeafChildOk(values) ==
  /\ values.role = RequiredRole
  /\ values.threshold = MaxAllowedReading
  /\ values.valid
  /\ values.count \in MinEvents .. MaxEvents

\* checked_mul fails on lots whose bounds leave u64.
AggregateChildOk(leafVk, aggregateVk, values) ==
  /\ values.lots * MaxEvents <= U64Max
  /\ values.valid
  /\ values.leafVk = leafVk
  /\ values.aggregateVk = aggregateVk
  /\ values.lots # 0
  /\ values.events \in values.lots * MinEvents .. values.lots * MaxEvents

\* Verified under the key given for its kind, and fit to be a child.
ChildOk(leafVk, aggregateVk, kind, values) ==
  \/ /\ kind = "leaf"
     /\ Verified(leafVk, kind, values)
     /\ LeafChildOk(values)
  \/ /\ kind = "aggregate"
     /\ Verified(aggregateVk, kind, values)
     /\ AggregateChildOk(leafVk, aggregateVk, values)

Advances(values) == values.new # values.old

\* What the commitment absorbs of one child.
Summary(kind, values) ==
  [kind |-> kind, commitment |-> CommitmentOf(kind, values),
   old |-> values.old, new |-> values.new,
   lots |-> LotsOf(kind, values), events |-> EventsOf(kind, values)]

-----------------------------------------------------------------------------

ProverInit == aggregates = {} /\ node = NoNode

\* What the loop carries from one child to the next.
Node(leafVk, aggregateVk, epoch, policy, old, current, lots, events, children) ==
  [running |-> TRUE, leafVk |-> leafVk, aggregateVk |-> aggregateVk,
   epoch |-> epoch, policy |-> policy, old |-> old, current |-> current,
   lots |-> lots, events |-> events, children |-> children]

\* First iteration: epoch, roots and policy come from the first child.
FirstChild(leafVk, aggregateVk, kind, values) ==
  /\ ~ node.running
  /\ ChildOk(leafVk, aggregateVk, kind, values)
  /\ Advances(values)
  /\ node' = Node(leafVk, aggregateVk, values.epoch, values.policy, values.old,
                  values.new, LotsOf(kind, values), EventsOf(kind, values),
                  <<Summary(kind, values)>>)
  /\ UNCHANGED aggregates

\* Mutant: the chain of roots is not compared.
ContinuesAnyRoot(values) ==
  /\ values.policy = node.policy
  /\ values.epoch = node.epoch

\* Mutant: only the first child's policy counts.
ContinuesAnyPolicy(values) ==
  /\ values.epoch = node.epoch
  /\ values.old = node.current

\* The child continues the epoch, the policy and the chain of roots.
Continues(values) ==
  /\ values.policy = node.policy
  /\ values.epoch = node.epoch
  /\ values.old = node.current

\* A later iteration, its sums checked against u64.
NextChild(kind, values) ==
  /\ node.running
  /\ Len(node.children) < MaxFanIn
  /\ ChildOk(node.leafVk, node.aggregateVk, kind, values)
  /\ Continues(values)
  /\ Advances(values)
  /\ \A i \in DOMAIN node.children :
       node.children[i].commitment # CommitmentOf(kind, values)
  /\ node.lots + LotsOf(kind, values) <= U64Max
  /\ node.events + EventsOf(kind, values) <= U64Max
  /\ node' = Node(node.leafVk, node.aggregateVk, node.epoch, node.policy,
                  node.old, values.new,
                  node.lots + LotsOf(kind, values),
                  node.events + EventsOf(kind, values),
                  Append(node.children, Summary(kind, values)))
  /\ UNCHANGED aggregates

\* The public values evaluate returns.
EpochPublicValues ==
  [epoch |-> node.epoch, old |-> node.old, new |-> node.current,
   commitment |-> [leafVk |-> node.leafVk, aggregateVk |-> node.aggregateVk,
                   policy |-> node.policy, children |-> node.children],
   lots |-> node.lots, events |-> node.events, valid |-> TRUE,
   leafVk |-> node.leafVk, aggregateVk |-> node.aggregateVk,
   policy |-> node.policy]

\* The guest commits them, and the proof exists.
CommitNode ==
  /\ node.running
  /\ aggregates' = aggregates \cup {EpochPublicValues}
  /\ node' = NoNode

\* evaluate fails on the next child, or the prover is stopped: no proof.
AbortNode ==
  /\ node.running
  /\ node' = NoNode
  /\ UNCHANGED aggregates

\* The children at hand for a node with the given keys.
ChildrenFor(leafVk, aggregateVk) ==
  {[kind |-> "leaf", values |-> v] :
     v \in IF leafVk = LeafVk THEN LeafOutputs ELSE {}} \cup
  {[kind |-> "aggregate", values |-> v] :
     v \in IF aggregateVk = AggregateVk THEN aggregates ELSE {}} \cup
  {[kind |-> p.kind, values |-> p.values] :
     p \in {q \in ForeignProofs : q.vk \in {leafVk, aggregateVk}}}

LeafKeys == {LeafVk} \cup {p.vk : p \in {q \in ForeignProofs : q.kind = "leaf"}}
AggregateKeys ==
  {AggregateVk} \cup {p.vk : p \in {q \in ForeignProofs : q.kind = "aggregate"}}

ProverNext ==
  \/ \E leafVk \in LeafKeys, aggregateVk \in AggregateKeys :
       \E c \in ChildrenFor(leafVk, aggregateVk) :
         FirstChild(leafVk, aggregateVk, c.kind, c.values)
  \/ /\ node.running
     /\ \E c \in ChildrenFor(node.leafVk, node.aggregateVk) :
          NextChild(c.kind, c.values)
  \/ CommitNode
  \/ AbortNode

=============================================================================
