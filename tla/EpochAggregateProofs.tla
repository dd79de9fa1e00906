------------------------ MODULE EpochAggregateProofs ------------------------
(***************************************************************************)
(* Proofs about EpochAggregateAnchor and the prover it extends, for all    *)
(* lots, epochs, policies, fan-ins, nesting depths and foreign proofs.     *)
(*                                                                         *)
(* The argument: an aggregate that reports the two right program keys is   *)
(* Sound, because its children were verified under these keys and, if they *)
(* are aggregates, report them too; and two Sound transitions that meet in *)
(* a root join into a Sound one.  The contract accepts no other keys.      *)
(***************************************************************************)
EXTENDS EpochAggregateAnchor, AnchorLemmas, FiniteSetTheorems

\* The transition from old to new spends exactly lots nullifiers, each with a
\* leaf of the policy program, and its events are within that many lots' bounds.
Sound(epoch, policy, old, new, lots, events) ==
  /\ old \subseteq new
  /\ IsFiniteSet(new \ old)
  /\ lots \in Nat /\ Cardinality(new \ old) = lots
  /\ events \in Nat
  /\ lots * MinEvents <= events /\ events <= lots * MaxEvents
  /\ \A n \in new \ old : HasLeaf(n, epoch, policy)

\* Two transitions that meet in a root join.
LEMMA SoundJoin ==
  ASSUME NEW epoch, NEW policy, NEW a, NEW b, NEW c,
         NEW l1, NEW l2, NEW e1, NEW e2,
         Sound(epoch, policy, a, b, l1, e1), Sound(epoch, policy, b, c, l2, e2)
  PROVE  Sound(epoch, policy, a, c, l1 + l2, e1 + e2)
<1>1. a \subseteq b /\ b \subseteq c
  BY DEF Sound
<1>2. c \ a = (b \ a) \cup (c \ b) /\ (b \ a) \cap (c \ b) = {}
  BY <1>1
<1>3. IsFiniteSet(b \ a) /\ IsFiniteSet(c \ b)
  BY DEF Sound
<1>4. Cardinality({}) = 0
  BY FS_EmptySet
<1>5. IsFiniteSet(c \ a) /\ Cardinality(c \ a) = l1 + l2
  <2>1. /\ IsFiniteSet((b \ a) \cup (c \ b))
        /\ Cardinality((b \ a) \cup (c \ b))
             = Cardinality(b \ a) + Cardinality(c \ b)
                 - Cardinality((b \ a) \cap (c \ b))
    BY <1>3, FS_Union
  <2>2. /\ l1 \in Nat /\ Cardinality(b \ a) = l1
        /\ l2 \in Nat /\ Cardinality(c \ b) = l2
    BY DEF Sound
  <2>3. l1 + l2 - 0 = l1 + l2
    BY <2>2
  <2> QED
    BY <1>2, <1>4, <2>1, <2>2, <2>3
<1>6. /\ l1 + l2 \in Nat /\ e1 + e2 \in Nat
      /\ (l1 + l2) * MinEvents <= e1 + e2
      /\ e1 + e2 <= (l1 + l2) * MaxEvents
  BY DEF Sound, MinEvents, MaxEvents
<1>7. \A n \in c \ a : HasLeaf(n, epoch, policy)
  BY <1>2 DEF Sound
<1> QED
  BY <1>1, <1>5, <1>6, <1>7 DEF Sound

\* One leaf spends one nullifier.
LEMMA SoundLeaf ==
  ASSUME NEW v \in LeafOutputs, v.count \in MinEvents .. MaxEvents
  PROVE  Sound(v.epoch, v.policy, v.old, v.new, 1, v.count)
<1>1. v.nullifier \notin v.old /\ v.new = v.old \cup {v.nullifier}
  BY LeafOutputFacts
<1>2. v.new \ v.old = {v.nullifier}
  BY <1>1
<1>3. IsFiniteSet(v.new \ v.old) /\ Cardinality(v.new \ v.old) = 1
  BY <1>2, FS_Singleton
<1>4. \A n \in v.new \ v.old : HasLeaf(n, v.epoch, v.policy)
  BY <1>2 DEF HasLeaf
<1>5. v.count \in Nat /\ 1 * MinEvents <= v.count /\ v.count <= 1 * MaxEvents
  BY DEF MinEvents, MaxEvents
<1> QED
  BY <1>1, <1>3, <1>4, <1>5 DEF Sound

-----------------------------------------------------------------------------

\* What the proofs made so far, and the loop under way, are worth when they
\* carry the right program keys.
SoundValues(v) == Sound(v.epoch, v.policy, v.old, v.new, v.lots, v.events)

ProverInv ==
  /\ \A v \in aggregates : ChildKeysOk(v) => SoundValues(v)
  /\ node.running /\ ChildKeysOk(node) =>
       Sound(node.epoch, node.policy, node.old, node.current,
             node.lots, node.events)

\* The types of a child that was verified and is fit.
LEMMA ChildTyped ==
  ASSUME TypeOK, NEW leafVk, NEW aggregateVk, NEW kind, NEW values,
         ChildOk(leafVk, aggregateVk, kind, values)
  PROVE  /\ values.epoch \in Epochs /\ values.policy \in Policies
         /\ values.old \in Roots /\ values.new \in Roots
         /\ LotsOf(kind, values) \in 0 .. U64Max
         /\ EventsOf(kind, values) \in 0 .. U64Max
<1>1. CASE kind = "leaf"
  <2>1. values \in LeafOutputs
          \/ [vk |-> leafVk, kind |-> kind, values |-> values] \in ForeignProofs
    BY <1>1 DEF ChildOk, Verified
  <2>2. values \in LeafType
    BY <1>1, <2>1, LeafOutputFacts, ForeignAssumption
  <2>3. values.count \in MinEvents .. MaxEvents
    BY <1>1 DEF ChildOk, LeafChildOk
  <2> QED
    BY <1>1, <2>2, <2>3, U64MaxAssumption
       DEF LeafType, LotsOf, EventsOf, MinEvents, MaxEvents
<1>2. CASE kind = "aggregate"
  <2>1. values \in aggregates
          \/ [vk |-> aggregateVk, kind |-> kind, values |-> values]
               \in ForeignProofs
    BY <1>2 DEF ChildOk, Verified
  <2>2. EpochTyped(values)
    BY <1>2, <2>1, ForeignAssumption DEF TypeOK
  <2> QED
    BY <1>2, <2>2 DEF EpochTyped, LotsOf, EventsOf
<1> QED
  BY <1>1, <1>2 DEF ChildOk

\* A child that was verified under the right keys is sound.
LEMMA ChildSound ==
  ASSUME ProverInv, NEW kind, NEW values,
         ChildOk(LeafVk, AggregateVk, kind, values)
  PROVE  Sound(values.epoch, values.policy, values.old, values.new,
               LotsOf(kind, values), EventsOf(kind, values))
<1>1. CASE kind = "leaf"
  <2>1. values \in LeafOutputs
    BY <1>1, KeysAssumption DEF ChildOk, Verified
  <2>2. values.count \in MinEvents .. MaxEvents
    BY <1>1 DEF ChildOk, LeafChildOk
  <2> QED
    BY <1>1, <2>1, <2>2, SoundLeaf DEF LotsOf, EventsOf
<1>2. CASE kind = "aggregate"
  <2>1. values \in aggregates
    BY <1>2, KeysAssumption DEF ChildOk, Verified
  <2>2. ChildKeysOk(values)
    BY <1>2 DEF ChildOk, AggregateChildOk, ChildKeysOk
  <2> QED
    BY <1>2, <2>1, <2>2 DEF ProverInv, SoundValues, LotsOf, EventsOf
<1> QED
  BY <1>1, <1>2 DEF ChildOk

\* A step of the prover keeps types and soundness.
LEMMA FirstChildStep ==
  ASSUME TypeOK, ProverInv, NEW leafVk, NEW aggregateVk, NEW kind, NEW values,
         FirstChild(leafVk, aggregateVk, kind, values)
  PROVE  /\ ProverInv'
         /\ node'.running
         /\ node'.epoch \in Epochs /\ node'.policy \in Policies
         /\ node'.old \in Roots /\ node'.current \in Roots
         /\ node'.lots \in 0 .. U64Max /\ node'.events \in 0 .. U64Max
<1>1. ChildOk(leafVk, aggregateVk, kind, values)
  BY DEF FirstChild
<1>2. /\ node'.running
      /\ node'.leafVk = leafVk /\ node'.aggregateVk = aggregateVk
      /\ node'.epoch = values.epoch /\ node'.policy = values.policy
      /\ node'.old = values.old /\ node'.current = values.new
      /\ node'.lots = LotsOf(kind, values)
      /\ node'.events = EventsOf(kind, values)
      /\ aggregates' = aggregates
  BY DEF FirstChild, Node
<1>3. ChildKeysOk(node)' =>
        Sound(values.epoch, values.policy, values.old, values.new,
              LotsOf(kind, values), EventsOf(kind, values))
  BY <1>1, <1>2, ChildSound DEF ChildKeysOk
<1>4. ProverInv'
  BY <1>2, <1>3 DEF ProverInv
<1> QED
  BY <1>1, <1>2, <1>4, ChildTyped

LEMMA NextChildStep ==
  ASSUME TypeOK, ProverInv, NEW kind, NEW values, NextChild(kind, values)
  PROVE  /\ ProverInv'
         /\ node'.running
         /\ node'.epoch \in Epochs /\ node'.policy \in Policies
         /\ node'.old \in Roots /\ node'.current \in Roots
         /\ node'.lots \in 0 .. U64Max /\ node'.events \in 0 .. U64Max
<1> DEFINE lots == LotsOf(kind, values)
           events == EventsOf(kind, values)
<1>1. /\ node.running
      /\ ChildOk(node.leafVk, node.aggregateVk, kind, values)
      /\ values.policy = node.policy /\ values.epoch = node.epoch
      /\ values.old = node.current
      /\ node.lots + lots <= U64Max /\ node.events + events <= U64Max
  BY DEF NextChild, Continues
<1>2. /\ node'.running
      /\ node'.leafVk = node.leafVk /\ node'.aggregateVk = node.aggregateVk
      /\ node'.epoch = node.epoch /\ node'.policy = node.policy
      /\ node'.old = node.old /\ node'.current = values.new
      /\ node'.lots = node.lots + lots
      /\ node'.events = node.events + events
      /\ aggregates' = aggregates
  BY DEF NextChild, Node
<1>3. /\ values.new \in Roots
      /\ lots \in 0 .. U64Max /\ events \in 0 .. U64Max
  BY <1>1, ChildTyped
<1>4. /\ node.epoch \in Epochs /\ node.policy \in Policies /\ node.old \in Roots
      /\ node.lots \in 0 .. U64Max /\ node.events \in 0 .. U64Max
  BY <1>1 DEF TypeOK
<1> HIDE DEF lots, events
<1>5. ASSUME ChildKeysOk(node)
      PROVE  Sound(node.epoch, node.policy, node.old, values.new,
                   node.lots + lots, node.events + events)
  <2>1. Sound(node.epoch, node.policy, node.old, node.current,
              node.lots, node.events)
    BY <1>1, <1>5 DEF ProverInv
  <2>2. Sound(node.epoch, node.policy, node.current, values.new, lots, events)
    BY <1>1, <1>5, ChildSound DEF ChildKeysOk, lots, events
  <2> QED
    BY <2>1, <2>2, SoundJoin
<1>6. ProverInv'
  BY <1>2, <1>5 DEF ProverInv, ChildKeysOk
<1>7. /\ node.lots + lots \in 0 .. U64Max
      /\ node.events + events \in 0 .. U64Max
  BY <1>1, <1>3, <1>4, U64MaxAssumption
<1> QED
  BY <1>2, <1>3, <1>4, <1>6, <1>7

LEMMA CommitStep ==
  ASSUME TypeOK, ProverInv, CommitNode
  PROVE  ProverInv' /\ (\A v \in aggregates' : EpochTyped(v)) /\ ~ node'.running
<1>1. /\ node.running
      /\ aggregates' = aggregates \cup {EpochPublicValues}
      /\ ~ node'.running
  BY DEF CommitNode, NoNode
<1>2. /\ EpochPublicValues.epoch = node.epoch
      /\ EpochPublicValues.policy = node.policy
      /\ EpochPublicValues.old = node.old
      /\ EpochPublicValues.new = node.current
      /\ EpochPublicValues.lots = node.lots
      /\ EpochPublicValues.events = node.events
      /\ EpochPublicValues.leafVk = node.leafVk
      /\ EpochPublicValues.aggregateVk = node.aggregateVk
  BY DEF EpochPublicValues
<1>3. ChildKeysOk(EpochPublicValues) => SoundValues(EpochPublicValues)
  BY <1>1, <1>2 DEF ProverInv, SoundValues, ChildKeysOk
<1>4. EpochTyped(EpochPublicValues)
  BY <1>1, <1>2 DEF TypeOK, EpochTyped
<1> HIDE DEF EpochPublicValues
<1> QED
  BY <1>1, <1>3, <1>4 DEF ProverInv, TypeOK

-----------------------------------------------------------------------------

\* The inductive invariant: types, the worth of all proofs, and the chain of
\* roots in the log, whose entries are sound aggregates.
IInv ==
  /\ TypeOK
  /\ ProverInv
  /\ ChainIn(log, InitialRoot, nullifierRoot)
  /\ OrderedIn(log, nullifierRoot)
  /\ Accounted
  /\ \A i \in DOMAIN log : SoundValues(log[i])

LEMMA IInvInit == Init => IInv
<1> SUFFICES ASSUME Init PROVE IInv
  OBVIOUS
<1>1. /\ log = <<>> /\ nullifierRoot = InitialRoot
      /\ aggregates = {} /\ ~ node.running /\ node.running \in BOOLEAN
  BY DEF Init, ProverInit, NoNode
<1>2. TypeOK
  BY <1>1, InitialRootAssumption DEF Init, RegistryInit, TypeOK
<1>3. ProverInv
  BY <1>1 DEF ProverInv
<1>4. /\ ChainIn(log, InitialRoot, nullifierRoot)
      /\ OrderedIn(log, nullifierRoot)
      /\ Accounted
  BY <1>1, EmptyChain DEF Accounted
<1> QED
  BY <1>1, <1>2, <1>3, <1>4 DEF IInv

\* A step of the prover leaves the chain alone and only adds aggregates.
LEMMA ProveStep ==
  ASSUME IInv, Prove
  PROVE  IInv'
<1>1. /\ ProverNext
      /\ UNCHANGED <<allowedPolicies, nullifierRoot, anchoredEpochs, log>>
  BY DEF Prove, chainVars
<1>2. TypeOK /\ ProverInv
  BY DEF IInv
<1> DEFINE NodeTyped == /\ node.epoch \in Epochs /\ node.policy \in Policies
                        /\ node.old \in Roots /\ node.current \in Roots
                        /\ node.lots \in 0 .. U64Max
                        /\ node.events \in 0 .. U64Max
<1>3. /\ ProverInv'
      /\ aggregates \subseteq aggregates'
      /\ \A v \in aggregates' : EpochTyped(v)
      /\ node'.running \in BOOLEAN
      /\ node'.running => NodeTyped'
  <2>1. ASSUME NEW leafVk, NEW aggregateVk, NEW kind, NEW values,
               FirstChild(leafVk, aggregateVk, kind, values)
        PROVE  <1>3
    <3>1. aggregates' = aggregates /\ node'.running = TRUE
      BY <2>1 DEF FirstChild, Node
    <3> QED
      BY <1>2, <2>1, <3>1, FirstChildStep DEF TypeOK
  <2>2. ASSUME NEW kind, NEW values, NextChild(kind, values)
        PROVE  <1>3
    <3>1. aggregates' = aggregates /\ node'.running = TRUE
      BY <2>2 DEF NextChild, Node
    <3> QED
      BY <1>2, <2>2, <3>1, NextChildStep DEF TypeOK
  <2>3. CASE CommitNode
    <3>1. aggregates \subseteq aggregates' /\ node'.running = FALSE
      BY <2>3 DEF CommitNode, NoNode
    <3> QED
      BY <1>2, <2>3, <3>1, CommitStep
  <2>4. CASE AbortNode
    <3>1. aggregates' = aggregates /\ node'.running = FALSE
      BY <2>4 DEF AbortNode, NoNode
    <3> QED
      BY <1>2, <3>1 DEF TypeOK, ProverInv
  <2> QED
    BY <1>1, <2>1, <2>2, <2>3, <2>4 DEF ProverNext
<1>4. log \in Seq(aggregates)
  BY <1>2 DEF TypeOK
<1>5. log \in Seq(aggregates')
  BY <1>3, <1>4
<1>6. TypeOK'
  BY <1>1, <1>2, <1>3, <1>5 DEF TypeOK
<1> QED
  BY <1>1, <1>3, <1>6 DEF IInv, Accounted, SoundValues

\* Anchoring: the contract's own root, keys and epoch map.
LEMMA AnchorStep ==
  ASSUME IInv, NEW epoch \in Epochs, NEW old \in Roots,
         NEW values \in aggregates, VerifyAndAnchor(epoch, old, values)
  PROVE  IInv'
<1>1. /\ log' = Append(log, values)
      /\ nullifierRoot' = values.new
      /\ anchoredEpochs' = [anchoredEpochs EXCEPT ![values.epoch] = TRUE]
      /\ values.old = nullifierRoot
      /\ values.new # values.old
      /\ ChildKeysOk(values)
      /\ UNCHANGED <<aggregates, node, allowedPolicies>>
  BY DEF VerifyAndAnchor, TransitionOk, Advances
<1>2. TypeOK /\ ProverInv /\ log \in Seq(aggregates)
  BY DEF IInv, TypeOK
<1>3. SoundValues(values) /\ values.old \subseteq values.new
  BY <1>1, <1>2 DEF ProverInv, SoundValues, Sound
<1>4. values.epoch \in Epochs /\ values.new \in Roots
  BY <1>2 DEF TypeOK, EpochTyped
<1>5. TypeOK'
  <2>1. log' \in Seq(aggregates')
    BY <1>1, <1>2
  <2>2. anchoredEpochs' \in [Epochs -> BOOLEAN]
    BY <1>1, <1>2 DEF TypeOK
  <2> QED
    BY <1>1, <1>2, <1>4, <2>1, <2>2 DEF TypeOK, EpochTyped
<1>6. /\ ChainIn(Append(log, values), InitialRoot, values.new)
      /\ OrderedIn(Append(log, values), values.new)
      /\ AccountedIn(Append(log, values), InitialRoot, values.new)
  BY <1>1, <1>2, <1>3, AppendTransition DEF IInv, Accounted
<1>7. \A i \in DOMAIN log' : SoundValues(log'[i])
  <2>1. ASSUME NEW i \in DOMAIN log'
        PROVE  log'[i] = values \/ (i \in DOMAIN log /\ log'[i] = log[i])
    BY <1>1, <1>2
  <2> QED
    BY <1>3, <2>1 DEF IInv
<1>8. \A v : SoundValues(v)' <=> SoundValues(v)
  BY DEF SoundValues
<1>9. ProverInv'
  BY <1>1, <1>2 DEF ProverInv, SoundValues, ChildKeysOk
<1> QED
  BY <1>1, <1>5, <1>6, <1>7, <1>9 DEF IInv, Accounted, SoundValues

LEMMA IInvStep == IInv /\ [Next]_vars => IInv'
<1> SUFFICES ASSUME IInv, [Next]_vars
             PROVE  IInv'
  OBVIOUS
<1>1. ASSUME NEW sender \in Accounts, NEW policy \in Policies,
             NEW allowed \in BOOLEAN, SetPolicy(sender, policy, allowed)
      PROVE  IInv'
  <2>1. UNCHANGED <<aggregates, node, nullifierRoot, anchoredEpochs, log>>
    BY <1>1 DEF SetPolicy
  <2>2. allowedPolicies' \subseteq Policies
    BY <1>1 DEF SetPolicy, SetPolicyRoots, IInv, TypeOK
  <2> QED
    BY <2>1, <2>2
       DEF IInv, TypeOK, EpochTyped, ProverInv, ChildKeysOk, SoundValues, Accounted
<1>2. CASE Prove
  BY <1>2, ProveStep
<1>3. ASSUME NEW epoch \in Epochs, NEW old \in Roots,
             NEW values \in aggregates, VerifyAndAnchor(epoch, old, values)
      PROVE  IInv'
  BY <1>3, AnchorStep
<1>4. CASE UNCHANGED vars
  BY <1>4 DEF vars, IInv, TypeOK, EpochTyped, ProverInv, ChildKeysOk,
              SoundValues, Accounted
<1> QED
  BY <1>1, <1>2, <1>3, <1>4 DEF Next

THEOREM Invariance == Spec => []IInv
BY IInvInit, IInvStep, PTL DEF Spec

\* Storage and proofs keep their types.
THEOREM TypeCorrect == Spec => []TypeOK
<1>1. IInv => TypeOK
  BY DEF IInv
<1> QED
  BY <1>1, Invariance, PTL

\* No nullifier is spent by two anchored epochs.
THEOREM NoDoubleSpend == Spec => []SpentOnce
<1>1. IInv => SpentOnce
  <2> SUFFICES ASSUME IInv PROVE SpentOnceIn(log)
    BY DEF SpentOnce
  <2>1. log \in Seq(aggregates) /\ OrderedIn(log, nullifierRoot)
    BY DEF IInv, TypeOK
  <2> QED
    BY <2>1, OrderedSpendsOnce
<1> QED
  BY <1>1, Invariance, PTL

\* The lot count of an anchored aggregate is the number of nullifiers it spends.
THEOREM ExactCounts == Spec => []CountsExact
<1>1. IInv => CountsExact
  <2> SUFFICES ASSUME IInv, NEW i \in DOMAIN log
               PROVE  /\ Cardinality(Spent(log[i])) = log[i].lots
                      /\ log[i].events \in
                           log[i].lots * MinEvents .. log[i].lots * MaxEvents
    BY DEF CountsExact
  <2>1. Sound(log[i].epoch, log[i].policy, log[i].old, log[i].new,
              log[i].lots, log[i].events)
    BY DEF IInv, SoundValues
  <2> QED
    BY <2>1 DEF Sound, Spent, MinEvents, MaxEvents
<1> QED
  BY <1>1, Invariance, PTL

\* Every nullifier spent on chain has a leaf of the policy program.
THEOREM GenuineLeaves == Spec => []LeavesGenuine
<1>1. IInv => LeavesGenuine
  BY DEF IInv, SoundValues, Sound, LeavesGenuine, Spent
<1> QED
  BY <1>1, Invariance, PTL

\* Whatever is anchored was allowed, down to each leaf.
THEOREM AllowedLeaves == Spec => AnchoredOnlyWhileAllowed
<1> DEFINE Allowed == \A i \in DOMAIN log' \ DOMAIN log : \A n \in Spent(log'[i]) :
                        \E policy \in allowedPolicies :
                          HasLeaf(n, log'[i].epoch, policy)
<1>1. ASSUME IInv, [Next]_vars
      PROVE  [Allowed]_vars
  <2>1. ASSUME NEW epoch \in Epochs, NEW old \in Roots,
               NEW values \in aggregates, VerifyAndAnchor(epoch, old, values)
        PROVE  Allowed
    <3>1. /\ log' = Append(log, values)
          /\ ChildKeysOk(values)
          /\ values.policy \in allowedPolicies
      BY <2>1 DEF VerifyAndAnchor, TransitionOk
    <3>2. SoundValues(values) /\ log \in Seq(aggregates)
      BY <1>1, <3>1 DEF IInv, ProverInv, TypeOK
    <3>3. \A i \in DOMAIN log' \ DOMAIN log : log'[i] = values
      BY <3>1, <3>2
    <3>4. \A n \in Spent(values) : HasLeaf(n, values.epoch, values.policy)
      BY <3>2 DEF SoundValues, Sound, Spent
    <3> QED
      BY <3>1, <3>3, <3>4
  <2>2. ASSUME log' = log
        PROVE  Allowed
    BY <2>2
  <2>3. ASSUME NEW sender \in Accounts, NEW policy \in Policies,
               NEW allowed \in BOOLEAN, SetPolicy(sender, policy, allowed)
        PROVE  log' = log
    BY <2>3 DEF SetPolicy
  <2>4. Prove => log' = log
    BY DEF Prove, chainVars
  <2> QED
    BY <1>1, <2>1, <2>2, <2>3, <2>4 DEF Next
<1> QED
  BY <1>1, Invariance, PTL DEF AnchoredOnlyWhileAllowed, Spec

-----------------------------------------------------------------------------

\* Every step of the system is a step of the ledger or leaves it alone.
LEMMA LedgerStep ==
  ASSUME IInv, [Next]_vars
  PROVE  [Ledger!Next]_<<nullifierRoot, {e \in Epochs : anchoredEpochs[e]}>>
<1>1. ASSUME NEW sender \in Accounts, NEW policy \in Policies,
             NEW allowed \in BOOLEAN, SetPolicy(sender, policy, allowed)
      PROVE  UNCHANGED <<nullifierRoot, anchoredEpochs>>
  BY <1>1 DEF SetPolicy
<1>2. Prove => UNCHANGED <<nullifierRoot, anchoredEpochs>>
  BY DEF Prove, chainVars
<1>3. ASSUME NEW epoch \in Epochs, NEW old \in Roots,
             NEW values \in aggregates, VerifyAndAnchor(epoch, old, values)
      PROVE  Ledger!Next
  <2>1. /\ values.old = nullifierRoot
        /\ nullifierRoot' = values.new
        /\ values.new # values.old
        /\ ~ anchoredEpochs[values.epoch]
        /\ anchoredEpochs' = [anchoredEpochs EXCEPT ![values.epoch] = TRUE]
        /\ ChildKeysOk(values)
    BY <1>3 DEF VerifyAndAnchor, TransitionOk, Advances
  <2>2. /\ values.epoch \in Epochs /\ values.new \in Roots
        /\ anchoredEpochs \in [Epochs -> BOOLEAN]
    BY DEF IInv, TypeOK, EpochTyped
  <2>3. values.old \subseteq values.new
    BY <2>1 DEF IInv, ProverInv, SoundValues, Sound
  <2>4. {e \in Epochs : anchoredEpochs'[e]}
          = {e \in Epochs : anchoredEpochs[e]} \cup {values.epoch}
    BY <2>1, <2>2
  <2>5. Ledger!Enter(values.epoch, Spent(values))
    BY <2>1, <2>3, <2>4 DEF Ledger!Enter, Spent
  <2>6. Spent(values) \in SUBSET Nullifiers
    BY <2>2 DEF Roots, Spent
  <2> QED
    BY <2>2, <2>5, <2>6 DEF Ledger!Next
<1> QED
  BY <1>1, <1>2, <1>3 DEF Next, vars

\* The contract and its provers implement the ledger of spent nullifiers.
THEOREM Refinement == Spec => ImplementsLedger
<1>1. Init => Ledger!Init
  BY DEF Init, Ledger!Init
<1> QED
  BY <1>1, Invariance, LedgerStep, PTL
     DEF Spec, ImplementsLedger, Ledger!Spec

=============================================================================
