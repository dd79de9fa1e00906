------------------------ MODULE EpochAggregateAnchor ------------------------
(***************************************************************************)
(* contracts/EpochAggregateAnchor.sol: one aggregate of the epoch program  *)
(* is anchored per epoch, against the same registry and with the same kind *)
(* of root as EpochAnchor, next to the prover that makes the aggregates.   *)
(***************************************************************************)
EXTENDS PolicyRegistry, EpochAggregate, FiniteSets

CONSTANTS
  InitialRoot,   \* constructor argument initialRoot_
  MaxAggregates  \* bound of the model: aggregate proofs that exist

ASSUME InitialRootAssumption == InitialRoot \in Roots

VARIABLES
  nullifierRoot,   \* the current root
  anchoredEpochs,  \* mapping(uint64 => bool)
  log              \* the public values of the EpochAggregated events, in order

chainVars == <<allowedPolicies, nullifierRoot, anchoredEpochs, log>>
vars == <<aggregates, node, allowedPolicies, nullifierRoot, anchoredEpochs, log>>

Init ==
  /\ RegistryInit
  /\ ProverInit
  /\ nullifierRoot = InitialRoot
  /\ anchoredEpochs = [e \in Epochs |-> FALSE]
  /\ log = <<>>

\* verifier.verifyProof(programVKey, ...): programVKey is the epoch program.
VerifyProof(values) == Verified(AggregateVk, "aggregate", values)

\* The bounds are computed in uint256 and do not overflow.
EpochResultOk(values) ==
  /\ values.valid
  /\ values.lots # 0
  /\ values.events \in values.lots * MinEvents .. values.lots * MaxEvents

\* Mutant: only the epoch program's own key is compared.
ChildKeysOkForAggregates(values) == values.aggregateVk = AggregateVk
\* expectedLeafVKeyDigest and expectedAggregateVKeyDigest.
ChildKeysOk(values) == values.leafVk = LeafVk /\ values.aggregateVk = AggregateVk

\* Mutant: the root is compared with the submitter's expectation only.
TransitionOkAsExpected(expectedEpochId, expectedOldNullifierRoot, values) ==
  /\ Advances(values)
  /\ values.epoch = expectedEpochId
  /\ values.old = expectedOldNullifierRoot

\* The submitter's expectations and the contract's own root.
TransitionOk(expectedEpochId, expectedOldNullifierRoot, values) ==
  /\ Advances(values)
  /\ values.epoch = expectedEpochId
  /\ values.old = expectedOldNullifierRoot
  /\ values.old = nullifierRoot

VerifyAndAnchor(expectedEpochId, expectedOldNullifierRoot, values) ==
  /\ ~ anchoredEpochs[expectedEpochId]
  /\ VerifyProof(values)
  /\ EpochResultOk(values)
  /\ values.policy \in allowedPolicies
  /\ ChildKeysOk(values)
  /\ TransitionOk(expectedEpochId, expectedOldNullifierRoot, values)
  /\ anchoredEpochs' = [anchoredEpochs EXCEPT ![values.epoch] = TRUE]
  /\ nullifierRoot' = values.new
  /\ log' = Append(log, values)
  /\ UNCHANGED <<aggregates, node, allowedPolicies>>

SetPolicy(sender, policy, allowed) ==
  /\ SetPolicyRoots(sender, policy, allowed)
  /\ UNCHANGED <<aggregates, node, nullifierRoot, anchoredEpochs, log>>

Prove ==
  /\ Cardinality(aggregates) < MaxAggregates
  /\ ProverNext
  /\ UNCHANGED chainVars

Next ==
  \/ \E sender \in Accounts, policy \in Policies, allowed \in BOOLEAN :
       SetPolicy(sender, policy, allowed)
  \/ \E epoch \in Epochs, old \in Roots, values \in aggregates :
       VerifyAndAnchor(epoch, old, values)
  \/ Prove

Spec == Init /\ [][Next]_vars

-----------------------------------------------------------------------------

\* A leaf of the policy program for one nullifier, one epoch and one policy.
HasLeaf(nullifier, epoch, policy) ==
  \E leaf \in LeafOutputs :
    leaf.nullifier = nullifier /\ leaf.epoch = epoch /\ leaf.policy = policy

\* Storage and proofs have the types of the source.
TypeOK ==
  /\ allowedPolicies \subseteq Policies
  /\ nullifierRoot \in Roots
  /\ anchoredEpochs \in [Epochs -> BOOLEAN]
  /\ \A v \in aggregates : EpochTyped(v)
  /\ node.running \in BOOLEAN
  /\ node.running =>
       /\ node.epoch \in Epochs /\ node.policy \in Policies
       /\ node.old \in Roots /\ node.current \in Roots
       /\ node.lots \in 0 .. U64Max /\ node.events \in 0 .. U64Max
  /\ log \in Seq(aggregates)

\* A nullifier is spent by at most one anchored epoch, however the leaves were
\* grouped into nodes and whatever the children claimed.
SpentOnce == SpentOnceIn(log)

\* The current root accounts for exactly what the anchored aggregates spent.
Accounted == AccountedIn(log, InitialRoot, nullifierRoot)

\* The lot count of an anchored aggregate is the number of nullifiers it
\* spends, and its event count is within that many lots' bounds: the sums over
\* nested nodes neither count a lot twice nor lose one.
CountsExact ==
  \A i \in DOMAIN log :
    /\ Cardinality(Spent(log[i])) = log[i].lots
    /\ log[i].events \in log[i].lots * MinEvents .. log[i].lots * MaxEvents

\* Every nullifier spent on chain was proved by the policy program itself, for
\* the epoch and the policy the aggregate states: neither a leaf of another
\* build nor a child aggregate of another build gets through, at any depth.
LeavesGenuine ==
  \A i \in DOMAIN log : \A n \in Spent(log[i]) :
    HasLeaf(n, log[i].epoch, log[i].policy)

\* When an aggregate is anchored, the policy of each of its leaves is allowed
\* at that moment.
AnchoredOnlyWhileAllowed ==
  [][\A i \in DOMAIN log' \ DOMAIN log : \A n \in Spent(log'[i]) :
       \E policy \in allowedPolicies : HasLeaf(n, log'[i].epoch, policy)]_vars

\* The contract as a ledger of spent nullifiers.
Ledger == INSTANCE NullifierLedger WITH
  Tags <- Epochs, First <- InitialRoot,
  spent <- nullifierRoot, closed <- {e \in Epochs : anchoredEpochs[e]}

\* The contract implements the ledger.
ImplementsLedger == Ledger!Spec

=============================================================================
