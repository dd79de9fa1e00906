----------------------------- MODULE EpochAnchor -----------------------------
(***************************************************************************)
(* contracts/EpochAnchor.sol: one policy leaf is anchored per epoch.       *)
(* Anyone may submit any proof of the leaf program, in any order, with any *)
(* expected epoch and root; a transaction that reverts leaves the state    *)
(* alone and is not a step.                                                *)
(***************************************************************************)
EXTENDS PolicyRegistry

CONSTANTS
  InitialRoot,  \* constructor argument initialNullifierRoot_
  ZeroDigest    \* bytes32(0), the value of an unset anchoredEpochs entry

ASSUME InitialRootAssumption == InitialRoot \in Roots
ASSUME ZeroDigestAssumption == ZeroDigest \in Digests

VARIABLES
  nullifierRoot,   \* the current root
  epochAnchored,   \* mapping(uint64 => bool)
  anchoredEpochs,  \* mapping(uint64 => bytes32), the digest of the epoch
  log              \* the public values of the EpochAnchored events, in order

vars == <<allowedPolicies, nullifierRoot, epochAnchored, anchoredEpochs, log>>

Init ==
  /\ RegistryInit
  /\ nullifierRoot = InitialRoot
  /\ epochAnchored = [e \in Epochs |-> FALSE]
  /\ anchoredEpochs = [e \in Epochs |-> ZeroDigest]
  /\ log = <<>>

\* verifier.verifyProof(programVKey, publicValues, proof): Groth16 soundness,
\* a proof that verifies is one of an execution of the leaf program.
VerifyProof(values) == values \in LeafOutputs

\* The result a leaf must carry, checked again on chain.
PolicyResultOk(values) ==
  /\ values.valid
  /\ values.role = RequiredRole
  /\ values.threshold = MaxAllowedReading
  /\ values.count \in MinEvents .. MaxEvents

\* Mutant: the root is compared with the submitter's expectation only.
TransitionOkAsExpected(expectedEpochId, expectedOldNullifierRoot, values) ==
  /\ values.new # values.old
  /\ values.epoch = expectedEpochId
  /\ values.old = expectedOldNullifierRoot

\* The submitter's expectations and the contract's own root.
TransitionOk(expectedEpochId, expectedOldNullifierRoot, values) ==
  /\ values.new # values.old
  /\ values.epoch = expectedEpochId
  /\ values.old = expectedOldNullifierRoot
  /\ values.old = nullifierRoot

\* Mutant: an epoch is anchored when its digest is set.
DuplicateEpochByDigest(epoch) == anchoredEpochs[epoch] # ZeroDigest
DuplicateEpoch(epoch) == epochAnchored[epoch]

VerifyAndAnchor(expectedEpochId, expectedOldNullifierRoot, values) ==
  /\ ~ DuplicateEpoch(expectedEpochId)
  /\ VerifyProof(values)
  /\ PolicyResultOk(values)
  /\ values.policy \in allowedPolicies
  /\ TransitionOk(expectedEpochId, expectedOldNullifierRoot, values)
  /\ epochAnchored' = [epochAnchored EXCEPT ![values.epoch] = TRUE]
  /\ anchoredEpochs' = [anchoredEpochs EXCEPT ![values.epoch] = values.digest]
  /\ nullifierRoot' = values.new
  /\ log' = Append(log, values)
  /\ UNCHANGED allowedPolicies

SetPolicy(sender, policy, allowed) ==
  /\ SetPolicyRoots(sender, policy, allowed)
  /\ UNCHANGED <<nullifierRoot, epochAnchored, anchoredEpochs, log>>

Next ==
  \/ \E sender \in Accounts, policy \in Policies, allowed \in BOOLEAN :
       SetPolicy(sender, policy, allowed)
  \/ \E epoch \in Epochs, old \in Roots, values \in LeafOutputs :
       VerifyAndAnchor(epoch, old, values)

Spec == Init /\ [][Next]_vars

-----------------------------------------------------------------------------

\* The contract's storage and its events have the types of the source.
TypeOK ==
  /\ allowedPolicies \subseteq Policies
  /\ nullifierRoot \in Roots
  /\ epochAnchored \in [Epochs -> BOOLEAN]
  /\ anchoredEpochs \in [Epochs -> Digests]
  /\ log \in Seq(LeafType)

\* A nullifier is spent by at most one anchored epoch, whatever proofs were
\* made and on whichever roots: C5 of the leaf program and the root comparison
\* of verifyAndAnchor together are the double-spend guard.
SpentOnce == SpentOnceIn(log)

\* The current root accounts for exactly the anchored nullifiers.
Accounted == AccountedIn(log, InitialRoot, nullifierRoot)

\* One epoch is anchored once and keeps its digest: a digest that is zero must
\* not open the epoch again (anvil_policy_v2_test.mjs checks that case).
EpochsOnce ==
  /\ \A i, j \in DOMAIN log : i # j => log[i].epoch # log[j].epoch
  /\ \A i \in DOMAIN log : anchoredEpochs[log[i].epoch] = log[i].digest

\* A root the contract has left is never current again, so a proof made on a
\* root that went stale stays useless.
StaleRootsStayStale ==
  [][nullifierRoot' # nullifierRoot =>
       \A i \in DOMAIN log : nullifierRoot' # log[i].old]_vars

\* The contract as a ledger of spent nullifiers.
Ledger == INSTANCE NullifierLedger WITH
  Tags <- Epochs, First <- InitialRoot,
  spent <- nullifierRoot, closed <- {e \in Epochs : epochAnchored[e]}

\* The contract implements the ledger: every anchored epoch is new and spends
\* fresh nullifiers only.
ImplementsLedger == Ledger!Spec

=============================================================================
