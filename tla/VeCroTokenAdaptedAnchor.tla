----------------------- MODULE VeCroTokenAdaptedAnchor -----------------------
(***************************************************************************)
(* contracts/VeCroTokenAdaptedAnchor.sol: every policy leaf mints a token  *)
(* for its batch, several in one epoch.  The submitter states no           *)
(* expectation: what the proof says is compared with the root directly.    *)
(***************************************************************************)
EXTENDS PolicyRegistry

CONSTANT InitialRoot  \* constructor argument initialRoot_

ASSUME InitialRootAssumption == InitialRoot \in Roots

VARIABLES
  nullifierRoot,  \* the current root
  mintedTokens,   \* the token ids mapped to true
  log             \* the public values of the TokenMinted events, in order

vars == <<allowedPolicies, nullifierRoot, mintedTokens, log>>

Init ==
  /\ RegistryInit
  /\ nullifierRoot = InitialRoot
  /\ mintedTokens = {}
  /\ log = <<>>

\* verifier.verifyProof(policyProgramVKey, publicValues, proof), sound.
VerifyProof(values) == values \in LeafOutputs

PolicyResultOk(values) ==
  /\ values.valid
  /\ values.role = RequiredRole
  /\ values.threshold = MaxAllowedReading
  /\ values.count \in MinEvents .. MaxEvents

\* Mutant: the token stands for the nullifier instead of the batch.
TokenOfNullifier(values) == <<values.epoch, values.nullifier>>
\* keccak256 of epoch and batch digest.
TokenId(values) == <<values.epoch, values.digest>>

\* Mutant: any transition that advances is taken.
TransitionAdvances(values) == values.new # values.old
\* The proof must start at the current root.
TransitionOk(values) == values.new # values.old /\ values.old = nullifierRoot

VerifyAndMint(values) ==
  /\ VerifyProof(values)
  /\ PolicyResultOk(values)
  /\ TokenId(values) \notin mintedTokens
  /\ values.policy \in allowedPolicies
  /\ TransitionOk(values)
  /\ mintedTokens' = mintedTokens \cup {TokenId(values)}
  /\ nullifierRoot' = values.new
  /\ log' = Append(log, values)
  /\ UNCHANGED allowedPolicies

SetPolicy(sender, policy, allowed) ==
  /\ SetPolicyRoots(sender, policy, allowed)
  /\ UNCHANGED <<nullifierRoot, mintedTokens, log>>

Next ==
  \/ \E sender \in Accounts, policy \in Policies, allowed \in BOOLEAN :
       SetPolicy(sender, policy, allowed)
  \/ \E values \in LeafOutputs : VerifyAndMint(values)

Spec == Init /\ [][Next]_vars

-----------------------------------------------------------------------------

\* The contract's storage and its events have the types of the source.
TypeOK ==
  /\ allowedPolicies \subseteq Policies
  /\ nullifierRoot \in Roots
  /\ mintedTokens \subseteq Epochs \X Digests
  /\ log \in Seq(LeafType)

\* No two tokens spend the same nullifier.
SpentOnce == SpentOnceIn(log)

\* The current root accounts for exactly the minted tokens.
Accounted == AccountedIn(log, InitialRoot, nullifierRoot)

\* A batch is minted once, also when its lot is credited to a second key and
\* so has a second, unspent nullifier.
BatchesOnce ==
  \A i, j \in DOMAIN log : i # j =>
    <<log[i].epoch, log[i].digest>> # <<log[j].epoch, log[j].digest>>

\* The contract as a ledger of spent nullifiers, entered under token ids.
Ledger == INSTANCE NullifierLedger WITH
  Tags <- Epochs \X Digests, First <- InitialRoot,
  spent <- nullifierRoot, closed <- mintedTokens

\* The contract implements the ledger: every token is new and spends fresh
\* nullifiers only.
ImplementsLedger == Ledger!Spec

=============================================================================
