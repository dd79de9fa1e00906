-------------------------- MODULE VeCroTokenProofs --------------------------
(***************************************************************************)
(* Proofs about VeCroTokenAdaptedAnchor, for all lots, epochs, batches and *)
(* policies.                                                               *)
(***************************************************************************)
EXTENDS VeCroTokenAdaptedAnchor, AnchorLemmas

\* The inductive invariant: the log is a chain of growing roots that ends in
\* the current one, and the minted tokens are those of the log.
IInv ==
  /\ TypeOK
  /\ ChainIn(log, InitialRoot, nullifierRoot)
  /\ OrderedIn(log, nullifierRoot)
  /\ Accounted
  /\ \A i \in DOMAIN log : TokenId(log[i]) \in mintedTokens
  /\ BatchesOnce

LEMMA IInvInit == Init => IInv
<1> SUFFICES ASSUME Init PROVE IInv
  OBVIOUS
<1>1. TypeOK
  BY InitialRootAssumption DEF Init, RegistryInit, TypeOK
<1>2. log = <<>> /\ nullifierRoot = InitialRoot
  BY DEF Init
<1>3. /\ ChainIn(log, InitialRoot, nullifierRoot)
      /\ OrderedIn(log, nullifierRoot)
      /\ Accounted
  BY <1>2, EmptyChain DEF Accounted
<1> QED
  BY <1>1, <1>2, <1>3 DEF IInv, BatchesOnce

\* Minting keeps the types.
LEMMA MintKeepsType ==
  ASSUME TypeOK, NEW values \in LeafOutputs, VerifyAndMint(values)
  PROVE  TypeOK'
<1>1. values \in LeafType
  BY LeafOutputFacts
<1>2. values.epoch \in Epochs /\ values.digest \in Digests /\ values.new \in Roots
  BY <1>1 DEF LeafType
<1> QED
  BY <1>1, <1>2 DEF VerifyAndMint, TokenId, TypeOK

\* Minting keeps the chain: the leaf starts at the current root.
LEMMA MintKeepsChain ==
  ASSUME IInv, NEW values \in LeafOutputs, VerifyAndMint(values)
  PROVE  /\ ChainIn(log, InitialRoot, nullifierRoot)'
         /\ OrderedIn(log, nullifierRoot)'
         /\ Accounted'
<1>1. /\ log' = Append(log, values)
      /\ nullifierRoot' = values.new
      /\ values.old = nullifierRoot
      /\ values.new # values.old
  BY DEF VerifyAndMint, TransitionOk
<1>2. values.old \subseteq values.new
  BY LeafOutputFacts
<1>3. log \in Seq(LeafType)
  BY DEF IInv, TypeOK
<1>4. AccountedIn(log, InitialRoot, nullifierRoot)
  BY DEF IInv, Accounted
<1>5. /\ ChainIn(Append(log, values), InitialRoot, values.new)
      /\ OrderedIn(Append(log, values), values.new)
      /\ AccountedIn(Append(log, values), InitialRoot, values.new)
  BY <1>1, <1>2, <1>3, <1>4, AppendTransition DEF IInv
<1> QED
  BY <1>1, <1>5 DEF Accounted

\* Minting keeps one token per batch: its token was not minted.
LEMMA MintKeepsTokens ==
  ASSUME IInv, NEW values \in LeafOutputs, VerifyAndMint(values)
  PROVE  (\A i \in DOMAIN log : TokenId(log[i]) \in mintedTokens)' /\ BatchesOnce'
<1> DEFINE n == Len(log)
<1>1. /\ log' = Append(log, values)
      /\ mintedTokens' = mintedTokens \cup {TokenId(values)}
      /\ TokenId(values) \notin mintedTokens
  BY DEF VerifyAndMint
<1>2. /\ n \in Nat
      /\ DOMAIN log = 1 .. n
      /\ DOMAIN log' = 1 .. (n + 1)
      /\ \A i \in 1 .. n : log'[i] = log[i]
      /\ log'[n + 1] = values
  BY <1>1 DEF IInv, TypeOK
<1>3. \A i \in 1 .. (n + 1) : i \in 1 .. n \/ i = n + 1
  BY <1>2
<1>4. \A i \in 1 .. n : TokenId(log[i]) \in mintedTokens
  BY <1>2 DEF IInv
<1>5. \A i \in DOMAIN log' : TokenId(log'[i]) \in mintedTokens'
  BY <1>1, <1>2, <1>3, <1>4
<1>6. \A i, j \in 1 .. n : i # j => TokenId(log[i]) # TokenId(log[j])
  BY <1>2 DEF IInv, BatchesOnce, TokenId
<1>7. \A i, j \in DOMAIN log' : i # j => TokenId(log'[i]) # TokenId(log'[j])
  BY <1>1, <1>2, <1>3, <1>4, <1>6
<1> QED
  BY <1>5, <1>7 DEF BatchesOnce, TokenId

\* The inductive invariant holds throughout.
THEOREM Invariance == Spec => []IInv
<1>1. IInv /\ [Next]_vars => IInv'
  <2> SUFFICES ASSUME IInv, [Next]_vars PROVE IInv'
    OBVIOUS
  <2>1. ASSUME NEW sender \in Accounts, NEW policy \in Policies,
               NEW allowed \in BOOLEAN, SetPolicy(sender, policy, allowed)
        PROVE  IInv'
    <3>1. UNCHANGED <<nullifierRoot, mintedTokens, log>>
      BY <2>1 DEF SetPolicy
    <3>2. TypeOK'
      BY <2>1 DEF SetPolicy, SetPolicyRoots, IInv, TypeOK
    <3> QED
      BY <3>1, <3>2 DEF IInv, Accounted, BatchesOnce
  <2>2. ASSUME NEW values \in LeafOutputs, VerifyAndMint(values)
        PROVE  IInv'
    <3>1. TypeOK'
      BY <2>2, MintKeepsType DEF IInv
    <3> QED
      BY <2>2, <3>1, MintKeepsChain, MintKeepsTokens DEF IInv
  <2>3. CASE UNCHANGED vars
    BY <2>3 DEF vars, IInv, TypeOK, Accounted, BatchesOnce
  <2> QED
    BY <2>1, <2>2, <2>3 DEF Next
<1> QED
  BY <1>1, IInvInit, PTL DEF Spec

\* No nullifier is spent by two tokens.
THEOREM NoDoubleSpend == Spec => []SpentOnce
<1>1. IInv => SpentOnce
  <2> SUFFICES ASSUME IInv PROVE SpentOnceIn(log)
    BY DEF SpentOnce
  <2>1. log \in Seq(LeafType) /\ OrderedIn(log, nullifierRoot)
    BY DEF IInv, TypeOK
  <2> QED
    BY <2>1, OrderedSpendsOnce
<1> QED
  BY <1>1, Invariance, PTL

\* No batch is minted twice, whichever keys its lot is credited to.
THEOREM NoBatchTwice == Spec => []BatchesOnce
<1>1. IInv => BatchesOnce
  BY DEF IInv
<1> QED
  BY <1>1, Invariance, PTL

\* The contract implements the ledger of spent nullifiers.
THEOREM Refinement == Spec => ImplementsLedger
<1>1. Init => Ledger!Init
  BY DEF Init, Ledger!Init
<1>2. ASSUME [Next]_vars
      PROVE  [Ledger!Next]_<<nullifierRoot, mintedTokens>>
  <2>1. ASSUME NEW sender \in Accounts, NEW policy \in Policies,
               NEW allowed \in BOOLEAN, SetPolicy(sender, policy, allowed)
        PROVE  UNCHANGED <<nullifierRoot, mintedTokens>>
    BY <2>1 DEF SetPolicy
  <2>2. ASSUME NEW values \in LeafOutputs, VerifyAndMint(values)
        PROVE  Ledger!Enter(TokenId(values), {values.nullifier})
    BY <2>2, LeafOutputFacts DEF VerifyAndMint, TransitionOk, Ledger!Enter
  <2>3. \A values \in LeafOutputs :
          TokenId(values) \in Epochs \X Digests /\ {values.nullifier} \in SUBSET Nullifiers
    BY LeafOutputFacts DEF LeafType, TokenId
  <2> QED
    BY <1>2, <2>1, <2>2, <2>3 DEF Next, vars, Ledger!Next
<1> QED
  BY <1>1, <1>2, PTL DEF Spec, ImplementsLedger, Ledger!Spec

=============================================================================
