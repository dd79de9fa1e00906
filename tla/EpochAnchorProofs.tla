-------------------------- MODULE EpochAnchorProofs --------------------------
(***************************************************************************)
(* Proofs about EpochAnchor, for all lots, epochs, batches and policies;   *)
(* then about the issuer and about IssuedLots, which composes the two:     *)
(* snapshots agree on the key of a lot over restarts, and so a lot is      *)
(* anchored once.                                                          *)
(***************************************************************************)
EXTENDS IssuedLots, AnchorLemmas, FiniteSetTheorems

\* Storage and events keep their types.
THEOREM TypeCorrect == Spec => []TypeOK
<1>1. Init => TypeOK
  BY InitialRootAssumption, ZeroDigestAssumption
     DEF Init, RegistryInit, TypeOK
<1>2. TypeOK /\ [Next]_vars => TypeOK'
  <2> SUFFICES ASSUME TypeOK, [Next]_vars
               PROVE  TypeOK'
    OBVIOUS
  <2>1. ASSUME NEW sender \in Accounts, NEW policy \in Policies,
               NEW allowed \in BOOLEAN, SetPolicy(sender, policy, allowed)
        PROVE  TypeOK'
    BY <2>1 DEF SetPolicy, SetPolicyRoots, TypeOK
  <2>2. ASSUME NEW epoch \in Epochs, NEW old \in Roots,
               NEW values \in LeafOutputs, VerifyAndAnchor(epoch, old, values)
        PROVE  TypeOK'
    <3>1. values \in LeafType
      BY LeafOutputFacts
    <3>2. /\ values.epoch \in Epochs
          /\ values.digest \in Digests
          /\ values.new \in Roots
      BY <3>1 DEF LeafType
    <3> QED
      BY <2>2, <3>1, <3>2 DEF VerifyAndAnchor, TypeOK
  <2>3. CASE UNCHANGED vars
    BY <2>3 DEF vars, TypeOK
  <2> QED
    BY <2>1, <2>2, <2>3 DEF Next
<1> QED
  BY <1>1, <1>2, PTL DEF Spec

-----------------------------------------------------------------------------

\* The anchored transitions form one chain from the constructor's root to the
\* current root.
Chained == ChainIn(log, InitialRoot, nullifierRoot)

\* The inductive invariant: the log is a chain of roots from the constructor's
\* root to the current one, and the mappings are written for its epochs.
IInv ==
  /\ TypeOK
  /\ Chained
  /\ OrderedIn(log, nullifierRoot)
  /\ Accounted
  /\ \A i \in DOMAIN log : epochAnchored[log[i].epoch]
  /\ EpochsOnce

LEMMA IInvInit == Init => IInv
<1> SUFFICES ASSUME Init PROVE IInv
  OBVIOUS
<1>1. TypeOK
  BY InitialRootAssumption, ZeroDigestAssumption
     DEF Init, RegistryInit, TypeOK
<1>2. log = <<>> /\ nullifierRoot = InitialRoot
  BY DEF Init
<1>3. Chained /\ OrderedIn(log, nullifierRoot) /\ Accounted
  BY <1>2, EmptyChain DEF Chained, Accounted
<1> QED
  BY <1>1, <1>2, <1>3 DEF IInv, EpochsOnce

\* Anchoring keeps the chain: the contract compares the root the leaf starts
\* from with its own.
LEMMA AnchorKeepsChain ==
  ASSUME IInv, NEW epoch \in Epochs, NEW old \in Roots,
         NEW values \in LeafOutputs, VerifyAndAnchor(epoch, old, values)
  PROVE  Chained' /\ OrderedIn(log, nullifierRoot)' /\ Accounted'
<1>1. /\ log' = Append(log, values)
      /\ nullifierRoot' = values.new
      /\ values.old = nullifierRoot
      /\ values.new # values.old
  BY DEF VerifyAndAnchor, TransitionOk
<1>2. values.old \subseteq values.new
  BY LeafOutputFacts
<1>3. log \in Seq(LeafType)
  BY DEF IInv, TypeOK
<1>4. /\ ChainIn(log, InitialRoot, nullifierRoot)
      /\ OrderedIn(log, nullifierRoot)
      /\ AccountedIn(log, InitialRoot, nullifierRoot)
  BY DEF IInv, Chained, Accounted
<1>5. /\ ChainIn(Append(log, values), InitialRoot, values.new)
      /\ OrderedIn(Append(log, values), values.new)
      /\ AccountedIn(Append(log, values), InitialRoot, values.new)
  BY <1>1, <1>2, <1>3, <1>4, AppendTransition
<1> QED
  BY <1>1, <1>5 DEF Chained, Accounted

\* Anchoring keeps one entry per epoch: the epoch was not anchored before.
LEMMA AnchorKeepsEpochs ==
  ASSUME IInv, NEW epoch \in Epochs, NEW old \in Roots,
         NEW values \in LeafOutputs, VerifyAndAnchor(epoch, old, values)
  PROVE  (\A i \in DOMAIN log : epochAnchored[log[i].epoch])' /\ EpochsOnce'
<1> DEFINE n == Len(log)
<1>1. /\ log \in Seq(LeafType)
      /\ epochAnchored \in [Epochs -> BOOLEAN]
      /\ anchoredEpochs \in [Epochs -> Digests]
  BY DEF IInv, TypeOK
<1>2. /\ log' = Append(log, values)
      /\ epochAnchored' = [epochAnchored EXCEPT ![values.epoch] = TRUE]
      /\ anchoredEpochs' =
           [anchoredEpochs EXCEPT ![values.epoch] = values.digest]
      /\ ~ epochAnchored[values.epoch]
  BY DEF VerifyAndAnchor, TransitionOk, DuplicateEpoch
<1>3. values \in LeafType /\ values.epoch \in Epochs
  BY LeafOutputFacts DEF LeafType
<1>4. /\ DOMAIN log = 1 .. n
      /\ DOMAIN log' = 1 .. (n + 1)
      /\ n \in Nat
      /\ \A i \in 1 .. n : log'[i] = log[i] /\ log[i].epoch \in Epochs
      /\ log'[n + 1] = values
  <2>1. /\ n \in Nat
        /\ DOMAIN log = 1 .. n
        /\ \A i \in 1 .. n : log[i] \in LeafType
    BY <1>1
  <2>2. \A v \in LeafType : v.epoch \in Epochs
    BY DEF LeafType
  <2> QED
    BY <1>1, <1>2, <2>1, <2>2
<1>5. \A i \in 1 .. (n + 1) : i \in 1 .. n \/ i = n + 1
  BY <1>4
<1>6. \A i \in 1 .. n : /\ epochAnchored[log[i].epoch]
                        /\ log[i].epoch # values.epoch
                        /\ anchoredEpochs[log[i].epoch] = log[i].digest
  BY <1>2, <1>4 DEF IInv, EpochsOnce
<1>7. \A i \in DOMAIN log' : epochAnchored'[log'[i].epoch]
  BY <1>1, <1>2, <1>3, <1>4, <1>5, <1>6
<1>8. \A i, j \in DOMAIN log' : i # j => log'[i].epoch # log'[j].epoch
  <2>1. \A i, j \in 1 .. n : i # j => log[i].epoch # log[j].epoch
    BY <1>4 DEF IInv, EpochsOnce
  <2> QED
    BY <1>4, <1>5, <1>6, <2>1
<1>9. \A i \in DOMAIN log' : anchoredEpochs'[log'[i].epoch] = log'[i].digest
  BY <1>1, <1>2, <1>3, <1>4, <1>5, <1>6
<1> QED
  BY <1>7, <1>8, <1>9 DEF EpochsOnce

LEMMA IInvStep == IInv /\ TypeOK' /\ [Next]_vars => IInv'
<1> SUFFICES ASSUME IInv, TypeOK', [Next]_vars
             PROVE  IInv'
  OBVIOUS
<1>1. ASSUME NEW sender \in Accounts, NEW policy \in Policies,
             NEW allowed \in BOOLEAN, SetPolicy(sender, policy, allowed)
      PROVE  IInv'
  BY <1>1 DEF SetPolicy, IInv, Chained, Accounted, EpochsOnce
<1>2. ASSUME NEW epoch \in Epochs, NEW old \in Roots,
             NEW values \in LeafOutputs, VerifyAndAnchor(epoch, old, values)
      PROVE  IInv'
  BY <1>2, AnchorKeepsChain, AnchorKeepsEpochs DEF IInv
<1>3. CASE UNCHANGED vars
  BY <1>3 DEF vars, IInv, Chained, Accounted, EpochsOnce
<1> QED
  BY <1>1, <1>2, <1>3 DEF Next

\* The inductive invariant holds throughout.
THEOREM Invariance == Spec => []IInv
<1>1. Spec => []TypeOK
  BY TypeCorrect
<1> QED
  BY <1>1, IInvInit, IInvStep, PTL DEF Spec

\* No nullifier is spent by two anchored epochs.
THEOREM NoDoubleSpend == Spec => []SpentOnce
<1>1. IInv => SpentOnce
  <2> SUFFICES ASSUME IInv PROVE SpentOnceIn(log)
    BY DEF SpentOnce
  <2>1. log \in Seq(LeafType) /\ OrderedIn(log, nullifierRoot)
    BY DEF IInv, TypeOK
  <2> QED
    BY <2>1, OrderedSpendsOnce
<1> QED
  BY <1>1, Invariance, PTL

\* The current root is the initial one and the anchored nullifiers.
THEOREM RootAccounted == Spec => []Accounted
<1>1. IInv => Accounted
  BY DEF IInv
<1> QED
  BY <1>1, Invariance, PTL

\* An epoch is anchored once, and its digest is never written again.
THEOREM EpochReplay == Spec => []EpochsOnce
<1>1. IInv => EpochsOnce
  BY DEF IInv
<1> QED
  BY <1>1, Invariance, PTL

-----------------------------------------------------------------------------

\* The root only moves away from the roots it had.
THEOREM StaleRoots == Spec => StaleRootsStayStale
<1> DEFINE Left == nullifierRoot' # nullifierRoot =>
                     \A i \in DOMAIN log : nullifierRoot' # log[i].old
<1>1. ASSUME IInv, [Next]_vars
      PROVE  [Left]_vars
  <2>1. ASSUME NEW epoch \in Epochs, NEW old \in Roots,
               NEW values \in LeafOutputs, VerifyAndAnchor(epoch, old, values),
               NEW i \in DOMAIN log
        PROVE  nullifierRoot' # log[i].old
    <3>1. /\ nullifierRoot' = values.new
          /\ values.old = nullifierRoot
          /\ values.new # values.old
      BY <2>1 DEF VerifyAndAnchor, TransitionOk
    <3>2. values.old \subseteq values.new
      BY LeafOutputFacts
    <3>3. log[i].old \subseteq log[i].new /\ log[i].new \subseteq nullifierRoot
      BY <1>1 DEF IInv, Chained, ChainIn, OrderedIn
    <3> QED
      BY <3>1, <3>2, <3>3
  <2>2. ASSUME NEW sender \in Accounts, NEW policy \in Policies,
               NEW allowed \in BOOLEAN, SetPolicy(sender, policy, allowed)
        PROVE  UNCHANGED nullifierRoot
    BY <2>2 DEF SetPolicy
  <2> QED
    BY <1>1, <2>1, <2>2 DEF Next, vars
<1> QED
  BY <1>1, Invariance, PTL DEF StaleRootsStayStale, Spec

-----------------------------------------------------------------------------

\* Every step of the contract is a step of the ledger or leaves it alone.
LEMMA LedgerStep ==
  ASSUME TypeOK, [Next]_vars
  PROVE  [Ledger!Next]_<<nullifierRoot, {e \in Epochs : epochAnchored[e]}>>
<1>1. ASSUME NEW sender \in Accounts, NEW policy \in Policies,
             NEW allowed \in BOOLEAN, SetPolicy(sender, policy, allowed)
      PROVE  UNCHANGED <<nullifierRoot, epochAnchored>>
  BY <1>1 DEF SetPolicy
<1>2. ASSUME NEW epoch \in Epochs, NEW old \in Roots,
             NEW values \in LeafOutputs, VerifyAndAnchor(epoch, old, values)
      PROVE  Ledger!Enter(values.epoch, {values.nullifier})
  <2>1. /\ values.nullifier \notin nullifierRoot
        /\ nullifierRoot' = nullifierRoot \cup {values.nullifier}
        /\ ~ epochAnchored[values.epoch]
        /\ epochAnchored' = [epochAnchored EXCEPT ![values.epoch] = TRUE]
    BY <1>2, LeafOutputFacts DEF VerifyAndAnchor, TransitionOk, DuplicateEpoch
  <2>2. values.epoch \in Epochs
    BY LeafOutputFacts DEF LeafType
  <2>3. {e \in Epochs : epochAnchored'[e]}
          = {e \in Epochs : epochAnchored[e]} \cup {values.epoch}
    BY <2>1, <2>2 DEF TypeOK
  <2> QED
    BY <2>1, <2>3 DEF Ledger!Enter
<1>3. \A values \in LeafOutputs :
        values.epoch \in Epochs /\ {values.nullifier} \in SUBSET Nullifiers
  BY LeafOutputFacts DEF LeafType
<1> QED
  BY <1>1, <1>2, <1>3 DEF Next, vars, Ledger!Next

\* The contract implements the ledger of spent nullifiers.
THEOREM Refinement == Spec => ImplementsLedger
<1>1. Init => Ledger!Init
  BY DEF Init, Ledger!Init
<1> QED
  BY <1>1, TypeCorrect, LedgerStep, PTL DEF Spec, ImplementsLedger, Ledger!Spec

-----------------------------------------------------------------------------
(* The issuer, and the issuer with the contract.                             *)


\* Some lots, each with a key.
Owners == UNION {[lots -> Keys] : lots \in SUBSET Lots}

\* A binding of a lot that no restart has forgotten is one the issuer has.
Backs(owners, binding, lost) ==
  \/ binding[1] \in lost
  \/ binding[1] \in DOMAIN owners /\ owners[binding[1]] = binding[2]

\* The inductive invariant of the issuer: what was issued, and what is in the
\* written catalog, is what the issuer remembers, lots forgotten apart.
IssuerInv ==
  /\ ownership \in Owners
  /\ catalog.rows \subseteq Nullifiers
  /\ \A s \in issued : s.cert \subseteq Nullifiers
  /\ \A s \in issued : \A binding \in s.cert : Backs(ownership, binding, forgotten)
  /\ \A row \in catalog.rows : Backs(ownership, row, forgotten)

\* What snapshot proposes: the old bindings and those asked for.
LEMMA ProposedFacts ==
  ASSUME NEW owners \in Owners, NEW request \in Requests,
         Certifiable(owners, request.credentials)
  PROVE  LET proposed == Proposed(owners, request.credentials)
         IN  /\ proposed \in Owners
             /\ \A lot \in DOMAIN owners :
                  lot \in DOMAIN proposed /\ proposed[lot] = owners[lot]
             /\ SnapshotOf(request).cert \subseteq Nullifiers
             /\ \A binding \in SnapshotOf(request).cert :
                  /\ binding[1] \in DOMAIN proposed
                  /\ proposed[binding[1]] = binding[2]
<1> DEFINE credentials == request.credentials
           proposed == Proposed(owners, credentials)
           asked == {credentials[i].lot : i \in DOMAIN credentials}
           of(lot) == CHOOSE i \in DOMAIN credentials : credentials[i].lot = lot
<1>1. \A i \in DOMAIN credentials :
        credentials[i].lot \in Lots /\ credentials[i].key \in Keys
  <2>1. credentials \in Seq(CredentialType)
    BY IssuerAssumption DEF RequestType
  <2>2. \A i \in DOMAIN credentials : credentials[i] \in CredentialType
    BY <2>1
  <2> QED
    BY <2>2 DEF CredentialType
<1>2. \A lot \in asked : of(lot) \in DOMAIN credentials /\ credentials[of(lot)].lot = lot
  OBVIOUS
<1>3. proposed = [lot \in DOMAIN owners \cup asked |->
                    IF lot \in DOMAIN owners THEN owners[lot]
                                             ELSE credentials[of(lot)].key]
  BY DEF Proposed
<1>4. DOMAIN owners \subseteq Lots /\ \A lot \in DOMAIN owners : owners[lot] \in Keys
  BY DEF Owners
<1> HIDE DEF proposed, of
<1>5. proposed \in Owners
  <2>1. DOMAIN owners \cup asked \in SUBSET Lots
    BY <1>1, <1>4
  <2>2. proposed \in [DOMAIN owners \cup asked -> Keys]
    BY <1>1, <1>2, <1>3, <1>4
  <2> QED
    BY <2>1, <2>2 DEF Owners
<1>6. ASSUME NEW i \in DOMAIN credentials
      PROVE  /\ credentials[i].lot \in DOMAIN proposed
             /\ proposed[credentials[i].lot] = credentials[i].key
  BY <1>2, <1>3 DEF Certifiable, Agrees
<1>7. SnapshotOf(request).cert
        = {<<credentials[i].lot, credentials[i].key>> : i \in DOMAIN credentials}
  BY DEF SnapshotOf
<1>8. SnapshotOf(request).cert \subseteq Nullifiers
  BY <1>1, <1>7 DEF Nullifiers
<1>9. \A lot \in DOMAIN owners : lot \in DOMAIN proposed /\ proposed[lot] = owners[lot]
  BY <1>3
<1>10. ASSUME NEW binding \in SnapshotOf(request).cert
       PROVE  binding[1] \in DOMAIN proposed /\ proposed[binding[1]] = binding[2]
  <2>1. PICK i \in DOMAIN credentials :
          binding = <<credentials[i].lot, credentials[i].key>>
    BY <1>7
  <2>2. binding[1] = credentials[i].lot /\ binding[2] = credentials[i].key
    BY <2>1
  <2> QED
    BY <1>6, <2>2
<1> QED
  BY <1>5, <1>8, <1>9, <1>10 DEF proposed

\* A catalog gives back a binding for each of its lots, one it holds.
LEMMA DecodeFacts ==
  ASSUME NEW bytes, bytes.rows \subseteq Nullifiers
  PROVE  /\ Decode(bytes) \in Owners
         /\ \A lot \in DOMAIN Decode(bytes) : <<lot, Decode(bytes)[lot]>> \in bytes.rows
         /\ Decodes(bytes) => \A row \in bytes.rows :
              row[1] \in DOMAIN Decode(bytes) /\ Decode(bytes)[row[1]] = row[2]
<1> DEFINE lots == {row[1] : row \in bytes.rows}
           at(lot) == CHOOSE row \in bytes.rows : row[1] = lot
<1>1. \A row \in bytes.rows : row[1] \in Lots /\ row[2] \in Keys /\ row = <<row[1], row[2]>>
  BY DEF Nullifiers
<1>2. \A lot \in lots : at(lot) \in bytes.rows /\ at(lot)[1] = lot
  OBVIOUS
<1>3. Decode(bytes) = [lot \in lots |-> at(lot)[2]]
  BY DEF Decode
<1> HIDE DEF at
<1>4. lots \in SUBSET Lots /\ Decode(bytes) \in [lots -> Keys]
  BY <1>1, <1>2, <1>3
<1>5. Decode(bytes) \in Owners
  BY <1>4 DEF Owners
<1>6. \A lot \in lots : <<lot, at(lot)[2]>> = at(lot)
  BY <1>1, <1>2
<1>7. Decodes(bytes) => \A row \in bytes.rows : at(row[1]) = row
  BY <1>2 DEF Decodes
<1> QED
  BY <1>2, <1>3, <1>5, <1>6, <1>7

LEMMA IssuerInvInit == IssuerInit => IssuerInv
<1> SUFFICES ASSUME IssuerInit PROVE IssuerInv
  OBVIOUS
<1>1. DOMAIN NoOwners = {} /\ NoOwners \in [{} -> Keys]
  BY DEF NoOwners
<1>2. NoOwners \in Owners
  BY <1>1 DEF Owners
<1>3. catalog.rows = {}
  BY <1>1 DEF IssuerInit, Encode
<1> QED
  BY <1>2, <1>3 DEF IssuerInit, IssuerInv

\* Each step of the issuer keeps the invariant: a snapshot agrees with what is
\* owned, a save writes it, and what a restart drops is forgotten.
LEMMA IssuerInvStep ==
  ASSUME IssuerInv, [IssuerNext]_issuerVars
  PROVE  IssuerInv'
<1>1. ASSUME NEW request \in Requests, Snapshot(request)
      PROVE  IssuerInv'
  <2>1. /\ Certifiable(ownership, request.credentials)
        /\ ownership' = Proposed(ownership, request.credentials)
        /\ issued' = issued \cup {SnapshotOf(request)}
        /\ UNCHANGED <<catalog, forgotten>>
    BY <1>1 DEF Snapshot
  <2>2. /\ ownership' \in Owners
        /\ \A lot \in DOMAIN ownership :
             lot \in DOMAIN ownership' /\ ownership'[lot] = ownership[lot]
        /\ SnapshotOf(request).cert \subseteq Nullifiers
        /\ \A binding \in SnapshotOf(request).cert :
             binding[1] \in DOMAIN ownership' /\ ownership'[binding[1]] = binding[2]
    BY <2>1, ProposedFacts DEF IssuerInv
  <2> QED
    BY <2>1, <2>2 DEF IssuerInv, Backs
<1>2. CASE Save
  <2>1. DOMAIN ownership \subseteq Lots /\ \A lot \in DOMAIN ownership : ownership[lot] \in Keys
    BY DEF IssuerInv, Owners
  <2>2. catalog'.rows = {<<lot, ownership[lot]>> : lot \in DOMAIN ownership}
    BY <1>2 DEF Save, Encode
  <2>3. catalog'.rows \subseteq Nullifiers
    BY <2>1, <2>2 DEF Nullifiers
  <2> QED
    BY <1>2, <2>2, <2>3 DEF Save, IssuerInv, Backs
<1>3. CASE Restart
  <2>1. /\ Decodes(catalog)
        /\ ownership' = Decode(catalog)
        /\ forgotten' = forgotten \cup (DOMAIN ownership \ DOMAIN ownership')
        /\ UNCHANGED <<catalog, issued>>
    BY <1>3 DEF Restart
  <2>2. /\ ownership' \in Owners
        /\ \A lot \in DOMAIN ownership' : <<lot, ownership'[lot]>> \in catalog.rows
        /\ \A row \in catalog.rows :
             row[1] \in DOMAIN ownership' /\ ownership'[row[1]] = row[2]
    BY <2>1, DecodeFacts DEF IssuerInv
  <2>3. ASSUME NEW binding, Backs(ownership, binding, forgotten)
        PROVE  Backs(ownership', binding, forgotten')
    <3> SUFFICES ASSUME binding[1] \notin forgotten'
                 PROVE  /\ binding[1] \in DOMAIN ownership'
                        /\ ownership'[binding[1]] = binding[2]
      BY DEF Backs
    <3>1. binding[1] \in DOMAIN ownership /\ ownership[binding[1]] = binding[2]
      BY <2>1, <2>3 DEF Backs
    <3>2. binding[1] \in DOMAIN ownership'
      BY <2>1, <3>1
    <3>3. Backs(ownership, <<binding[1], ownership'[binding[1]]>>, forgotten)
      BY <2>2, <3>2 DEF IssuerInv
    <3> QED
      BY <2>1, <3>1, <3>2, <3>3 DEF Backs
  <2> QED
    BY <2>1, <2>2, <2>3 DEF IssuerInv
<1>4. CASE UNCHANGED issuerVars
  BY <1>4 DEF issuerVars, IssuerInv
<1> QED
  BY <1>1, <1>2, <1>3, <1>4 DEF IssuerNext

-----------------------------------------------------------------------------

\* A step of the composition is a step of the contract and one of the issuer.
LEMMA IssuedStep ==
  ASSUME [IssuedNext]_issuedVars
  PROVE  [Next]_vars /\ [IssuerNext]_issuerVars
<1>1. ASSUME NEW sender \in Accounts, NEW policy \in Policies,
             NEW allowed \in BOOLEAN, SetIssued(sender, policy, allowed)
      PROVE  Next /\ UNCHANGED issuerVars
  BY <1>1 DEF SetIssued, Next
<1>2. ASSUME NEW values \in LeafOutputs, AnchorLeaf(values)
      PROVE  Next /\ UNCHANGED issuerVars
  BY <1>2, LeafOutputFacts DEF AnchorLeaf, Next, LeafType
<1>3. CASE Issue
  BY <1>3 DEF Issue
<1>4. CASE UNCHANGED issuedVars
  BY <1>4 DEF issuedVars, issuerVars, vars
<1> QED
  BY <1>1, <1>2, <1>3, <1>4 DEF IssuedNext

\* What IssuedLots shows of the contract and the issuer together: the allowed
\* pairs were issued, and so was the pair of every anchored leaf, which
\* certifies its nullifier.
CertifiedInv ==
  /\ allowedPolicies \subseteq issued
  /\ log \in Seq(LeafType)
  /\ \A i \in DOMAIN log :
       /\ log[i].policy \in issued
       /\ log[i].nullifier \in log[i].policy.cert
       /\ log[i].nullifier \in Nullifiers
       /\ log[i].nullifier \in Spent(log[i])

\* A leaf output certifies the nullifier it spends.
LEMMA LeafCertified ==
  ASSUME NEW v \in LeafOutputs
  PROVE  /\ v \in LeafType
         /\ v.nullifier \in v.policy.cert
         /\ v.nullifier \in Nullifiers
         /\ v.nullifier \in Spent(v)
<1>1. PICK batch \in Batches, key \in Keys, old \in Roots, policy \in Policies :
        /\ Evaluates(batch, key, old, policy)
        /\ v = PolicyPublicValues(batch, key, old, policy)
  BY DEF LeafOutputs
<1>2. v.nullifier \in v.policy.cert
  BY <1>1 DEF Evaluates, PolicyPublicValues
<1> QED
  BY <1>2, LeafOutputFacts DEF LeafType, Spent

LEMMA CertifiedStep ==
  ASSUME CertifiedInv, [IssuedNext]_issuedVars
  PROVE  CertifiedInv'
<1>1. ASSUME NEW sender \in Accounts, NEW policy \in Policies,
             NEW allowed \in BOOLEAN, SetIssued(sender, policy, allowed)
      PROVE  CertifiedInv'
  BY <1>1 DEF SetIssued, SetPolicy, SetPolicyRoots, issuerVars, CertifiedInv
<1>2. ASSUME NEW values \in LeafOutputs, AnchorLeaf(values)
      PROVE  CertifiedInv'
  <2>1. /\ values.policy \in allowedPolicies
        /\ log' = Append(log, values)
        /\ UNCHANGED <<allowedPolicies, issued>>
    BY <1>2 DEF AnchorLeaf, VerifyAndAnchor, issuerVars
  <2>2. /\ log' \in Seq(LeafType)
        /\ \A i \in DOMAIN log' : (i \in DOMAIN log /\ log'[i] = log[i]) \/ log'[i] = values
    BY <2>1, LeafCertified DEF CertifiedInv
  <2> QED
    BY <2>1, <2>2, LeafCertified DEF CertifiedInv
<1>3. CASE Issue
  <2>1. issued \subseteq issued'
    BY <1>3 DEF Issue, IssuerNext, Snapshot, Save, Restart
  <2> QED
    BY <1>3, <2>1 DEF Issue, vars, CertifiedInv
<1>4. CASE UNCHANGED issuedVars
  BY <1>4 DEF issuedVars, CertifiedInv
<1> QED
  BY <1>1, <1>2, <1>3, <1>4 DEF IssuedNext

\* Whatever is saved and restarted, snapshots agree on the key of a lot.
THEOREM OneKeyPerLot == IssuedSpec => []IssuedAgree
<1>1. IssuedInit => IssuerInv
  BY IssuerInvInit DEF IssuedInit
<1>2. IssuerInv /\ [IssuedNext]_issuedVars => IssuerInv'
  BY IssuedStep, IssuerInvStep
<1>3. IssuerInv => IssuedAgree
  <2> SUFFICES ASSUME IssuerInv, NEW s \in issued, NEW t \in issued,
                      NEW lot \in Lots \ forgotten, NEW k \in Keys, NEW l \in Keys,
                      <<lot, k>> \in s.cert, <<lot, l>> \in t.cert
               PROVE  k = l
    BY DEF IssuedAgree
  <2>1. Backs(ownership, <<lot, k>>, forgotten) /\ Backs(ownership, <<lot, l>>, forgotten)
    BY DEF IssuerInv
  <2> QED
    BY <2>1 DEF Backs
<1> QED
  BY <1>1, <1>2, <1>3, PTL DEF IssuedSpec

\* A lot is anchored once, whatever proofs are made of it: the issuer gives it
\* one nullifier and the contract spends that once.
THEOREM OneAnchorPerLot == IssuedSpec => []LotsAnchoredOnce
<1>1. IssuedSpec => []SpentOnce
  <2>1. IssuedInit => Init
    BY DEF IssuedInit
  <2>2. [IssuedNext]_issuedVars => [Next]_vars
    BY IssuedStep
  <2>3. IssuedSpec => Spec
    BY <2>1, <2>2, PTL DEF IssuedSpec, Spec
  <2> QED
    BY <2>3, NoDoubleSpend, PTL
<1>2. IssuedInit => CertifiedInv
  BY DEF IssuedInit, Init, RegistryInit, IssuerInit, CertifiedInv
<1>3. CertifiedInv /\ [IssuedNext]_issuedVars => CertifiedInv'
  BY CertifiedStep
<1>4. CertifiedInv /\ SpentOnce /\ IssuedAgree => LotsAnchoredOnce
  <2> SUFFICES ASSUME CertifiedInv, SpentOnce, IssuedAgree,
                      NEW i \in DOMAIN log, NEW j \in DOMAIN log, i # j,
                      log[i].nullifier[1] = log[j].nullifier[1],
                      log[i].nullifier[1] \notin forgotten
               PROVE  FALSE
    BY DEF LotsAnchoredOnce
  <2>1. PICK lot \in Lots, k \in Keys : log[i].nullifier = <<lot, k>>
    BY DEF CertifiedInv, Nullifiers
  <2>2. PICK other \in Lots, l \in Keys : log[j].nullifier = <<other, l>>
    BY DEF CertifiedInv, Nullifiers
  <2>3. other = lot /\ lot \in Lots \ forgotten
    BY <2>1, <2>2
  <2>4. k = l
    <3>1. <<lot, k>> \in log[i].policy.cert /\ log[i].policy \in issued
      BY <2>1 DEF CertifiedInv
    <3>2. <<lot, l>> \in log[j].policy.cert /\ log[j].policy \in issued
      BY <2>2, <2>3 DEF CertifiedInv
    <3> QED
      BY <2>3, <3>1, <3>2 DEF IssuedAgree
  <2>5. log[i].nullifier \in Spent(log[i]) \cap Spent(log[j])
    BY <2>1, <2>2, <2>3, <2>4 DEF CertifiedInv
  <2> QED
    BY <2>5 DEF SpentOnce, SpentOnceIn
<1> QED
  BY <1>1, <1>2, <1>3, <1>4, OneKeyPerLot, PTL DEF IssuedSpec

-----------------------------------------------------------------------------

\* No two rows are of the same lot.
OneRowPerLot(rows) == \A row, other \in rows : row[1] = other[1] => row = other

\* A set of at most MaxEntries elements.
Small(set) == IsFiniteSet(set) /\ Cardinality(set) <= MaxEntries

\* Why what the issuer remembers can be trusted and read back.  The catalog has
\* to be part of it: after a restart it is where all bindings come from, and
\* the limit was checked only when its rows were still bindings.
KeptInv ==
  /\ \A lot \in DOMAIN ownership : \E s \in issued : <<lot, ownership[lot]>> \in s.cert
  /\ \A row \in catalog.rows : \E s \in issued : row \in s.cert
  /\ catalog.version = 2
  /\ OneRowPerLot(catalog.rows)
  /\ Small(DOMAIN ownership)
  /\ Small(catalog.rows)

\* encode_catalog writes one row for each lot: no more, no fewer.
LEMMA EncodeFacts ==
  ASSUME NEW owners, Small(DOMAIN owners)
  PROVE  /\ Encode(owners).version = 2
         /\ Encode(owners).rows = {<<lot, owners[lot]>> : lot \in DOMAIN owners}
         /\ OneRowPerLot(Encode(owners).rows)
         /\ Small(Encode(owners).rows)
<1> DEFINE lots == DOMAIN owners
           rows == Encode(owners).rows
           rowOf == [lot \in lots |-> <<lot, owners[lot]>>]
<1>1. Encode(owners).version = 2 /\ rows = {<<lot, owners[lot]>> : lot \in lots}
  BY DEF Encode
<1> HIDE DEF rows
<1>2. rowOf \in Surjection(lots, rows)
  BY <1>1 DEF Surjection
<1>3. IsFiniteSet(rows) /\ Cardinality(rows) <= Cardinality(lots)
  BY <1>2, FS_Surjection DEF Small
<1>4. Small(rows)
  <2>1. Cardinality(rows) \in Nat /\ Cardinality(lots) \in Nat
    BY <1>3, FS_CardinalityType DEF Small
  <2> QED
    BY <1>3, <2>1, IssuerAssumption DEF Small
<1>5. OneRowPerLot(rows)
  BY <1>1 DEF OneRowPerLot
<1> QED
  BY <1>1, <1>4, <1>5 DEF rows

\* decode_catalog takes no more lots than there are rows.
LEMMA DecodeSmall ==
  ASSUME NEW bytes, Small(bytes.rows)
  PROVE  Small(DOMAIN Decode(bytes))
<1> DEFINE rows == bytes.rows
           lots == {row[1] : row \in rows}
           lotOf == [row \in rows |-> row[1]]
<1>1. DOMAIN Decode(bytes) = lots
  BY DEF Decode
<1>2. lotOf \in Surjection(rows, lots)
  BY DEF Surjection
<1>3. IsFiniteSet(lots) /\ Cardinality(lots) <= Cardinality(rows)
  BY <1>2, FS_Surjection DEF Small
<1>4. Cardinality(rows) \in Nat /\ Cardinality(lots) \in Nat
  BY <1>3, FS_CardinalityType DEF Small
<1> QED
  BY <1>1, <1>3, <1>4, IssuerAssumption DEF Small

\* A snapshot proposes finitely many lots, and binds a lot that is new to it as
\* its root pair certifies.
LEMMA ProposedBacked ==
  ASSUME NEW owners, IsFiniteSet(DOMAIN owners), NEW request \in Requests
  PROVE  LET proposed == Proposed(owners, request.credentials)
         IN  /\ IsFiniteSet(DOMAIN proposed)
             /\ \A lot \in DOMAIN proposed :
                  \/ lot \in DOMAIN owners /\ proposed[lot] = owners[lot]
                  \/ <<lot, proposed[lot]>> \in SnapshotOf(request).cert
<1> DEFINE credentials == request.credentials
           proposed == Proposed(owners, credentials)
           asked == {credentials[i].lot : i \in DOMAIN credentials}
           of(lot) == CHOOSE i \in DOMAIN credentials : credentials[i].lot = lot
           lotAt == [i \in DOMAIN credentials |-> credentials[i].lot]
<1>1. proposed = [lot \in DOMAIN owners \cup asked |->
                    IF lot \in DOMAIN owners THEN owners[lot]
                                             ELSE credentials[of(lot)].key]
  BY DEF Proposed
<1>2. IsFiniteSet(DOMAIN credentials)
  <2>1. credentials \in Seq(CredentialType)
    BY IssuerAssumption DEF RequestType
  <2>2. Len(credentials) \in Nat /\ DOMAIN credentials = 1..Len(credentials)
    BY <2>1
  <2> QED
    BY <2>2, FS_Interval
<1>3. IsFiniteSet(asked)
  <2>1. lotAt \in Surjection(DOMAIN credentials, asked)
    BY DEF Surjection
  <2> QED
    BY <1>2, <2>1, FS_Surjection
<1>4. IsFiniteSet(DOMAIN proposed)
  <2>1. DOMAIN proposed = DOMAIN owners \cup asked
    BY <1>1
  <2> HIDE DEF proposed, asked
  <2> QED
    BY <1>3, <2>1, FS_Union
<1>5. \A lot \in asked : of(lot) \in DOMAIN credentials /\ credentials[of(lot)].lot = lot
  OBVIOUS
<1>6. SnapshotOf(request).cert
        = {<<credentials[i].lot, credentials[i].key>> : i \in DOMAIN credentials}
  BY DEF SnapshotOf
<1> HIDE DEF of, proposed
<1>7. ASSUME NEW lot \in asked
      PROVE  <<lot, credentials[of(lot)].key>> \in SnapshotOf(request).cert
  BY <1>5, <1>6
<1> QED
  BY <1>1, <1>4, <1>7 DEF proposed

LEMMA KeptInvInit == IssuerInit => KeptInv
<1> SUFFICES ASSUME IssuerInit PROVE KeptInv
  OBVIOUS
<1>1. DOMAIN NoOwners = {}
  BY DEF NoOwners
<1>2. Small({})
  BY FS_EmptySet, IssuerAssumption DEF Small
<1>3. catalog.rows = {} /\ catalog.version = 2
  BY <1>1 DEF IssuerInit, Encode
<1> QED
  BY <1>1, <1>2, <1>3 DEF IssuerInit, KeptInv, OneRowPerLot

\* Each step of the issuer keeps the invariant: a snapshot issues what it binds,
\* within the limit; a save writes one row for each binding; a restart reads
\* one binding from each row.
LEMMA KeptInvStep ==
  ASSUME IssuerInv, KeptInv, [IssuerNext]_issuerVars
  PROVE  KeptInv'
<1>1. ASSUME NEW request \in Requests, Snapshot(request)
      PROVE  KeptInv'
  <2>1. /\ WithinLimit(ownership')
        /\ ownership' = Proposed(ownership, request.credentials)
        /\ issued' = issued \cup {SnapshotOf(request)}
        /\ catalog' = catalog
    BY <1>1 DEF Snapshot
  <2>2. /\ IsFiniteSet(DOMAIN ownership')
        /\ \A lot \in DOMAIN ownership' :
             \/ lot \in DOMAIN ownership /\ ownership'[lot] = ownership[lot]
             \/ <<lot, ownership'[lot]>> \in SnapshotOf(request).cert
    BY <2>1, ProposedBacked DEF KeptInv, Small
  <2>3. Small(DOMAIN ownership')
    BY <2>1, <2>2 DEF WithinLimit, Small
  <2>4. \A lot \in DOMAIN ownership' : \E s \in issued' : <<lot, ownership'[lot]>> \in s.cert
    BY <2>1, <2>2 DEF KeptInv
  <2> QED
    BY <2>1, <2>3, <2>4 DEF KeptInv
<1>2. CASE Save
  <2>1. catalog' = Encode(ownership) /\ UNCHANGED <<ownership, issued>>
    BY <1>2 DEF Save
  <2>2. /\ catalog'.version = 2
        /\ catalog'.rows = {<<lot, ownership[lot]>> : lot \in DOMAIN ownership}
        /\ OneRowPerLot(catalog'.rows)
        /\ Small(catalog'.rows)
    BY <2>1, EncodeFacts DEF KeptInv
  <2> QED
    BY <2>1, <2>2 DEF KeptInv
<1>3. CASE Restart
  <2>1. ownership' = Decode(catalog) /\ UNCHANGED <<catalog, issued>>
    BY <1>3 DEF Restart
  <2>2. Small(DOMAIN ownership')
    BY <2>1, DecodeSmall DEF KeptInv
  <2>3. \A lot \in DOMAIN ownership' : <<lot, ownership'[lot]>> \in catalog.rows
    BY <2>1, DecodeFacts DEF IssuerInv
  <2> QED
    BY <2>1, <2>2, <2>3 DEF KeptInv
<1>4. CASE UNCHANGED issuerVars
  BY <1>4 DEF issuerVars, KeptInv
<1> QED
  BY <1>1, <1>2, <1>3, <1>4 DEF IssuerNext

\* What the two invariants say, together, of every state.
LEMMA IssuerKeeps == IssuedSpec => [](IssuerInv /\ KeptInv)
<1>1. IssuedInit => IssuerInv /\ KeptInv
  BY IssuerInvInit, KeptInvInit DEF IssuedInit
<1>2. IssuerInv /\ KeptInv /\ [IssuedNext]_issuedVars => (IssuerInv /\ KeptInv)'
  <2> SUFFICES ASSUME IssuerInv, KeptInv, [IssuedNext]_issuedVars
               PROVE  IssuerInv' /\ KeptInv'
    OBVIOUS
  <2>1. [IssuerNext]_issuerVars
    BY IssuedStep
  <2>2. IssuerInv'
    BY <2>1, IssuerInvStep
  <2>3. KeptInv'
    BY <2>1, KeptInvStep
  <2> QED
    BY <2>2, <2>3
<1> QED
  BY <1>1, <1>2, PTL DEF IssuedSpec

\* A binding, restarts or not, comes from a snapshot that was returned: a
\* refused request blocks nobody.
THEOREM BindingsWereIssued == IssuedSpec => []BackedBySnapshot
<1>1. KeptInv => BackedBySnapshot
  BY DEF KeptInv, BackedBySnapshot
<1> QED
  BY <1>1, IssuerKeeps, PTL

\* What encode_catalog writes, decode_catalog accepts, whenever it is written
\* and read.
THEOREM CatalogReadsBack == IssuedSpec => []Restorable
<1>1. ASSUME NEW bytes, bytes.version = 2, OneRowPerLot(bytes.rows), Small(bytes.rows)
      PROVE  Decodes(bytes)
  BY <1>1 DEF Decodes, OneRowPerLot, Small
<1>2. KeptInv => Restorable
  <2> SUFFICES ASSUME KeptInv
               PROVE  Decodes(catalog) /\ Decodes(Encode(ownership))
    BY DEF Restorable
  <2>1. Decodes(catalog)
    BY <1>1 DEF KeptInv
  <2>2. Decodes(Encode(ownership))
    BY <1>1, EncodeFacts DEF KeptInv
  <2> QED
    BY <2>1, <2>2
<1> QED
  BY <1>2, IssuerKeeps, PTL

=============================================================================
