----------------------------- MODULE IssuedLots -----------------------------
(***************************************************************************)
(* EpochAnchor under a registry that allows the root pairs of the issuer's *)
(* snapshots only, as policy_manifest.py and the start of the anchor       *)
(* server set it up.  The contract spends each nullifier once; that a lot  *)
(* has only one nullifier is up to the issuer.                             *)
(***************************************************************************)
EXTENDS EpochAnchor, IssuerRegistry

issuedVars ==
  <<allowedPolicies, nullifierRoot, epochAnchored, anchoredEpochs, log,
    ownership, catalog, issued, forgotten>>

IssuedInit == Init /\ IssuerInit

\* The owner of the registry allows what was issued, and may revoke it.
SetIssued(sender, policy, allowed) ==
  /\ allowed => policy \in issued
  /\ SetPolicy(sender, policy, allowed)
  /\ UNCHANGED issuerVars

\* Anybody submits a leaf, with the expectations that do not revert at once.
AnchorLeaf(values) ==
  /\ VerifyAndAnchor(values.epoch, values.old, values)
  /\ UNCHANGED issuerVars

Issue == IssuerNext /\ UNCHANGED vars

IssuedNext ==
  \/ \E sender \in Accounts, policy \in Policies, allowed \in BOOLEAN :
       SetIssued(sender, policy, allowed)
  \/ \E values \in LeafOutputs : AnchorLeaf(values)
  \/ Issue

IssuedSpec == IssuedInit /\ [][IssuedNext]_issuedVars

\* A lot is anchored at most once, in whichever epoch and under whichever of
\* the issued snapshots, unless a restart has forgotten its owner.
LotsAnchoredOnce ==
  \A i, j \in DOMAIN log :
    /\ i # j
    /\ log[i].nullifier[1] = log[j].nullifier[1]
    => log[i].nullifier[1] \in forgotten

=============================================================================
