--------------------------- MODULE PolicyRegistry ---------------------------
(***************************************************************************)
(* contracts/PolicyRegistry.sol: the owner of the registry approves and    *)
(* revokes exact root pairs.  Every anchor contract reads it in the        *)
(* transaction that anchors.                                               *)
(***************************************************************************)
EXTENDS PolicyLeaf

CONSTANTS
  Accounts,  \* transaction senders
  Owner      \* the account that deployed the registry

ASSUME OwnerAssumption == Owner \in Accounts

VARIABLE allowedPolicies  \* the pairs mapped to true

RegistryInit == allowedPolicies = {}

\* Mutant: the certificate root is dropped from the key.
SetPolygonOnly(sender, policy, allowed) ==
  LET key == [policy EXCEPT !.cert = {}] IN
  /\ sender = Owner
  /\ allowedPolicies' = IF allowed THEN allowedPolicies \cup {key}
                                   ELSE allowedPolicies \ {key}

\* setPolicyRoots(certificateRoot, polygonCommitment, allowed), which reverts
\* for anyone but the owner.
SetPolicyRoots(sender, policy, allowed) ==
  /\ sender = Owner
  /\ allowedPolicies' = IF allowed THEN allowedPolicies \cup {policy}
                                   ELSE allowedPolicies \ {policy}

=============================================================================
