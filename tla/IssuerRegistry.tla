--------------------------- MODULE IssuerRegistry ---------------------------
(***************************************************************************)
(* policy/src/registry.rs: the issuer binds every lot to one identity (an  *)
(* owner and a key commitment) before it certifies it, and keeps these     *)
(* bindings in a catalog that outlives it.  Nobody but the caller decides  *)
(* when the catalog is written and from which catalog an issuer starts.    *)
(***************************************************************************)
EXTENDS PolicyLeaf, Sequences, FiniteSets

CONSTANTS
  Requests,   \* the snapshots asked for, see RequestType
  MaxEntries  \* limit of the catalog, 65536 in the code

\* A credential: its slot in the tree, its lot, the key its owner committed to,
\* and whether its event's point is a valid one.  The owner identity belongs to
\* the key.  A polygon that validate_polygon refuses is not in Polygons.
CredentialType == [index : Nat, lot : Lots, key : Keys, valid : BOOLEAN]
RequestType == [credentials : Seq(CredentialType), polygon : STRING]

ASSUME IssuerAssumption ==
  /\ Requests \subseteq RequestType
  /\ MaxEntries \in Nat

VARIABLES
  ownership,  \* of the running issuer: lot |-> key, for some lots
  catalog,    \* the bytes of the last catalog written
  issued,     \* every snapshot returned so far, as a root pair
  forgotten   \* lots whose owner a restart has dropped (for the properties)

issuerVars == <<ownership, catalog, issued, forgotten>>

\* encode_catalog: sorted by lot, so the bytes stand for the set of entries.
Encode(owners) ==
  [version |-> 2, rows |-> {<<lot, owners[lot]>> : lot \in DOMAIN owners}]

\* What decode_catalog requires of the bytes.
Decodes(bytes) ==
  /\ bytes.version = 2
  /\ Cardinality(bytes.rows) <= MaxEntries
  /\ \A row, other \in bytes.rows : row[1] = other[1] => row = other

\* What it makes of them.
Decode(bytes) ==
  [lot \in {row[1] : row \in bytes.rows} |->
     (CHOOSE row \in bytes.rows : row[1] = lot)[2]]

NoOwners == [lot \in {} |-> 0]

\* RegistryIssuer::default().
IssuerInit ==
  /\ ownership = NoOwners
  /\ catalog = Encode(NoOwners)
  /\ issued = {}
  /\ forgotten = {}

\* Mutant: a credential is compared with what was owned before the request.
AgreesWithOwned(owners, credentials) ==
  \A i \in DOMAIN credentials :
    credentials[i].lot \in DOMAIN owners => owners[credentials[i].lot] = credentials[i].key

\* Mutant: a lot may be bound again in a later request.
AgreesInRequest(owners, credentials) ==
  \A i, j \in DOMAIN credentials :
    credentials[i].lot = credentials[j].lot => credentials[i].key = credentials[j].key

\* No lot has another owner, in the catalog or earlier in the request.
Agrees(owners, credentials) ==
  /\ \A i \in DOMAIN credentials :
       credentials[i].lot \in DOMAIN owners => owners[credentials[i].lot] = credentials[i].key
  /\ \A i, j \in DOMAIN credentials :
       credentials[i].lot = credentials[j].lot => credentials[i].key = credentials[j].key

\* What the loop of snapshot lets pass.
Certifiable(owners, credentials) ==
  /\ \A i \in DOMAIN credentials : credentials[i].valid
  /\ \A i, j \in DOMAIN credentials : i # j => credentials[i].index # credentials[j].index
  /\ Agrees(owners, credentials)

\* The ownership it proposes.
Proposed(owners, credentials) ==
  LET asked == {credentials[i].lot : i \in DOMAIN credentials}
      of(lot) == CHOOSE i \in DOMAIN credentials : credentials[i].lot = lot
  IN  [lot \in DOMAIN owners \cup asked |->
         IF lot \in DOMAIN owners THEN owners[lot] ELSE credentials[of(lot)].key]

\* The snapshot's root pair.
SnapshotOf(request) ==
  [cert |-> {<<request.credentials[i].lot, request.credentials[i].key>> :
               i \in DOMAIN request.credentials},
   polygon |-> request.polygon]

\* Mutant: the limit is forgotten.
WithinAnyLimit(owners) == TRUE
WithinLimit(owners) == Cardinality(DOMAIN owners) <= MaxEntries

\* Mutant: the ownership is kept although the snapshot is refused.
SnapshotInPlace(request) ==
  LET proposed == Proposed(ownership, request.credentials)
      passes == Certifiable(ownership, request.credentials) /\ WithinLimit(proposed)
  IN  /\ request.polygon \in Polygons
      /\ ownership' = proposed
      /\ issued' = IF passes THEN issued \cup {SnapshotOf(request)} ELSE issued
      /\ UNCHANGED <<catalog, forgotten>>

\* snapshot: an error leaves the issuer as it was.  Slots are u16, so there are
\* no more credentials than slots.
Snapshot(request) ==
  LET proposed == Proposed(ownership, request.credentials)
  IN  /\ request.polygon \in Polygons
      /\ Certifiable(ownership, request.credentials)
      /\ WithinLimit(proposed)
      /\ ownership' = proposed
      /\ issued' = issued \cup {SnapshotOf(request)}
      /\ UNCHANGED <<catalog, forgotten>>

\* The caller writes encode_catalog() away.
Save ==
  /\ catalog' = Encode(ownership)
  /\ UNCHANGED <<ownership, issued, forgotten>>

\* The issuer's process ends and another starts from the written catalog.
Restart ==
  /\ Decodes(catalog)
  /\ ownership' = Decode(catalog)
  /\ forgotten' = forgotten \cup (DOMAIN ownership \ DOMAIN ownership')
  /\ UNCHANGED <<catalog, issued>>

IssuerNext ==
  \/ \E request \in Requests : Snapshot(request)
  \/ Save
  \/ Restart

-----------------------------------------------------------------------------

\* The issuer keeps within its limit and its types.
IssuerTypeOK ==
  /\ ownership \in UNION {[lots -> Keys] : lots \in SUBSET Lots}
  /\ issued \subseteq [cert : Roots, polygon : Polygons]
  /\ forgotten \subseteq Lots

\* However issuers stop and start, all snapshots agree on the key of a lot,
\* except of a lot whose binding was not written away before a restart.
IssuedAgree ==
  \A s, t \in issued : \A lot \in Lots \ forgotten : \A k, l \in Keys :
    <<lot, k>> \in s.cert /\ <<lot, l>> \in t.cert => k = l

\* A binding exists only because a snapshot was returned that certifies it: a
\* refused request leaves nothing behind that would block the true owner.
BackedBySnapshot ==
  \A lot \in DOMAIN ownership : \E s \in issued : <<lot, ownership[lot]>> \in s.cert

\* The written catalog can always be read back: no limit on the writing side is
\* wider than the one on the reading side.
Restorable == Decodes(catalog) /\ Decodes(Encode(ownership))

=============================================================================
