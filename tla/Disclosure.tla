------------------------------ MODULE Disclosure ------------------------------
(***************************************************************************)
(* The disclosure crate: view-open makes a bundle of selected openings of  *)
(* one lot, view-verify checks it against the root its path leads to.  An  *)
(* optional part is a sequence of length zero or one; children of a level  *)
(* are counted from 1, events and slots from 0.                            *)
(***************************************************************************)
EXTENDS EpochTree, SequencesExt

CONSTANTS
  MaxLevels,       \* 64, the levels an authentication may have
  LastPresetEvent  \* 3: the presets open the events from 0 to this one

\* parse_fields: what is asked for, with the inclusive ranges of events.
FieldsOk(fields, count) ==
  /\ fields.ranges # {}
  /\ \A r \in fields.ranges : r[1] <= r[2] /\ r[2] < count

\* The numbers of a set below a bound, smallest first, as a BTreeSet has them.
Ascending(set, bound) ==
  LET upto[k \in 0 .. bound] ==
        IF k = 0 THEN <<>>
        ELSE IF k - 1 \in set THEN Append(upto[k - 1], k - 1) ELSE upto[k - 1]
  IN upto[bound]

Selection(fields, count) ==
  [polygon |-> fields.polygon, credential |-> fields.credential,
   events |-> Ascending(UNION {r[1] .. r[2] : r \in fields.ranges}, count)]

Preset(name) ==
  [polygon |-> name = "regulator", credential |-> name # "importer",
   ranges |-> {IF name = "certifier" THEN <<0, 0>> ELSE <<0, LastPresetEvent>>}]

-----------------------------------------------------------------------------

\* The values a path has reached before its k-th level.
Reached(leaf, levels, leafKey, aggregateKey, k) ==
  IF k = 1 THEN Child("leaf", leaf)
  ELSE Child("aggregate",
             EpochPublicValues(leafKey, aggregateKey, levels[k - 1].children))

\* Mutant: the child a level selects is not compared with what was reached.
AuthenticationOfAny(leaf, levels, leafKey, aggregateKey) ==
  /\ Len(levels) \in 1 .. MaxLevels
  /\ EvaluateOk(leafKey, aggregateKey, <<Child("leaf", leaf)>>)
  /\ \A k \in DOMAIN levels :
       /\ levels[k].leafKey = leafKey /\ levels[k].aggregateKey = aggregateKey
       /\ levels[k].index \in DOMAIN levels[k].children
       /\ EvaluateOk(leafKey, aggregateKey, levels[k].children)

\* verify_authentication
AuthenticationOk(leaf, levels, leafKey, aggregateKey) ==
  /\ Len(levels) \in 1 .. MaxLevels
  /\ EvaluateOk(leafKey, aggregateKey, <<Child("leaf", leaf)>>)
  /\ \A k \in DOMAIN levels :
       /\ levels[k].leafKey = leafKey /\ levels[k].aggregateKey = aggregateKey
       /\ levels[k].index \in DOMAIN levels[k].children
       /\ levels[k].children[levels[k].index]
            = Reached(leaf, levels, leafKey, aggregateKey, k)
       /\ EvaluateOk(leafKey, aggregateKey, levels[k].children)

\* The public values of the root it returns.
AuthenticatedRoot(levels, leafKey, aggregateKey) ==
  EpochPublicValues(leafKey, aggregateKey, levels[Len(levels)].children)

-----------------------------------------------------------------------------

EventOpening(input, index) ==
  [index |-> index, bytes |-> input.events[index + 1].bytes,
   salt |-> EventSalt(input.batchNonce, index),
   path |-> EventPath(input.events, input.batchNonce, index)]

\* Of the first selected event.
CredentialOpening(input, index) ==
  LET witness == input.events[index + 1]
  IN [eventIndex |-> index, slot |-> witness.credentialIndex, owner |-> input.owner,
      keyCommitment |-> KeyCommitment(input.key), lot |-> witness.bytes.lot,
      certificate |-> witness.bytes.certificate, actor |-> witness.bytes.actor,
      role |-> witness.bytes.role, path |-> witness.certificatePath]

Bundle(input, lot, selection, authentication) ==
  [lot |-> lot, leaf |-> LeafPublicValues(input), authentication |-> authentication,
   polygon |-> IF selection.polygon
                 THEN <<[nonce |-> input.polygonNonce, vertices |-> input.polygon]>>
                 ELSE <<>>,
   events |-> [i \in DOMAIN selection.events |-> EventOpening(input, selection.events[i])],
   credential |-> IF selection.credential
                    THEN <<CredentialOpening(input, selection.events[1])>> ELSE <<>>]

\* A bundle is read into lists of openings and of levels.
IsList(list) == DOMAIN list = 1 .. Len(list)
Decodes(bundle) == IsList(bundle.events) /\ IsList(bundle.authentication.levels)

EventOpeningOk(bundle, opening) ==
  /\ VerifyEventOpening(bundle.leaf.count, opening.index, opening.salt, opening.bytes,
                        opening.path, bundle.leaf.batch)
  /\ opening.bytes.lot = bundle.lot
  /\ opening.bytes.epoch = bundle.leaf.epoch

\* The credential is of a disclosed event, and in the registry of the leaf.
CredentialOk(bundle, credential) ==
  \E i \in DOMAIN bundle.events :
    LET event == bundle.events[i].bytes
    IN /\ bundle.events[i].index = credential.eventIndex
       /\ credential.lot = event.lot /\ credential.certificate = event.certificate
       /\ credential.role = event.role /\ credential.actor = event.actor
       /\ Len(credential.path) = CertificateDepth
       /\ CredentialRoot(credential.slot, event, credential.owner,
                         credential.keyCommitment, credential.path)
            = bundle.leaf.certificateRoot

\* verify_openings
OpeningsOk(bundle, leafKey, aggregateKey) ==
  /\ Len(bundle.events) \in 1 .. MaxLotEvents
  /\ AuthenticationOk(bundle.leaf, bundle.authentication.levels, leafKey, aggregateKey)
  /\ \A i, j \in DOMAIN bundle.events :
       i # j => bundle.events[i].index # bundle.events[j].index
  /\ \A i \in DOMAIN bundle.events : EventOpeningOk(bundle, bundle.events[i])
  /\ \A i \in DOMAIN bundle.polygon :
       PolygonCommitment(bundle.polygon[i].vertices, bundle.polygon[i].nonce)
         = bundle.leaf.polygonCommitment
  /\ \A i \in DOMAIN bundle.credential : CredentialOk(bundle, bundle.credential[i])

\* open_bundle gives a bundle: the lot and the selection are of this witness,
\* and the openings verify under the keys the path itself names.
OpenOk(input, lot, selection, authentication) ==
  /\ lot = input.lot
  /\ \A i \in DOMAIN selection.events : selection.events[i] < Len(input.events)
  /\ LeafEvaluates(input)
  /\ authentication.levels # <<>>
  /\ OpeningsOk(Bundle(input, lot, selection, authentication),
                authentication.levels[1].leafKey, authentication.levels[1].aggregateKey)

=============================================================================
