----------------------------- MODULE EpochTree ------------------------------
(***************************************************************************)
(* The trees a policy-v2 proof commits to, and the public values along a   *)
(* proof tree: what policy::evaluate returns for the witness of a lot and  *)
(* epoch::evaluate for the ordered children of a node.  A digest is the    *)
(* tuple of what was hashed, tag first, so that two digests are equal      *)
(* exactly when their inputs are.                                          *)
(*                                                                         *)
(* The checks of events are in PolicyLeaf, the ones of sums against u64 in *)
(* EpochAggregate.  Role, threshold and the valid flag never vary.         *)
(***************************************************************************)
EXTENDS Integers, Sequences, FiniteSets, TLC

CONSTANTS
  MinLotEvents, MaxLotEvents,  \* MIN_EVENTS and MAX_EVENTS: 8 and 64
  CertificateDepth             \* CERTIFICATE_TREE_DEPTH: 16

ASSUME TreeAssumption ==
  /\ MinLotEvents \in Nat \ {0} /\ MaxLotEvents \in Nat
  /\ CertificateDepth \in Nat

\* The places of the nodes above a place: at each height the index is shifted
\* right by one bit.
Above(index) ==
  LET at[k \in Nat] == IF k = 0 THEN index ELSE at[k - 1] \div 2
  IN at

\* The place of the other child of the same parent.
Sibling(place) == IF place % 2 = 0 THEN place + 1 ELSE place - 1

\* ilog2 of next_power_of_two: the height of a tree over that many leaves, at
\* least one, is that of the nodes above its last leaf.
Depth(count) ==
  CHOOSE d \in 0 .. count :
    Above(count - 1)[d] = 0 /\ (d = 0 \/ Above(count - 1)[d - 1] # 0)

Parent(tag, left, right) == <<tag, left, right>>

\* The levels of a tree, leaves first.  Right of the nodes that a tree of that
\* depth has there are others, which no path to its top meets.
Levels(tag, depth, leaves) ==
  LET level[k \in 0 .. depth] ==
        IF k = 0 THEN leaves
        ELSE [i \in Nat |-> Parent(tag, level[k - 1][2 * i], level[k - 1][2 * i + 1])]
  IN level

\* The siblings on the way up from a place.
Siblings(levels, depth, index) ==
  [k \in 1 .. depth |-> levels[k - 1][Sibling(Above(index)[k - 1])]]

\* The node a path leads to from the given leaf.
Folded(tag, leaf, index, path) ==
  LET up[k \in 0 .. Len(path)] ==
        IF k = 0 THEN leaf
        ELSE IF Above(index)[k - 1] % 2 = 0 THEN Parent(tag, up[k - 1], path[k])
                                            ELSE Parent(tag, path[k], up[k - 1])
  IN up[Len(path)]

-----------------------------------------------------------------------------

EventSalt(nonce, index) == <<"salt", nonce, index>>
EventLeaf(index, salt, bytes) == <<"event", index, salt, bytes>>
EventPadding(index) == <<"padding", index>>
EventNode == "node"
BatchCommitment(count, root) == <<"batch", count, root>>

\* event_tree: the levels over the next power of two.
EventLevels(events, nonce) ==
  Levels(EventNode, Depth(Len(events)),
         [i \in Nat |-> IF i < Len(events)
                          THEN EventLeaf(i, EventSalt(nonce, i), events[i + 1].bytes)
                          ELSE EventPadding(i)])

EventBatchCommitment(events, nonce) ==
  BatchCommitment(Len(events), EventLevels(events, nonce)[Depth(Len(events))][0])

\* The siblings open_bundle collects on the way up from an event.
EventPath(events, nonce, index) ==
  Siblings(EventLevels(events, nonce), Depth(Len(events)), index)

VerifyEventOpening(count, index, salt, bytes, path, commitment) ==
  /\ count \in MinLotEvents .. MaxLotEvents
  /\ index < count
  /\ Len(path) = Depth(count)
  /\ BatchCommitment(count, Folded(EventNode, EventLeaf(index, salt, bytes),
                                   index, path)) = commitment

-----------------------------------------------------------------------------

CertificateLeaf(index, event, owner, keyCommitment) ==
  <<"credential", event.lot, owner, keyCommitment, index, event.certificate,
    event.actor, event.role>>
CertificateNode == "certificates"
KeyCommitment(key) == <<"key", key>>

CredentialRoot(index, event, owner, keyCommitment, path) ==
  Folded(CertificateNode, CertificateLeaf(index, event, owner, keyCommitment),
         index, path)

PolygonCommitment(polygon, nonce) == <<"polygon", nonce, polygon>>

-----------------------------------------------------------------------------
(* The host's sparse nullifier tree: only the nodes on the paths of used   *)
(* places are kept, all others have the default of their height.           *)

CONSTANT NullifierDepth  \* NULLIFIER_TREE_DEPTH, 256

EmptyLeaf == <<"leaf", 0>>
UsedLeaf == <<"leaf", 1>>
NullifierNode == "nullifiers"

\* nullifier_empty_hashes
EmptyHashes ==
  LET hashes[k \in 0 .. NullifierDepth] ==
        IF k = 0 THEN EmptyLeaf ELSE Parent(NullifierNode, hashes[k - 1], hashes[k - 1])
  IN hashes

EmptyMap == [place \in {} |-> <<>>]

Value(nodes, depth, index) ==
  IF <<depth, index>> \in DOMAIN nodes THEN nodes[<<depth, index>>]
                                       ELSE EmptyHashes[depth]

MapRoot(nodes) == Value(nodes, NullifierDepth, 0)

\* The siblings on the way up from a place; an error when it is in use.
EmptyPath(nodes, index) ==
  [k \in 1 .. NullifierDepth |-> Value(nodes, k - 1, Sibling(Above(index)[k - 1]))]

IsUnused(nodes, index) == Value(nodes, 0, index) = EmptyLeaf

\* Mutant: places are counted from one.
SparseRootFromOne(index, leaf, path) == Folded(NullifierNode, leaf, index + 1, path)

SparseRoot(index, leaf, path) == Folded(NullifierNode, leaf, index, path)

\* insert, of a place that is not in use.
Inserted(nodes, index) ==
  LET path == EmptyPath(nodes, index)
      node(k) == SparseRoot(index, UsedLeaf, SubSeq(path, 1, k))
      new == {<<k, Above(index)[k]>> : k \in 0 .. NullifierDepth}
  IN [place \in new \cup DOMAIN nodes |-> IF place \in new THEN node(place[1])
                                                          ELSE nodes[place]]

\* The root of the whole tree with the given places in use, none left out.
FullLevels(used) ==
  Levels(NullifierNode, NullifierDepth,
         [i \in Nat |-> IF i \in used THEN UsedLeaf ELSE EmptyLeaf])
FullRoot(used) == FullLevels(used)[NullifierDepth][0]

-----------------------------------------------------------------------------
(* Leaves over the credentials of an issuer, and nodes over leaves.        *)

CONSTANTS
  MaxFanIn,             \* MAX_FAN_IN, 8
  Credentials,          \* sequence of the issuer's credentials, slot 0 first
  Polygon,              \* the snapshot's polygon
  PolygonNonce,
  NullifierIndex(_, _)  \* the place of a lot and its key, without collisions

ASSUME EpochTreeAssumption ==
  /\ MaxFanIn \in Nat \ {0} /\ NullifierDepth \in Nat
  /\ Len(Credentials) \in Nat /\ Len(Credentials) <= 2^CertificateDepth

\* RegistryIssuer::snapshot gives a lot one owner and key commitment.
ASSUME OwnershipAssumption ==
  \A i, j \in 1 .. Len(Credentials) :
    Credentials[i].event.lot = Credentials[j].event.lot =>
      /\ Credentials[i].owner = Credentials[j].owner
      /\ Credentials[i].keyCommitment = Credentials[j].keyCommitment

\* RegistryIssuer::snapshot: all slots, the ones without credential padded.
CertificateLevels ==
  Levels(CertificateNode, CertificateDepth,
         [i \in Nat |-> IF i < Len(Credentials)
                          THEN LET c == Credentials[i + 1]
                               IN CertificateLeaf(i, c.event, c.owner, c.keyCommitment)
                          ELSE <<"no credential", i>>])

CertificateRoot == CertificateLevels[CertificateDepth][0]

\* RegistrySnapshot::credential: the slots that fit, any of which it may find.
SlotsFor(event, owner, key) ==
  {i \in 0 .. Len(Credentials) - 1 :
     LET c == Credentials[i + 1]
     IN /\ c.event.lot = event.lot /\ c.event.actor = event.actor
        /\ c.event.certificate = event.certificate /\ c.event.role = event.role
        /\ c.owner = owner /\ c.keyCommitment = KeyCommitment(key)}

CertificatePath(slot) == Siblings(CertificateLevels, CertificateDepth, slot)

-----------------------------------------------------------------------------

\* policy_input_from_events, for a lot with a credential.
PolicyInput(lot, old, path) ==
  [epoch |-> lot.epoch, lot |-> lot.id, polygon |-> Polygon,
   polygonNonce |-> PolygonNonce, certificateRoot |-> CertificateRoot, old |-> old,
   key |-> lot.key, owner |-> lot.owner, batchNonce |-> lot.nonce,
   nullifierPath |-> path,
   events |-> [i \in DOMAIN lot.events |->
     LET slot == CHOOSE s \in SlotsFor(lot.events[i], lot.owner, lot.key) : TRUE
     IN [bytes |-> lot.events[i], credentialIndex |-> slot,
         certificatePath |-> CertificatePath(slot)]]]

\* policy::evaluate, its tests of C2 and C5 and of the events' lot and epoch.
LeafEvaluates(input) ==
  /\ Len(input.events) \in MinLotEvents .. MaxLotEvents
  /\ \A i \in DOMAIN input.events :
       LET event == input.events[i]
       IN /\ event.bytes.lot = input.lot /\ event.bytes.epoch = input.epoch
          /\ CredentialRoot(event.credentialIndex, event.bytes, input.owner,
                            KeyCommitment(input.key), event.certificatePath)
               = input.certificateRoot
  /\ SparseRoot(NullifierIndex(input.lot, input.key), EmptyLeaf,
                input.nullifierPath) = input.old

LeafPublicValues(input) ==
  [epoch |-> input.epoch, old |-> input.old,
   new |-> SparseRoot(NullifierIndex(input.lot, input.key), UsedLeaf,
                      input.nullifierPath),
   batch |-> EventBatchCommitment(input.events, input.batchNonce),
   certificateRoot |-> input.certificateRoot,
   polygonCommitment |-> PolygonCommitment(input.polygon, input.polygonNonce),
   nullifier |-> NullifierIndex(input.lot, input.key), count |-> Len(input.events)]

-----------------------------------------------------------------------------

\* EpochChild; the words of one kind never read as values of the other.
Child(kind, values) == [kind |-> kind, values |-> values]

LotsOf(child) == IF child.kind = "leaf" THEN 1 ELSE child.values.lots
EventsOf(child) == IF child.kind = "leaf" THEN child.values.count ELSE child.values.events
CommitmentOf(child) ==
  IF child.kind = "leaf" THEN child.values.batch ELSE child.values.commitment

Total(Of(_), children) ==
  LET sum[i \in 0 .. Len(children)] ==
        IF i = 0 THEN 0 ELSE sum[i - 1] + Of(children[i])
  IN sum[Len(children)]

ChildOk(leafKey, aggregateKey, child) ==
  LET values == child.values
      isLeaf == "batch" \in DOMAIN values
  IN \/ child.kind = "leaf" /\ isLeaf /\ values.count \in MinLotEvents .. MaxLotEvents
     \/ /\ child.kind = "aggregate" /\ ~ isLeaf
        /\ values.leafKey = leafKey /\ values.aggregateKey = aggregateKey
        /\ values.lots # 0
        /\ values.events \in values.lots * MinLotEvents .. values.lots * MaxLotEvents

SameEpochAndPolicy(child, first) ==
  /\ child.values.epoch = first.values.epoch
  /\ child.values.certificateRoot = first.values.certificateRoot
  /\ child.values.polygonCommitment = first.values.polygonCommitment

EvaluateOk(leafKey, aggregateKey, children) ==
  /\ Len(children) \in 1 .. MaxFanIn
  /\ \A i \in DOMAIN children :
       /\ ChildOk(leafKey, aggregateKey, children[i])
       /\ SameEpochAndPolicy(children[i], children[1])
       /\ i > 1 => children[i].values.old = children[i - 1].values.new
       /\ children[i].values.new # children[i].values.old
  /\ \A i, j \in DOMAIN children :
       i # j => CommitmentOf(children[i]) # CommitmentOf(children[j])

EpochPublicValues(leafKey, aggregateKey, children) ==
  LET first == children[1].values
  IN [epoch |-> first.epoch, old |-> first.old,
      new |-> children[Len(children)].values.new,
      commitment |-> <<"epoch", leafKey, aggregateKey, first.certificateRoot,
        first.polygonCommitment,
        [i \in DOMAIN children |->
           <<children[i].kind, CommitmentOf(children[i]), children[i].values.old,
             children[i].values.new, LotsOf(children[i]), EventsOf(children[i])>>]>>,
      lots |-> Total(LotsOf, children), events |-> Total(EventsOf, children),
      leafKey |-> leafKey, aggregateKey |-> aggregateKey,
      certificateRoot |-> first.certificateRoot,
      polygonCommitment |-> first.polygonCommitment]

=============================================================================
