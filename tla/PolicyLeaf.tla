----------------------------- MODULE PolicyLeaf -----------------------------
(***************************************************************************)
(* The policy leaf program, eudr_policy::evaluate: what one SP1 leaf proof *)
(* says of one lot's events in one epoch.                                  *)
(*                                                                         *)
(* Hashes and signatures are abstracted by what they bind.  A digest that  *)
(* commits to data is the data, so two commitments are equal exactly when  *)
(* their contents are: a sparse nullifier root is the set of the           *)
(* nullifiers marked used in its tree, a certificate root is the set of    *)
(* credentials its tree holds, a nullifier is the lot and the key it is    *)
(* derived from.  A batch of signed events is a record of the facts that   *)
(* evaluate establishes about every event of it.                           *)
(***************************************************************************)
EXTENDS Naturals, Sequences

CONSTANTS
  Lots,      \* lot identifiers
  Keys,      \* nullifier keys (with the owner the issuer binds to each)
  Epochs,    \* epoch identifiers
  Polygons,  \* forbidden polygons that pass validate_polygon
  Digests,   \* event batch commitments
  Batches,   \* the event batches that exist, see BatchType
  Policies   \* the root pairs in use, see PolicyType

MinEvents == 8
MaxEvents == 64
RequiredRole == 4
MaxAllowedReading == 900

\* nullifier_hash: the digest of a lot and its key, used whole as tree index.
Nullifiers == Lots \X Keys

\* Values of a nullifier root: which leaves of the sparse tree are used.
Roots == SUBSET Nullifiers

\* A batch: its lot, epoch and length, whether lot, epoch, role, readings and
\* timestamps are right in every event (timely), the polygons all of them lie
\* strictly outside of, and whether every signature verifies.
BatchType == [digest : Digests, lot : Lots, epoch : Epochs, count : Nat,
              timely : BOOLEAN, outside : SUBSET Polygons, signed : BOOLEAN]

\* A root pair: the credentials under the certificate root, and the polygon
\* behind the polygon commitment.
PolicyType == [cert : SUBSET Nullifiers, polygon : Polygons]

ASSUME PolicyLeafAssumption ==
  /\ Batches \subseteq BatchType
  /\ Policies \subseteq PolicyType

-----------------------------------------------------------------------------

\* The checks of evaluate, in its order: number of events, C3, C1, C4, C2 and
\* last C5, that the nullifier is unused in the tree of the claimed old root.
Evaluates(batch, key, old, policy) ==
  /\ batch.count \in MinEvents .. MaxEvents
  /\ batch.timely
  /\ policy.polygon \in batch.outside
  /\ batch.signed
  /\ <<batch.lot, key>> \in policy.cert
  /\ <<batch.lot, key>> \notin old

\* The public values it returns.
PolicyPublicValues(batch, key, old, policy) ==
  [epoch     |-> batch.epoch,
   old       |-> old,
   new       |-> old \cup {<<batch.lot, key>>},
   digest    |-> batch.digest,
   policy    |-> policy,
   nullifier |-> <<batch.lot, key>>,
   role      |-> RequiredRole,
   threshold |-> MaxAllowedReading,
   count     |-> batch.count,
   valid     |-> TRUE]

\* Every output the leaf program can be proved to have: any holder of a
\* witness may prove it, on any old root, at any time.
LeafOutputs ==
  {PolicyPublicValues(i[1], i[2], i[3], i[4]) :
     i \in {j \in Batches \X Keys \X Roots \X Policies :
              Evaluates(j[1], j[2], j[3], j[4])}}

LeafType ==
  [epoch : Epochs, old : Roots, new : Roots, digest : Digests,
   policy : Policies, nullifier : Nullifiers, role : Nat, threshold : Nat,
   count : Nat, valid : BOOLEAN]

-----------------------------------------------------------------------------
(* What the root transitions accepted by an anchor contract amount to: a log*)
(* of records with fields old and new, each one starting where the one before*)
(* it ended.                                                               *)

\* The nullifiers a transition marks used.
Spent(transition) == transition.new \ transition.old

\* No nullifier is spent by two transitions.
SpentOnceIn(log) ==
  \A i, j \in DOMAIN log : i # j => Spent(log[i]) \cap Spent(log[j]) = {}

\* The transitions lead from the root first to the root last, none of them
\* forgets a nullifier and each spends at least one.
ChainIn(log, first, last) ==
  /\ \A i \in DOMAIN log :
       /\ log[i].old = IF i = 1 THEN first ELSE log[i - 1].new
       /\ log[i].old \subseteq log[i].new
       /\ Spent(log[i]) # {}
  /\ last = IF log = <<>> THEN first ELSE log[Len(log)].new

\* The root last holds what first held and what the transitions spent.
AccountedIn(log, first, last) ==
  last = first \cup UNION {Spent(log[i]) : i \in DOMAIN log}

\* What the chain comes to for any two transitions: the later one starts from
\* a root that holds all the earlier one ended with, and so does last.
OrderedIn(log, last) ==
  /\ \A i \in DOMAIN log : log[i].new \subseteq last
  /\ \A i, j \in DOMAIN log : i < j => log[i].new \subseteq log[j].old

=============================================================================
