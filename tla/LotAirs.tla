------------------------------ MODULE LotAirs -------------------------------
(***************************************************************************)
(* Circuits C2 to C5 of the E1 benchmark: the traces their builders write  *)
(* for a lot, and the constraints on the rows.  C3 tests readings against a*)
(* threshold and timestamps for growth.  The rows of C2, C4 and C5 (there: *)
(* lanes) are Poseidon2 permutations of given inputs: the membership of an *)
(* event in a credential tree, the authorisation of an actor and the update*)
(* of a sparse nullifier tree.                                             *)
(*                                                                         *)
(* A digest is the tuple of inputs it was computed from, so the output     *)
(* column of a row is its input; what is off by one is <<"off", value>>.   *)
(***************************************************************************)
EXTENDS Integers, Sequences

CONSTANT MinRows  \* MIN_FRI_TRACE_ROWS, the least number of rows of a trace

ASSUME TraceShapeAssumption == MinRows \in Nat \ {0}

TwoTo[k \in Nat] == IF k = 0 THEN 1 ELSE 2 * TwoTo[k - 1]

NextPowerOfTwo(n) ==
  CHOOSE p \in {TwoTo[k] : k \in 0 .. n} : p >= n /\ (p = 1 \/ p \div 2 < n)

Rows(n) == IF n <= MinRows THEN MinRows ELSE NextPowerOfTwo(n)

Bit(b) == IF b THEN 1 ELSE 0

-----------------------------------------------------------------------------
(* C3: one row per event, padded with copies of the last one.              *)

CONSTANTS
  Threshold,  \* THRESHOLD
  RangeBits   \* RANGE_BITS

C3MaxRangeValue == TwoTo[RangeBits] - 1

ASSUME RangeAssumption ==
  Threshold \in Nat /\ RangeBits \in Nat /\ Threshold <= C3MaxRangeValue

\* validate_c3, for the first events rows of the lot.
C3Witness(lot, events) ==
  /\ events > 0
  /\ Len(lot.readings) >= events /\ Len(lot.timestamps) >= events
  /\ \A i \in 1 .. events :
       /\ lot.readings[i] <= Threshold /\ lot.readings[i] <= C3MaxRangeValue
       /\ Threshold - lot.readings[i] <= C3MaxRangeValue
       /\ i > 1 => lot.timestamps[i] > lot.timestamps[i - 1]
       /\ i < events =>
            lot.timestamps[i + 1] - lot.timestamps[i] - 1 \in 0 .. C3MaxRangeValue

C3Row(lot, events, row) ==
  LET src == IF row < events THEN row + 1 ELSE events
      enabled == row + 1 < events
  IN [reading |-> lot.readings[src], timestamp |-> lot.timestamps[src],
      diff |-> Threshold - lot.readings[src],
      delta |-> IF enabled THEN lot.timestamps[row + 2] - lot.timestamps[row + 1] - 1
                           ELSE 0,
      real |-> row < events, enabled |-> enabled, count |-> src]

C3Trace(lot, events) ==
  [row \in 1 .. Rows(events) |-> C3Row(lot, events, row - 1)]

C3Publics(events) == [threshold |-> Threshold, events |-> events]

-----------------------------------------------------------------------------

C3EveryRow(r, pis) ==
  /\ r.real => r.reading + r.diff = pis.threshold
  /\ {r.reading, r.diff, r.delta} \subseteq 0 .. C3MaxRangeValue

C3FirstRow(r, pis) == r.real /\ r.count = 1

\* Mutant: every row counts, the padded ones too.
C3TransitionCountsAll(r, n) ==
  /\ n.real => r.real
  /\ r.enabled = (r.real /\ n.real)
  /\ n.count = r.count + 1
  /\ r.enabled => n.timestamp = r.timestamp + r.delta + 1

C3Transition(r, n) ==
  /\ n.real => r.real
  /\ r.enabled = (r.real /\ n.real)
  /\ n.count = r.count + Bit(n.real)
  /\ r.enabled => n.timestamp = r.timestamp + r.delta + 1

C3LastRow(r, pis) == ~r.enabled /\ r.count = pis.events

-----------------------------------------------------------------------------

CONSTANTS
  SparseDepth,     \* C5_SPARSE_DEPTH
  NullifierIndex   \* for each lot id the hash of its nullifier, a number

ASSUME SparseAssumption == SparseDepth \in Nat \ {0}

Off(value) == <<"off", value>>
Zero == <<"zero">>
Parent(tag, l, r) == <<tag, l, r>>
Halve(n, k) == n \div TwoTo[k]

\* The nodes over 2^depth leaves: Nodes(...)[k][i] is the i-th (from 0) of
\* height k.
Nodes(tag, depth, Leaf(_)) ==
  LET node[k \in 0 .. depth] ==
        [i \in Nat |->
           IF k = 0 THEN Leaf(i)
           ELSE Parent(tag, node[k - 1][2 * i], node[k - 1][2 * i + 1])]
  IN node

-----------------------------------------------------------------------------
(* C2: membership of an event in the credential tree.                      *)

\* An event's leaf, or the filler of a place without event.
C2Leaf(lot, i, events) ==
  IF i < events THEN <<"event", lot.id, i, lot.facts[i + 1]>>
                ELSE <<"filler", lot.id, i>>

C2Witness(lot, events, depth) ==
  events \in 1 .. TwoTo[depth] /\ Len(lot.facts) >= events

\* The inputs along the path of an event, leaf first.
C2Path(lot, events, depth, index) ==
  LET tree == Nodes("cert", depth, LAMBDA i : C2Leaf(lot, i, events))
  IN [k \in 1 .. depth + 1 |-> tree[k - 1][Halve(index, k - 1)]]

\* c2_path_witness with its tampering, and the padded rows of c2_trace.
C2Trace(lot, seed, events, depth, tamper) ==
  LET index == seed % events
      path == C2Path(lot, events, depth, index)
      Input(k) == IF k = 2 /\ tamper = "path"
                    THEN [path[2] EXCEPT ![3] = Off(path[2][3])] ELSE path[k]
      bit(k) == Halve(index, k - 2) % 2
  IN [row \in 1 .. Rows(depth + 2) |->
        [input |-> IF row <= depth + 1 THEN Input(row) ELSE Zero,
         bit |-> IF row \in 2 .. depth + 1
                   THEN IF row = 2 /\ tamper = "index" THEN 1 - bit(row) ELSE bit(row)
                   ELSE 0,
         real |-> row <= depth + 1,
         level |-> IF row <= depth + 1 THEN row - 1 ELSE depth]]

C2Publics(lot, seed, events, depth, tamper) ==
  LET root == C2Path(lot, events, depth, seed % events)[depth + 1]
  IN [root |-> IF tamper = "root" THEN Off(root) ELSE root, depth |-> depth]

C2FirstRow(r, pis) ==
  r.bit = 0 /\ r.real /\ r.level = 0 /\ r.input[1] \in {"event", "filler"}

C2Transition(r, n, pis) ==
  /\ n.real => r.real
  /\ n.level = r.level + Bit(n.real)
  /\ r.real /\ n.real =>
       /\ n.bit \in {0, 1}
       /\ n.input[1] = "cert"
       /\ n.input[2 + n.bit] = r.input
  /\ r.real /\ ~n.real => r.level = pis.depth /\ r.input = pis.root

C2LastRow(r) == ~r.real

-----------------------------------------------------------------------------
(* C4: the actor knows the secret under the public commitment.             *)

C4Input(id, secret, role) == <<"actor", id, secret, role>>

C4Trace(lot, tamper) ==
  [row \in 1 .. MinRows |->
     [input |-> C4Input(lot.actor,
                        IF tamper = "secret" THEN Off(lot.secret) ELSE lot.secret,
                        lot.role)]]

C4Publics(lot, tamper) ==
  LET commitment == C4Input(lot.actor, lot.secret, lot.role)
  IN [actor |-> lot.actor,
      role |-> IF tamper = "role" THEN Off(lot.role) ELSE lot.role,
      commitment |-> IF tamper = "commitment" THEN Off(commitment) ELSE commitment]

\* Only the first row is bound to the public inputs.
C4FirstRow(r, pis) ==
  r.input[2] = pis.actor /\ r.input[4] = pis.role /\ r.input = pis.commitment

-----------------------------------------------------------------------------
(* C5: a nullifier is added to the sparse tree.                            *)

C5Nullifier(lot, secret) == <<"nullifier", lot.id, secret>>
C5Leaf(state) == <<"leaf", state>>
C5Index(lot) == NullifierIndex[lot.id] % TwoTo[SparseDepth]
C5Quotient(lot) == Halve(NullifierIndex[lot.id], SparseDepth)

\* The sparse tree with the given places in use.
C5Tree(used) ==
  Nodes("empty", SparseDepth, LAMBDA i : C5Leaf(IF i \in used THEN 1 ELSE 0))

\* c5_witness_after_prior_nullifier stops on a shared index.
C5Witness(lot, prior) == C5Index(lot) \notin {C5Index(q) : q \in prior}

\* The lanes of a path from a leaf to the root.
C5Lanes(leaf, bit, sibling) ==
  LET path[k \in 0 .. SparseDepth] ==
        IF k = 0 THEN leaf
        ELSE IF bit[k] = 0 THEN Parent("empty", path[k - 1], sibling[k])
                           ELSE Parent("empty", sibling[k], path[k - 1])
  IN path

\* The lanes of the trace's row: the hashes of the nullifier and its index,
\* the old and the new leaf, and both paths over the same siblings.
C5Trace(lot, prior, tamper) ==
  LET index == C5Index(lot)
      tree == C5Tree({C5Index(q) : q \in prior})
      sibling == [k \in 1 .. SparseDepth |->
                    LET at == Halve(index, k - 1)
                    IN tree[k - 1][IF at % 2 = 0 THEN at + 1 ELSE at - 1]]
      bit == [k \in 1 .. SparseDepth |-> Halve(index, k - 1) % 2]
      old == C5Lanes(C5Leaf(IF tamper \in {"duplicate", "replay"} THEN 1 ELSE 0), bit, sibling)
  IN [nullifier |-> C5Nullifier(lot, IF tamper = "secret" THEN Off(lot.secret) ELSE lot.secret),
      indexOf |-> C5Nullifier(lot, lot.secret),
      old |-> IF tamper = "path" THEN [old EXCEPT ![1][3] = Off(old[1][3])] ELSE old,
      new |-> C5Lanes(C5Leaf(1), bit, sibling),
      sibling |-> sibling,
      bit |-> IF tamper = "index" THEN [bit EXCEPT ![1] = 1 - bit[1]] ELSE bit,
      quotient |-> C5Quotient(lot)]

C5Publics(lot, prior, tamper) ==
  LET used == {C5Index(q) : q \in prior}
      oldRoot == C5Tree(IF tamper = "replay" THEN {C5Index(lot)} ELSE used)[SparseDepth][0]
      newRoot == C5Tree(used \cup {C5Index(lot)})[SparseDepth][0]
  IN [oldRoot |-> IF tamper = "old root" THEN Off(oldRoot) ELSE oldRoot,
      newRoot |-> IF tamper = "new root" THEN Off(newRoot) ELSE newRoot,
      nullifier |-> C5Nullifier(lot, lot.secret),
      state |-> IF tamper = "state" THEN 0 ELSE 1]

\* The nodes of one path: every lane's input is made of the lane below and
\* the shared sibling, on the side the index bit says.
C5PathHolds(r, path) ==
  \A k \in 1 .. SparseDepth :
    path[k] = IF r.bit[k] = 0 THEN Parent("empty", path[k - 1], r.sibling[k])
                              ELSE Parent("empty", r.sibling[k], path[k - 1])

\* The value of the index bits; the index lane hashes to it.
C5BitsValue(r) ==
  LET sum[k \in 0 .. SparseDepth] ==
        IF k = 0 THEN 0 ELSE sum[k - 1] + r.bit[k] * TwoTo[k - 1]
  IN sum[SparseDepth]

C5EveryRow(r, pis) ==
  /\ pis.state = 1
  /\ r.nullifier = pis.nullifier
  /\ r.indexOf = pis.nullifier
  /\ NullifierIndex[r.indexOf[2]] = C5BitsValue(r) + r.quotient * TwoTo[SparseDepth]
  /\ r.old[0] = C5Leaf(0) /\ r.new[0] = C5Leaf(pis.state)
  /\ C5PathHolds(r, r.old) /\ C5PathHolds(r, r.new)
  /\ r.old[SparseDepth] = pis.oldRoot /\ r.new[SparseDepth] = pis.newRoot

=============================================================================
