---------------------------- MODULE EpochArchive ----------------------------
(***************************************************************************)
(* The host of an E4 run with a private archive: it proves the lots of an  *)
(* epoch one by one against its nullifier map, reduces the proofs to one   *)
(* root over groups of MaxFanIn, and writes down on the way, for each lot, *)
(* the levels of public values that lead from its leaf to the root         *)
(* (aggregation_archive.rs).                                               *)
(***************************************************************************)
EXTENDS EpochTree, SequencesExt

CONSTANTS
  Tasks,                \* the scheduled lots: a sequence of lots per epoch
  LeafKey, AggregateKey

ASSUME TasksAssumption ==
  /\ Len(Tasks) \in Nat \ {0} /\ DOMAIN Tasks = 1 .. Len(Tasks)
  /\ \A e \in DOMAIN Tasks :
       /\ Len(Tasks[e]) \in Nat /\ DOMAIN Tasks[e] = 1 .. Len(Tasks[e])
       /\ \A i \in DOMAIN Tasks[e] :
            LET lot == Tasks[e][i]
            IN /\ lot.epoch = e /\ NullifierIndex(lot.id, lot.key) \in Nat
               /\ Len(lot.events) \in Nat /\ DOMAIN lot.events = 1 .. Len(lot.events)

VARIABLES
  nullifiers,  \* the host's SparseNullifierMap
  witnesses,   \* lot-N.bin: the private inputs, in the order they are proved
  leaves,      \* public values of the epoch's leaf proofs so far
  tree         \* prove_epoch_tree_with_archive, see NoTree

archiveVars == <<nullifiers, witnesses, leaves, tree>>

\* Nodes still to group, nodes of the next level, the paths of the leaves, and
\* the root when it is proved.
NoTree == [nodes |-> <<>>, next |-> <<>>, paths |-> <<>>, root |-> <<>>]

ArchiveInit ==
  /\ nullifiers = EmptyMap /\ witnesses = <<>> /\ leaves = <<>>
  /\ tree = NoTree

-----------------------------------------------------------------------------

NextInput(lot) ==
  PolicyInput(lot, MapRoot(nullifiers),
              EmptyPath(nullifiers, NullifierIndex(lot.id, lot.key)))

\* What the leaf proof needs: a free place, a witness that evaluates, and after
\* the insert the root that the proof states.
LeafProvable(lot) ==
  LET place == NullifierIndex(lot.id, lot.key)
      input == NextInput(lot)
  IN /\ IsUnused(nullifiers, place)
     /\ LeafEvaluates(input)
     /\ MapRoot(Inserted(nullifiers, place)) = LeafPublicValues(input).new

\* Message::Leaf
ProveLeaf(lot) ==
  /\ LeafProvable(lot)
  /\ witnesses' = Append(witnesses, NextInput(lot))
  /\ nullifiers' = Inserted(nullifiers, NullifierIndex(lot.id, lot.key))
  /\ leaves' = Append(leaves, LeafPublicValues(NextInput(lot)))
  /\ UNCHANGED tree

\* The start of prove_epoch_tree_with_archive; the leaves are taken.
StartTree ==
  /\ leaves # <<>>
  /\ tree = NoTree
  /\ tree' = [nodes |-> [i \in DOMAIN leaves |->
                           [kind |-> "leaf", values |-> leaves[i], leaves |-> {i}]],
              next |-> <<>>, paths |-> [i \in DOMAIN leaves |-> <<>>], root |-> <<>>]
  /\ leaves' = <<>>
  /\ UNCHANGED <<nullifiers, witnesses>>

\* Nodes of the level that is being grouped: with more than MaxFanIn, its
\* groups become intermediate proofs.
IsIntermediate ==
  tree.next # <<>> \/ Len(tree.nodes) > MaxFanIn

Group == SubSeq(tree.nodes, 1, IF Len(tree.nodes) < MaxFanIn THEN Len(tree.nodes)
                                                             ELSE MaxFanIn)
GroupChildren == [i \in DOMAIN Group |-> Child(Group[i].kind, Group[i].values)]
GroupLeaves == UNION {Group[i].leaves : i \in DOMAIN Group}

\* Mutant: a leaf is archived under its own place in the node.
AppendLevelByLeaf(paths) ==
  [leaf \in DOMAIN paths |->
     IF leaf \notin GroupLeaves THEN paths[leaf]
     ELSE Append(paths[leaf],
            [leafKey |-> LeafKey, aggregateKey |-> AggregateKey,
             index |-> Cardinality({other \in GroupLeaves : other <= leaf}),
             children |-> GroupChildren])]

\* append_level: the node's children for each leaf below it, with the place of
\* the child the leaf is under.
AppendLevel(paths) ==
  [leaf \in DOMAIN paths |->
     IF leaf \notin GroupLeaves THEN paths[leaf]
     ELSE Append(paths[leaf],
            [leafKey |-> LeafKey, aggregateKey |-> AggregateKey,
             index |-> CHOOSE i \in DOMAIN Group : leaf \in Group[i].leaves,
             children |-> GroupChildren])]

\* append_level evaluates and checks the indexes: every child has leaves, all of
\* them of the archive, and no leaf is seen twice.  prove_epoch_node evaluates
\* too, and its proof has the values evaluate returns.
NodeProvable ==
  /\ EvaluateOk(LeafKey, AggregateKey, GroupChildren)
  /\ \A i \in DOMAIN Group : Group[i].leaves # {}
  /\ GroupLeaves \subseteq DOMAIN tree.paths
  /\ \A i, j \in DOMAIN Group : i # j => Group[i].leaves \cap Group[j].leaves = {}

\* One group: its level is archived, then its node is proved.
ProveNode ==
  /\ tree.nodes # <<>>
  /\ NodeProvable
  /\ LET values == EpochPublicValues(LeafKey, AggregateKey, GroupChildren)
         rest == SubSeq(tree.nodes, Len(Group) + 1, Len(tree.nodes))
         next == Append(tree.next, [kind |-> "aggregate", values |-> values,
                                    leaves |-> GroupLeaves])
     IN tree' = IF ~ IsIntermediate
                  THEN [nodes |-> <<>>, next |-> <<>>, paths |-> AppendLevel(tree.paths),
                        root |-> <<values>>]
                ELSE IF rest # <<>>
                  THEN [nodes |-> rest, next |-> next,
                        paths |-> AppendLevel(tree.paths), root |-> <<>>]
                  ELSE [nodes |-> next, next |-> <<>>,
                        paths |-> AppendLevel(tree.paths), root |-> <<>>]
  /\ UNCHANGED <<nullifiers, witnesses, leaves>>

=============================================================================
