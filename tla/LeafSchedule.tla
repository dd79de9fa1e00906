---------------------------- MODULE LeafSchedule ----------------------------
(***************************************************************************)
(* The messages of one E4 run, in the order the schedule gives them: its   *)
(* leaves 0, 1, ... and after the last leaf of each epoch an EpochEnd.     *)
(***************************************************************************)
EXTENDS Naturals, Sequences

CONSTANTS
  Total,     \* number of scheduled leaves
  EpochEnds  \* the leaves that are the last of their epoch

ASSUME ScheduleAssumption ==
  /\ Total \in Nat \ {0}
  /\ EpochEnds \subseteq 0 .. Total - 1
  /\ Total - 1 \in EpochEnds

LeafIndexes == 0 .. Total - 1

\* enum Message.  An EpochEnd carries the last leaf of its epoch.
Leaf(i) == [kind |-> "leaf", index |-> i]
EpochEnd(i) == [kind |-> "epochEnd", index |-> i]
Messages == [kind : {"leaf", "epochEnd"}, index : LeafIndexes]

\* What comes right after a message.
Follows(a, b) ==
  IF a.kind = "leaf" /\ a.index \in EpochEnds
    THEN b = EpochEnd(a.index)
    ELSE b = Leaf(a.index + 1)

\* A sequence of messages that starts with the schedule and skips, repeats or
\* swaps nothing.
InOrder(s) ==
  /\ s # <<>> => s[1] = Leaf(0)
  /\ \A i \in 1 .. Len(s) - 1 : Follows(s[i], s[i + 1])

\* ... and that ends with it.
Complete(s) == InOrder(s) /\ s # <<>> /\ s[Len(s)] = EpochEnd(Total - 1)

=============================================================================
