-------------------------- MODULE NullifierLedger --------------------------
(***************************************************************************)
(* What an anchor contract promises, without proofs, policies and roots: a *)
(* ledger of spent nullifiers that only grows.  A transition is entered    *)
(* under a tag (an epoch, a token) that was never used and spends at least *)
(* one nullifier, none of them spent before.                               *)
(***************************************************************************)
CONSTANTS
  Tags,        \* what a transition is entered under
  Nullifiers,  \* all nullifiers
  First        \* the nullifiers spent at deployment

VARIABLES spent, closed

Init == spent = First /\ closed = {}

Enter(tag, nullifiers) ==
  /\ tag \notin closed
  /\ nullifiers # {}
  /\ nullifiers \cap spent = {}
  /\ spent' = spent \cup nullifiers
  /\ closed' = closed \cup {tag}

Next == \E tag \in Tags, nullifiers \in SUBSET Nullifiers : Enter(tag, nullifiers)

Spec == Init /\ [][Next]_<<spent, closed>>

=============================================================================
