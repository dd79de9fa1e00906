----------------------------- MODULE PublicChain -----------------------------
(***************************************************************************)
(* The chain the anchor server sends transactions to and view-verify reads *)
(* from, with EpochAggregateAnchor.sol and PolicyRegistry.sol on it.  All  *)
(* transactions come from one account and are mined in the order they were *)
(* sent; the last block may be replaced.                                   *)
(***************************************************************************)
EXTENDS Integers, Sequences, FiniteSets

CONSTANTS
  Policies,    \* the pairs of policy roots registered at startup
  MaxInBlock,  \* bound of the model: transactions in a block
  MaxReorgs    \* bound of the model: times the last block is replaced

ASSUME ChainAssumption ==
  /\ MaxInBlock \in Nat \ {0} /\ MaxReorgs \in Nat

VARIABLES
  sent,   \* the transactions in order; one that deploys is the contract's address
  chain,  \* the canonical blocks
  reorgs  \* how often the last block was replaced

chainVars == <<sent, chain, reorgs>>

None == 0

\* A transaction and, if it is for one, the contract it is for.
Deploy(code, verifier, leafKey, aggregateKey, root) ==
  [kind |-> "deploy", to |-> None, code |-> code, verifier |-> verifier,
   leafKey |-> leafKey, aggregateKey |-> aggregateKey, root |-> root]
VerifyAndAnchor(to, epoch, old, values) ==
  [kind |-> "anchor", to |-> to, epoch |-> epoch, old |-> old, values |-> values]
SetPolicy(policy, allowed) ==
  [kind |-> "policy", to |-> None, policy |-> policy, allowed |-> allowed]

Genesis == [contracts |-> {}, allowed |-> Policies]

ChainInit == sent = <<>> /\ chain = <<>> /\ reorgs = 0

Contract(state, address) == CHOOSE c \in state.contracts : c.address = address
HasCode(state, address) == \E c \in state.contracts : c.address = address

\* The checks of EpochAggregateAnchor.verifyAndAnchor; the proof verifies.
Accepts(state, tx) ==
  /\ HasCode(state, tx.to)
  /\ LET contract == Contract(state, tx.to)
     IN /\ tx.epoch \notin contract.epochs
        /\ <<tx.values.certificateRoot, tx.values.polygonCommitment>> \in state.allowed
        /\ tx.values.new # tx.values.old
        /\ tx.values.epoch = tx.epoch
        /\ tx.values.leafKey = contract.leafKey
        /\ tx.values.aggregateKey = contract.aggregateKey
        /\ tx.values.old = tx.old /\ tx.values.old = contract.root

\* The state after a transaction that is the id-th sent.
After(state, id) ==
  LET tx == sent[id]
  IN CASE tx.kind = "deploy" ->
            [state EXCEPT !.contracts = @ \cup
               {[address |-> id, code |-> tx.code, verifier |-> tx.verifier,
                 leafKey |-> tx.leafKey, aggregateKey |-> tx.aggregateKey,
                 root |-> tx.root, epochs |-> {}]}]
       [] tx.kind = "policy" ->
            [state EXCEPT !.allowed = IF tx.allowed THEN @ \cup {tx.policy}
                                                    ELSE @ \ {tx.policy}]
       [] tx.kind = "anchor" /\ Accepts(state, tx) ->
            LET contract == Contract(state, tx.to)
            IN [state EXCEPT !.contracts = (@ \ {contract}) \cup
                  {[contract EXCEPT !.root = tx.values.new, !.epochs = @ \cup {tx.epoch}]}]
       [] OTHER -> state

Latest == IF chain = <<>> THEN Genesis ELSE chain[Len(chain)].state

\* The number of sent transactions that are mined: they are the first ones.
Mined == IF chain = <<>> THEN 0 ELSE chain[Len(chain)].last

\* The states after none, one, ... of the next transactions.
StatesOver(count) ==
  LET state[k \in 0 .. count] ==
        IF k = 0 THEN Latest ELSE After(state[k - 1], Mined + k)
  IN state

\* A block: the transactions up to the last one, which of them succeeded, and
\* the state at its end.  Its hash tells it from the block it replaced.
NewBlock(count) ==
  LET state == StatesOver(count)
      Succeeds(k) == \/ sent[Mined + k].kind # "anchor"
                     \/ Accepts(state[k - 1], sent[Mined + k])
  IN [hash |-> <<Len(chain) + 1, reorgs>>, first |-> Mined + 1, last |-> Mined + count,
      successes |-> {Mined + k : k \in {j \in 1 .. count : Succeeds(j)}},
      state |-> state[count]]

MineBlock ==
  \E count \in 1 .. MaxInBlock :
    /\ Mined + count <= Len(sent)
    /\ chain' = Append(chain, NewBlock(count))
    /\ UNCHANGED <<sent, reorgs>>

\* The last block is dropped; its transactions are pending again.
Reorg ==
  /\ reorgs < MaxReorgs
  /\ chain # <<>>
  /\ chain' = SubSeq(chain, 1, Len(chain) - 1)
  /\ reorgs' = reorgs + 1
  /\ UNCHANGED sent

\* The block that has a mined transaction, and its receipt.
BlockOf(id) == CHOOSE b \in DOMAIN chain : id \in chain[b].first .. chain[b].last
Receipt(id) ==
  [block |-> BlockOf(id), hash |-> chain[BlockOf(id)].hash, to |-> sent[id].to,
   status |-> id \in chain[BlockOf(id)].successes]

=============================================================================
