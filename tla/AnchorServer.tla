----------------------------- MODULE AnchorServer -----------------------------
(***************************************************************************)
(* anvil_sp1_anchor_server.mjs, its /e3/reset and /e3/anchor.  One thread  *)
(* runs the handlers, but each is suspended at its awaits, and what it     *)
(* reads of the module's variables afterwards another handler may have     *)
(* written.  The other endpoints are of the same form.                     *)
(***************************************************************************)
EXTENDS PublicChain

CONSTANTS
  Clients,                \* who sends requests, each one at a time
  TrustedLeafKey, TrustedAggregateKey,  \* keys of the server's start
  MaxSent                 \* bound of the model: transactions

VARIABLES
  epochAnchor,  \* module variable: address, or None
  verifier,     \* module variable: address, or None
  handlers      \* the request of each client, with its handler's locals

serverVars == <<epochAnchor, verifier, handlers>>

Idle == [at |-> "idle"]

ServerInit ==
  /\ epochAnchor = None /\ verifier = None
  /\ handlers = [c \in Clients |-> Idle]

Reply(client, reply) == handlers' = [handlers EXCEPT ![client] = reply]
Refuse(client) == Reply(client, [at |-> "replied", status |-> 422])

Send(tx) == sent' = Append(sent, tx)
CanSend == Len(sent) < MaxSent

\* eth_estimateGas comes before the transaction and fails where it would.
CanEstimate(tx) == Accepts(Latest, tx)

-----------------------------------------------------------------------------

DeployAnchor(root, at) == Deploy("anchor", at, TrustedLeafKey, TrustedAggregateKey, root)
DeployVerifier == Deploy("verifier", None, TrustedLeafKey, TrustedAggregateKey, <<>>)

\* POST /e3/reset, with the trusted keys: `verifier ??= await deploy(...)`.
ResetRequest(client, root) ==
  /\ handlers[client] = Idle
  /\ CanSend
  /\ handlers' = [handlers EXCEPT ![client] =
       [at |-> IF verifier = None THEN "verifier" ELSE "anchor", root |-> root,
        tx |-> Len(sent) + 1]]
  /\ Send(IF verifier = None THEN DeployVerifier ELSE DeployAnchor(root, verifier))
  /\ UNCHANGED <<epochAnchor, verifier, chain, reorgs>>

VerifierDeployed(client) ==
  LET handler == handlers[client]
  IN /\ handler.at = "verifier"
     /\ handler.tx <= Mined
     /\ CanSend
     /\ verifier' = handler.tx
     /\ Send(DeployAnchor(handler.root, handler.tx))
     /\ Reply(client, [handler EXCEPT !.at = "anchor", !.tx = Len(sent) + 1])
     /\ UNCHANGED <<epochAnchor, chain, reorgs>>

AnchorDeployed(client) ==
  LET handler == handlers[client]
  IN /\ handler.at = "anchor"
     /\ handler.tx <= Mined
     /\ epochAnchor' = handler.tx
     /\ Reply(client, [at |-> "replied", status |-> 201, anchor |-> handler.tx])
     /\ UNCHANGED <<verifier, chainVars>>

-----------------------------------------------------------------------------

\* POST /e3/anchor up to the transaction.
AnchorRequest(client, epoch, old, values) ==
  LET tx == VerifyAndAnchor(epochAnchor, epoch, old, values)
  IN /\ handlers[client] = Idle
     /\ CanSend
     /\ IF /\ epochAnchor # None
           /\ <<values.certificateRoot, values.polygonCommitment>> \in Policies
           /\ values.epoch = epoch /\ values.old = old
           /\ CanEstimate(tx)
          THEN /\ Send(tx)
               /\ Reply(client, [at |-> "sent", tx |-> Len(sent) + 1])
          ELSE /\ Refuse(client)
               /\ UNCHANGED sent
     /\ UNCHANGED <<epochAnchor, verifier, chain, reorgs>>

\* tx.wait() is back: `await epochAnchor.nullifierRoot()`, or it threw.
ReceiptArrives(client) ==
  LET handler == handlers[client]
  IN /\ handler.at = "sent"
     /\ handler.tx <= Mined
     /\ IF Receipt(handler.tx).status
          THEN Reply(client, [at |-> "root", tx |-> handler.tx, asked |-> epochAnchor])
          ELSE Refuse(client)
     /\ UNCHANGED <<epochAnchor, verifier, chainVars>>

\* The node answers that call from its latest state.
RootAnswered(client) ==
  LET handler == handlers[client]
  IN /\ handler.at = "root"
     /\ Reply(client,
          [at |-> "answered", tx |-> handler.tx,
           root |-> IF HasCode(Latest, handler.asked)
                      THEN Contract(Latest, handler.asked).root ELSE <<>>])
     /\ UNCHANGED <<epochAnchor, verifier, chainVars>>

\* The answer arrives: the root is compared, and the address is asked of what
\* the variable holds by then.
RootArrives(client) ==
  LET handler == handlers[client]
  IN /\ handler.at = "answered"
     /\ IF handler.root = sent[handler.tx].values.new
          THEN Reply(client, [at |-> "address", tx |-> handler.tx, anchor |-> epochAnchor,
                              root |-> handler.root])
          ELSE Refuse(client)
     /\ UNCHANGED <<epochAnchor, verifier, chainVars>>

\* Mutant: the event is found in whatever contract's log.
AnyAnchorEvent(tx) == sent[tx].kind = "anchor"

\* anchorEvent: a log of the contract the variable holds now.
AnchorEvent(tx) == sent[tx].kind = "anchor" /\ sent[tx].to = epochAnchor

AddressArrives(client) ==
  LET handler == handlers[client]
  IN /\ handler.at = "address"
     /\ IF AnchorEvent(handler.tx)
          THEN Reply(client, [at |-> "replied", status |-> 201, anchor |-> handler.anchor,
                              tx |-> handler.tx, root |-> handler.root])
          ELSE Refuse(client)
     /\ UNCHANGED <<epochAnchor, verifier, chainVars>>

ServerNext ==
  \E client \in Clients :
    \/ VerifierDeployed(client)
    \/ AnchorDeployed(client)
    \/ ReceiptArrives(client)
    \/ RootAnswered(client)
    \/ RootArrives(client)
    \/ AddressArrives(client)

\* The client has the reply, or has given up on it before it was sent.
Forget(client) == handlers' = [handlers EXCEPT ![client] = Idle]

=============================================================================
