-------------------------- MODULE ViewVerifyProofs --------------------------
(***************************************************************************)
(* Proofs about an archived run in the world of ViewVerify, for any        *)
(* clients, schedules, policies, depths, fan-in and bounds: what a reply   *)
(* of the anchor server says is true, although the handler reads the       *)
(* server's variable again after each await; the host's sparse map is the  *)
(* tree it stands for; the archived paths lead to the anchored root; the   *)
(* host stays in step with the contract it was given; an honest view of an *)
(* archived lot is accepted; and whatever a view accepts is true of the    *)
(* records that were proved.                                               *)
(***************************************************************************)
EXTENDS ViewVerify, FiniteSetTheorems, TLAPS


Deploying == {"verifier", "anchor"}
Anchoring == {"sent", "root", "answered", "address"}
Places == Deploying \cup Anchoring \cup {"idle", "replied"}

\* The contract that a handler's transaction is for.
Target(handler) == sent[handler.tx].to

\* The deployments of anchors whose handlers have yet to set the variable.
Awaited == {handlers[c].tx : c \in {d \in Clients : handlers[d].at = "anchor"}}

\* Transactions are only appended; every handler has one that was sent.
SentInv ==
  /\ \E some : sent \in Seq(some)
  /\ DOMAIN handlers = Clients
  /\ \A c \in Clients :
       /\ handlers[c].at \in Places
       /\ handlers[c].at \in Deploying \cup Anchoring => handlers[c].tx \in DOMAIN sent
       /\ handlers[c].at \in Anchoring => sent[handlers[c].tx].kind = "anchor"
       /\ handlers[c].at = "verifier" => {"at", "tx"} \subseteq DOMAIN handlers[c]

\* Each deployment sets the variable once: the ones awaited are of one handler
\* each and are not in it yet.  So a contract the variable leaves never returns
\* to it.
DeployInv ==
  /\ epochAnchor = None \/ epochAnchor \in DOMAIN sent
  /\ epochAnchor \notin Awaited
  /\ \A c, d \in Clients :
       c # d /\ handlers[c].at = "anchor" /\ handlers[d].at = "anchor" =>
         handlers[c].tx # handlers[d].tx

\* A transaction is for a contract that was in the variable.  By the time its
\* root has been compared, the contract asked for its address is that one, or it
\* has left the variable for good.
AnchoringInv ==
  \A c \in Clients :
    LET handler == handlers[c]
    IN /\ handler.at \in Anchoring =>
            Target(handler) \in DOMAIN sent /\ Target(handler) \notin Awaited
       /\ handler.at = "address" =>
            /\ handler.root = sent[handler.tx].values.new
            /\ handler.anchor = Target(handler) \/ epochAnchor # Target(handler)

\* A reply that names a transaction.
Reports(reply) == reply.at = "replied" /\ reply.status = 201 /\ "tx" \in DOMAIN reply

RepliesInv ==
  \A c \in Clients : Reports(handlers[c]) =>
    /\ handlers[c].tx \in DOMAIN sent
    /\ Target(handlers[c]) = handlers[c].anchor
    /\ sent[handlers[c].tx].values.new = handlers[c].root

\* The inductive invariant.
ServerInv == SentInv /\ DeployInv /\ AnchoringInv /\ RepliesInv

-----------------------------------------------------------------------------
(* How the server's world moves.                                             *)

\* The transactions sent stay as they are, and more may follow.
SentStays ==
  /\ \E some : sent' \in Seq(some)
  /\ \A i \in DOMAIN sent : i \in DOMAIN sent' /\ sent'[i] = sent[i]

LEMMA SentFacts ==
  ASSUME SentInv
  PROVE  Len(sent) \in Nat /\ DOMAIN sent = 1 .. Len(sent)
<1>1. PICK some : sent \in Seq(some)
  BY DEF SentInv
<1> QED
  BY <1>1

LEMMA Sends ==
  ASSUME SentInv, NEW tx, Send(tx)
  PROVE  /\ SentStays
         /\ Len(sent) + 1 \in DOMAIN sent' /\ Len(sent) + 1 \notin DOMAIN sent
         /\ sent'[Len(sent) + 1] = tx
<1>1. PICK some : sent \in Seq(some)
  BY DEF SentInv
<1> DEFINE more == some \cup {tx}
<1>2. sent \in Seq(more)
  <2>1. Len(sent) \in Nat /\ sent \in [1 .. Len(sent) -> some]
    BY <1>1
  <2>2. sent \in [1 .. Len(sent) -> more]
    BY <2>1
  <2> QED
    BY <1>1, <2>1, <2>2
<1>3. tx \in more /\ sent' = Append(sent, tx)
  BY DEF Send
<1> HIDE DEF more
<1>4. sent' \in Seq(more)
  BY <1>2, <1>3
<1>5. /\ Len(sent) \in Nat /\ DOMAIN sent = 1 .. Len(sent)
      /\ DOMAIN sent' = 1 .. Len(sent) + 1
      /\ \A i \in 1 .. Len(sent) : sent'[i] = sent[i]
      /\ sent'[Len(sent) + 1] = tx
  BY <1>2, <1>3
<1> QED
  BY <1>4, <1>5 DEF SentStays

LEMMA SentUnchanged ==
  ASSUME SentInv, sent' = sent
  PROVE  SentStays
BY DEF SentInv, SentStays

\* No handler moves.
LEMMA WorldMoves ==
  ASSUME ServerInv, SentStays, UNCHANGED <<handlers, epochAnchor>>
  PROVE  ServerInv'
<1>1. Awaited' = Awaited
  BY DEF Awaited
<1>2. SentInv'
  BY DEF ServerInv, SentInv, SentStays, Deploying, Anchoring
<1>3. DeployInv'
  BY <1>1 DEF ServerInv, DeployInv, SentStays
<1>4. AnchoringInv'
  BY <1>1 DEF ServerInv, SentInv, AnchoringInv, SentStays, Target, Anchoring
<1>5. RepliesInv'
  BY DEF ServerInv, RepliesInv, SentStays, Target, Reports
<1> QED
  BY <1>2, <1>3, <1>4, <1>5 DEF ServerInv

\* What a handler must be to be in order after a step.
InOrder(handler) ==
  /\ handler.at \in Places
  /\ handler.at \in Deploying \cup Anchoring => handler.tx \in DOMAIN sent'
  /\ handler.at = "verifier" => {"at", "tx"} \subseteq DOMAIN handler
  /\ handler.at = "anchor" => handler.tx \notin DOMAIN sent
  /\ handler.at \in Anchoring =>
       /\ sent'[handler.tx].kind = "anchor"
       /\ sent'[handler.tx].to \in DOMAIN sent /\ sent'[handler.tx].to \notin Awaited
  /\ handler.at = "address" =>
       /\ handler.root = sent'[handler.tx].values.new
       /\ handler.anchor = sent'[handler.tx].to \/ epochAnchor # sent'[handler.tx].to
  /\ Reports(handler) =>
       /\ handler.tx \in DOMAIN sent'
       /\ sent'[handler.tx].to = handler.anchor
       /\ sent'[handler.tx].values.new = handler.root

\* The step makes it so, and sets the variable to what the handler waited for if
\* it sets it at all.
Sets(client) ==
  \/ epochAnchor' = epochAnchor
  \/ /\ client \in Clients /\ handlers[client].at = "anchor"
     /\ epochAnchor' = handlers[client].tx
     /\ handlers'[client].at = "replied"

\* A handler moves, and with it the variable if its anchor is deployed.
LEMMA HandlerMoves ==
  ASSUME ServerInv, SentStays, NEW client, NEW handler, InOrder(handler),
         Reply(client, handler), Sets(client)
  PROVE  ServerInv'
<1>0. SentInv /\ DeployInv /\ AnchoringInv /\ RepliesInv
  BY DEF ServerInv
<1>1. /\ DOMAIN handlers' = Clients
      /\ \A c \in Clients : handlers'[c] = IF c = client THEN handler ELSE handlers[c]
  BY <1>0 DEF Reply, SentInv
<1>2. DOMAIN sent = 1 .. Len(sent) /\ Len(sent) \in Nat /\ None \notin DOMAIN sent
  BY <1>0, SentFacts DEF None
<1>3. None \notin DOMAIN sent'
  <2>1. PICK some : sent' \in Seq(some)
    BY DEF SentStays
  <2> QED
    BY <2>1 DEF None
<1>4. \A i \in DOMAIN sent : i \in DOMAIN sent' /\ sent'[i] = sent[i]
  BY DEF SentStays
\* What is awaited was awaited before, or has just been sent.
<1>5. \A i \in Awaited' : i \in Awaited \/ (i \notin DOMAIN sent /\ i \in DOMAIN sent')
  BY <1>1 DEF Awaited, InOrder, Deploying
\* The variable holds what it held, or what was awaited.
<1>6. epochAnchor' = epochAnchor \/ epochAnchor' \in Awaited
  BY DEF Sets, Awaited
<1>7. epochAnchor' = None \/ epochAnchor' \in DOMAIN sent
  BY <1>0, <1>6 DEF DeployInv, SentInv, Sets, Deploying
<1>8. SentInv'
  <2>1. \E some : sent' \in Seq(some)
    BY DEF SentStays
  <2>2. ASSUME NEW c \in Clients
        PROVE  /\ handlers'[c].at \in Places
               /\ handlers'[c].at \in Deploying \cup Anchoring =>
                    handlers'[c].tx \in DOMAIN sent'
               /\ handlers'[c].at \in Anchoring => sent'[handlers'[c].tx].kind = "anchor"
               /\ handlers'[c].at = "verifier" =>
                    {"at", "tx"} \subseteq DOMAIN handlers'[c]
    <3>1. CASE c = client
      BY <1>1, <3>1 DEF InOrder
    <3>2. CASE c # client
      BY <1>0, <1>1, <1>4, <3>2 DEF SentInv
    <3> QED
      BY <3>1, <3>2
  <2> QED
    BY <1>1, <2>1, <2>2 DEF SentInv
<1>9. DeployInv'
  <2>1. epochAnchor' \notin Awaited'
    <3>1. CASE epochAnchor' = epochAnchor
      BY <1>0, <1>2, <1>3, <1>5, <3>1 DEF DeployInv
    <3>2. CASE epochAnchor' # epochAnchor
      <4>1. /\ client \in Clients /\ handlers[client].at = "anchor"
            /\ epochAnchor' = handlers[client].tx /\ handler.at = "replied"
        BY <1>1, <3>2 DEF Sets
      <4>2. ASSUME NEW c \in Clients, handlers'[c].at = "anchor"
            PROVE  handlers'[c].tx # epochAnchor'
        <5>1. c # client
          BY <1>1, <4>1, <4>2
        <5> QED
          BY <1>0, <1>1, <4>1, <4>2, <5>1 DEF DeployInv
      <4> QED
        BY <4>2 DEF Awaited
    <3> QED
      BY <3>1, <3>2
  <2>2. ASSUME NEW c \in Clients, NEW d \in Clients, c # d,
               handlers'[c].at = "anchor", handlers'[d].at = "anchor"
        PROVE  handlers'[c].tx # handlers'[d].tx
    <3>1. CASE c # client /\ d # client
      BY <1>0, <1>1, <2>2, <3>1 DEF DeployInv
    <3>2. CASE c = client \/ d = client
      <4>1. \A e \in Clients : e # client /\ handlers'[e].at = "anchor" =>
              handlers'[e].tx \in DOMAIN sent
        BY <1>0, <1>1 DEF SentInv, Deploying
      <4>2. handler.at = "anchor" => handler.tx \notin DOMAIN sent
        BY DEF InOrder
      <4> QED
        BY <1>1, <2>2, <3>2, <4>1, <4>2
    <3> QED
      BY <3>1, <3>2
  <2>3. epochAnchor' = None \/ epochAnchor' \in DOMAIN sent'
    BY <1>4, <1>7
  <2> QED
    BY <2>1, <2>2, <2>3 DEF DeployInv
<1>10. AnchoringInv'
  <2> SUFFICES ASSUME NEW c \in Clients
               PROVE  /\ handlers'[c].at \in Anchoring =>
                           /\ sent'[handlers'[c].tx].to \in DOMAIN sent'
                           /\ sent'[handlers'[c].tx].to \notin Awaited'
                      /\ handlers'[c].at = "address" =>
                           /\ handlers'[c].root = sent'[handlers'[c].tx].values.new
                           /\ \/ handlers'[c].anchor = sent'[handlers'[c].tx].to
                              \/ epochAnchor' # sent'[handlers'[c].tx].to
    BY DEF AnchoringInv, Target
  <2> DEFINE new == handlers'[c]
             target == sent'[handlers'[c].tx].to
  <2>1. ASSUME new.at \in Anchoring
        PROVE  target \in DOMAIN sent /\ target \notin Awaited
    <3>1. CASE c = client
      BY <1>1, <2>1, <3>1 DEF InOrder
    <3>2. CASE c # client
      <4>1. handlers[c].at \in Anchoring /\ handlers'[c] = handlers[c]
        BY <1>1, <2>1, <3>2
      <4>2. handlers[c].tx \in DOMAIN sent
        BY <1>0, <4>1 DEF SentInv
      <4> QED
        BY <1>0, <1>4, <4>1, <4>2 DEF AnchoringInv, Target
    <3> QED
      BY <3>1, <3>2
  <2>2. new.at \in Anchoring => target \in DOMAIN sent' /\ target \notin Awaited'
    BY <1>4, <1>5, <2>1
  <2>3. ASSUME new.at = "address"
        PROVE  /\ new.root = sent'[new.tx].values.new
               /\ new.anchor = target \/ epochAnchor # target
    <3>1. CASE c = client
      BY <1>1, <2>3, <3>1 DEF InOrder
    <3>2. CASE c # client
      <4>1. handlers[c].at = "address" /\ handlers'[c] = handlers[c]
        BY <1>1, <2>3, <3>2
      <4>2. handlers[c].tx \in DOMAIN sent
        BY <1>0, <4>1 DEF SentInv, Anchoring
      <4> QED
        BY <1>0, <1>4, <4>1, <4>2 DEF AnchoringInv, Target
    <3> QED
      BY <3>1, <3>2
  <2>4. new.at = "address" => new.anchor = target \/ epochAnchor' # target
    BY <1>6, <2>1, <2>3 DEF Anchoring
  <2> QED
    BY <2>2, <2>3, <2>4
<1>11. RepliesInv'
  <2> SUFFICES ASSUME NEW c \in Clients, Reports(handlers'[c])
               PROVE  /\ handlers'[c].tx \in DOMAIN sent'
                      /\ sent'[handlers'[c].tx].to = handlers'[c].anchor
                      /\ sent'[handlers'[c].tx].values.new = handlers'[c].root
    BY DEF RepliesInv, Target, Reports
  <2>1. CASE c = client
    BY <1>1, <2>1 DEF InOrder
  <2>2. CASE c # client
    <3>1. handlers'[c] = handlers[c]
      BY <1>1, <2>2
    <3> QED
      BY <1>0, <1>4, <3>1 DEF RepliesInv, Target
  <2> QED
    BY <2>1, <2>2
<1> QED
  BY <1>8, <1>9, <1>10, <1>11 DEF ServerInv

-----------------------------------------------------------------------------
(* Each step of a handler is such a move.                                    *)

\* Refusals name no transaction, and a client that forgets has no handler.
LEMMA Refuses ==
  ASSUME ServerInv, SentStays, NEW client, Refuse(client), UNCHANGED epochAnchor
  PROVE  ServerInv'
<1> DEFINE h == [at |-> "replied", status |-> 422]
<1>1. InOrder(h)
  BY DEF InOrder, Places, Deploying, Anchoring, Reports
<1>2. Reply(client, h) /\ Sets(client)
  BY DEF Refuse, Sets
<1> QED
  BY <1>1, <1>2, HandlerMoves

LEMMA Forgets ==
  ASSUME ServerInv, SentStays, NEW client, Forget(client), UNCHANGED epochAnchor
  PROVE  ServerInv'
<1>1. InOrder(Idle)
  BY DEF InOrder, Places, Deploying, Anchoring, Reports, Idle
<1>2. Reply(client, Idle) /\ Sets(client)
  BY DEF Forget, Reply, Sets
<1> QED
  BY <1>1, <1>2, HandlerMoves

\* The first deployment of a reset.
LEMMA ResetMoves ==
  ASSUME ServerInv, NEW client, NEW root, ResetRequest(client, root)
  PROVE  ServerInv'
<1> DEFINE h == [at |-> IF verifier = None THEN "verifier" ELSE "anchor",
                 root |-> root, tx |-> Len(sent) + 1]
           tx == IF verifier = None THEN DeployVerifier ELSE DeployAnchor(root, verifier)
<1>1. SentInv /\ Send(tx)
  BY DEF ResetRequest, ServerInv
<1> HIDE DEF tx
<1>2. SentStays /\ Len(sent) + 1 \in DOMAIN sent' /\ Len(sent) + 1 \notin DOMAIN sent
  BY <1>1, Sends
<1>3. InOrder(h)
  BY <1>2 DEF InOrder, Places, Deploying, Anchoring, Reports
<1>4. Reply(client, h) /\ Sets(client)
  BY DEF ResetRequest, Reply, Sets
<1> QED
  BY <1>2, <1>3, <1>4, HandlerMoves

\* The second, after its verifier's.
LEMMA VerifierMoves ==
  ASSUME ServerInv, NEW client \in Clients, VerifierDeployed(client)
  PROVE  ServerInv'
<1> DEFINE handler == handlers[client]
           h == [handler EXCEPT !.at = "anchor", !.tx = Len(sent) + 1]
           tx == DeployAnchor(handler.root, handler.tx)
<1>1. SentInv /\ Send(tx)
  BY DEF VerifierDeployed, ServerInv
<1> HIDE DEF tx
<1>2. SentStays /\ Len(sent) + 1 \in DOMAIN sent' /\ Len(sent) + 1 \notin DOMAIN sent
  BY <1>1, Sends
<1>3. {"at", "tx"} \subseteq DOMAIN handler
  BY <1>1 DEF VerifierDeployed, SentInv
<1>4. h.at = "anchor" /\ h.tx = Len(sent) + 1
  BY <1>3
<1>5. Reply(client, h) /\ Sets(client)
  BY DEF VerifierDeployed, Sets
<1> HIDE DEF h
<1>6. InOrder(h)
  BY <1>2, <1>4 DEF InOrder, Places, Deploying, Anchoring, Reports
<1> QED
  BY <1>2, <1>5, <1>6, HandlerMoves

\* The variable is set, and the reset answered.
LEMMA AnchorMoves ==
  ASSUME ServerInv, NEW client \in Clients, AnchorDeployed(client)
  PROVE  ServerInv'
<1> DEFINE h == [at |-> "replied", status |-> 201, anchor |-> handlers[client].tx]
<1>1. SentStays
  BY SentUnchanged DEF AnchorDeployed, chainVars, ServerInv
<1>2. "tx" \notin DOMAIN h /\ h.at = "replied"
  OBVIOUS
<1>3. InOrder(h)
  BY <1>2 DEF InOrder, Places, Deploying, Anchoring, Reports
<1>4. Reply(client, h)
  BY DEF AnchorDeployed
<1>5. handlers'[client] = h
  BY <1>4 DEF Reply, ServerInv, SentInv
<1>6. Sets(client)
  BY <1>2, <1>5 DEF AnchorDeployed, Sets
<1> QED
  BY <1>1, <1>3, <1>4, <1>6, HandlerMoves

\* An epoch's transaction is sent, or the request refused.
LEMMA RequestMoves ==
  ASSUME ServerInv, NEW client, NEW epoch, NEW old, NEW values,
         AnchorRequest(client, epoch, old, values)
  PROVE  ServerInv'
<1> DEFINE tx == VerifyAndAnchor(epochAnchor, epoch, old, values)
           h == [at |-> "sent", tx |-> Len(sent) + 1]
<1>0. SentInv /\ UNCHANGED epochAnchor
  BY DEF AnchorRequest, ServerInv
<1>1. CASE epochAnchor # None /\ Send(tx) /\ Reply(client, h)
  <2>1. tx.kind = "anchor" /\ tx.to = epochAnchor
    BY DEF VerifyAndAnchor
  <2>2. epochAnchor \in DOMAIN sent /\ epochAnchor \notin Awaited
    BY <1>1 DEF ServerInv, DeployInv
  <2> HIDE DEF tx
  <2>3. /\ SentStays /\ Len(sent) + 1 \in DOMAIN sent'
        /\ sent'[Len(sent) + 1] = tx
    BY <1>0, <1>1, Sends
  <2>4. InOrder(h)
    BY <2>1, <2>2, <2>3 DEF InOrder, Places, Deploying, Anchoring, Reports
  <2>5. Sets(client)
    BY <1>0 DEF Sets
  <2> QED
    BY <1>1, <2>3, <2>4, <2>5, HandlerMoves
<1>2. CASE Refuse(client) /\ UNCHANGED sent
  BY <1>0, <1>2, SentUnchanged, Refuses
<1> QED
  BY <1>1, <1>2 DEF AnchorRequest

\* The steps of a handler whose transaction was sent: the contract it is for
\* stays known.
LEMMA AwaitMoves ==
  ASSUME ServerInv, NEW client \in Clients, handlers[client].at \in Anchoring,
         UNCHANGED <<sent, epochAnchor>>, NEW h, Reply(client, h),
         h.tx = handlers[client].tx, h.at \in Anchoring \cup {"replied"},
         h.at = "address" =>
           h.root = sent[h.tx].values.new /\ h.anchor = epochAnchor,
         h.at = "replied" =>
           Target(h) = h.anchor /\ sent[h.tx].values.new = h.root
  PROVE  ServerInv'
<1>1. SentInv /\ AnchoringInv
  BY DEF ServerInv
<1>2. SentStays
  BY <1>1, SentUnchanged
<1>3. h.tx \in DOMAIN sent /\ sent[h.tx].kind = "anchor"
  BY <1>1 DEF SentInv
<1>4. sent[h.tx].to \in DOMAIN sent /\ sent[h.tx].to \notin Awaited
  BY <1>1 DEF AnchoringInv, Target
<1>5. h.at \in Places /\ h.at \notin Deploying
  BY DEF Places, Deploying, Anchoring
<1>6. InOrder(h)
  BY <1>3, <1>4, <1>5 DEF InOrder, Deploying, Reports, Target
<1>7. Sets(client)
  BY DEF Sets
<1> QED
  BY <1>2, <1>6, <1>7, HandlerMoves

\* The receipt arrives: the variable is asked for its root, or it threw.
LEMMA ReceiptMoves ==
  ASSUME ServerInv, NEW client \in Clients, ReceiptArrives(client)
  PROVE  ServerInv'
<1> DEFINE tx == handlers[client].tx
           h == [at |-> "root", tx |-> tx, asked |-> epochAnchor]
<1>1. handlers[client].at \in Anchoring /\ UNCHANGED <<sent, epochAnchor>>
  BY DEF ReceiptArrives, Anchoring, chainVars
<1>2. CASE Reply(client, h)
  <2>1. h.tx = tx /\ h.at \in Anchoring /\ h.at # "address" /\ h.at # "replied"
    BY DEF Anchoring
  <2> QED
    BY <1>1, <1>2, <2>1, AwaitMoves
<1>3. CASE Refuse(client)
  BY <1>1, <1>3, SentUnchanged, Refuses DEF ServerInv
<1> QED
  BY <1>2, <1>3 DEF ReceiptArrives

\* The node answers.
LEMMA RootMoves ==
  ASSUME ServerInv, NEW client \in Clients, RootAnswered(client)
  PROVE  ServerInv'
<1> DEFINE asked == handlers[client].asked
           h == [at |-> "answered", tx |-> handlers[client].tx,
                 root |-> IF HasCode(Latest, asked)
                            THEN Contract(Latest, asked).root ELSE <<>>]
<1>1. handlers[client].at \in Anchoring /\ UNCHANGED <<sent, epochAnchor>>
  BY DEF RootAnswered, Anchoring, chainVars
<1>2. Reply(client, h)
  BY DEF RootAnswered
<1>3. /\ h.tx = handlers[client].tx
      /\ h.at \in Anchoring /\ h.at # "address" /\ h.at # "replied"
  BY DEF Anchoring
<1> HIDE DEF h
<1> QED
  BY <1>1, <1>2, <1>3, AwaitMoves

\* The root is compared, and the variable read for the address.
LEMMA AddressMoves ==
  ASSUME ServerInv, NEW client \in Clients, RootArrives(client)
  PROVE  ServerInv'
<1> DEFINE tx == handlers[client].tx
           root == handlers[client].root
           h == [at |-> "address", tx |-> tx, anchor |-> epochAnchor, root |-> root]
<1>1. handlers[client].at \in Anchoring /\ UNCHANGED <<sent, epochAnchor>>
  BY DEF RootArrives, Anchoring, chainVars
<1>2. CASE root = sent[tx].values.new /\ Reply(client, h)
  <2>1. /\ h.tx = tx /\ h.at \in Anchoring /\ h.at # "replied"
        /\ h.root = sent[h.tx].values.new /\ h.anchor = epochAnchor
    BY <1>2 DEF Anchoring
  <2> QED
    BY <1>1, <1>2, <2>1, AwaitMoves
<1>3. CASE Refuse(client)
  BY <1>1, <1>3, SentUnchanged, Refuses DEF ServerInv
<1> QED
  BY <1>2, <1>3 DEF RootArrives

\* The event is looked for in the log of the contract the variable holds now.
\* If it is there, this is the contract of the transaction, which then never
\* left the variable: the address is its own.
LEMMA ReplyMoves ==
  ASSUME ServerInv, NEW client \in Clients, AddressArrives(client)
  PROVE  ServerInv'
<1> DEFINE handler == handlers[client]
           h == [at |-> "replied", status |-> 201, anchor |-> handler.anchor,
                 tx |-> handler.tx, root |-> handler.root]
<1>1. /\ handler.at = "address" /\ handler.at \in Anchoring
      /\ UNCHANGED <<sent, epochAnchor>>
  BY DEF AddressArrives, Anchoring, chainVars
<1>2. CASE AnchorEvent(handler.tx) /\ Reply(client, h)
  <2>1. epochAnchor = Target(handler)
    BY <1>2 DEF AnchorEvent, Target
  <2>2. handler.anchor = Target(handler) /\ handler.root = sent[handler.tx].values.new
    BY <1>1, <2>1 DEF ServerInv, AnchoringInv
  <2>3. /\ h.tx = handler.tx /\ h.at = "replied"
        /\ Target(h) = h.anchor /\ sent[h.tx].values.new = h.root
    BY <2>2 DEF Target
  <2> HIDE DEF h
  <2> QED
    BY <1>1, <1>2, <2>3, AwaitMoves
<1>3. CASE Refuse(client)
  BY <1>1, <1>3, SentUnchanged, Refuses DEF ServerInv
<1> QED
  BY <1>2, <1>3 DEF AddressArrives

\* Any step of any handler.
LEMMA ServerMoves ==
  ASSUME ServerInv, ServerNext
  PROVE  ServerInv'
BY VerifierMoves, AnchorMoves, ReceiptMoves, RootMoves, AddressMoves, ReplyMoves
   DEF ServerNext

-----------------------------------------------------------------------------
(* The runs.                                                                 *)

LEMMA ServerStarts ==
  ASSUME Init
  PROVE  ServerInv
<1>1. sent = <<>> /\ epochAnchor = None /\ handlers = [c \in Clients |-> Idle]
  BY DEF Init, RunInit, ChainInit, ServerInit
<1>2. \A c \in Clients : handlers[c].at = "idle"
  BY <1>1 DEF Idle
<1>3. DOMAIN handlers = Clients
  BY <1>1
<1>4. sent \in Seq({})
  BY <1>1
<1>5. SentInv
  BY <1>2, <1>3, <1>4 DEF SentInv, Places, Deploying, Anchoring
<1>6. Awaited = {}
  BY <1>2 DEF Awaited
<1>7. DeployInv
  BY <1>1, <1>2, <1>6 DEF DeployInv
<1>8. AnchoringInv
  BY <1>2 DEF AnchoringInv, Anchoring
<1>9. RepliesInv
  BY <1>2 DEF RepliesInv, Reports
<1> QED
  BY <1>5, <1>7, <1>8, <1>9 DEF ServerInv

\* The host: most of its steps leave the server alone.
LEMMA HostKeepsServer ==
  ASSUME ServerInv, HostNext
  PROVE  ServerInv'
<1>0. SentInv
  BY DEF ServerInv
<1>1. CASE HostResets
  BY <1>1, ResetMoves DEF HostResets
<1>2. CASE HostWasReset
  BY <1>0, <1>2, Forgets, SentUnchanged DEF HostWasReset, chainVars
<1>3. CASE HostProvesLeaf
  BY <1>0, <1>3, WorldMoves, SentUnchanged DEF HostProvesLeaf, chainVars, serverVars
<1>4. CASE HostEndsEpoch
  BY <1>0, <1>4, WorldMoves, SentUnchanged DEF HostEndsEpoch, chainVars, serverVars
<1>5. CASE HostProvesNode
  BY <1>0, <1>5, WorldMoves, SentUnchanged DEF HostProvesNode, chainVars, serverVars
<1>6. CASE HostPosts
  BY <1>6, RequestMoves DEF HostPosts
<1>7. CASE HostHasReply
  BY <1>0, <1>7, Forgets, SentUnchanged DEF HostHasReply, chainVars
<1> QED
  BY <1>1, <1>2, <1>3, <1>4, <1>5, <1>6, <1>7 DEF HostNext

\* The rest of the world: another run, the owner, the blocks, the handlers.
LEMMA EnvironmentKeepsServer ==
  ASSUME ServerInv, EnvironmentNext
  PROVE  ServerInv'
<1>0. SentInv
  BY DEF ServerInv
<1>1. CASE OtherResets
  BY <1>1, ResetMoves DEF OtherResets
<1>2. CASE OwnerRevokes
  <2>1. SentStays
    BY <1>0, <1>2, Sends DEF OwnerRevokes
  <2> QED
    BY <1>2, <2>1, WorldMoves DEF OwnerRevokes, serverVars
<1>3. CASE MineBlock /\ UNCHANGED serverVars
  BY <1>0, <1>3, WorldMoves, SentUnchanged DEF MineBlock, serverVars
<1>4. CASE Reorg /\ UNCHANGED serverVars
  BY <1>0, <1>4, WorldMoves, SentUnchanged DEF Reorg, serverVars
<1>5. CASE ServerNext
  BY <1>5, ServerMoves
<1> QED
  BY <1>1, <1>2, <1>3, <1>4, <1>5 DEF EnvironmentNext

\* A view only reads.
LEMMA ServerKept ==
  ASSUME ServerInv, [Next]_vars
  PROVE  ServerInv'
<1>0. SentInv
  BY DEF ServerInv
<1>1. CASE HostNext
  BY <1>1, HostKeepsServer
<1>2. CASE EnvironmentNext
  BY <1>2, EnvironmentKeepsServer
<1>3. CASE UNCHANGED runVars
  BY <1>0, <1>3, WorldMoves, SentUnchanged DEF runVars, chainVars, serverVars
<1>4. CASE ViewNext
  <2>1. UNCHANGED runVars
    BY <1>4 DEF ViewNext, StartView, ReadReceipt, ReadBlock, ReadTx, ReadAnchor, ReadPolicy
  <2> QED
    BY <1>3, <2>1
<1> QED
  BY <1>1, <1>2, <1>3, <1>4 DEF Next, vars

\* The deployments, the variable and the handlers are always in order.
THEOREM Inductive == Spec => []ServerInv
<1> QED
  BY ServerStarts, ServerKept, PTL DEF Spec

\* What a 201 says of an epoch is true, whoever resets the server meanwhile: the
\* transaction is for the contract it names, and proves the root it names.  The
\* handler reads the module's variable again after each of its awaits
\* (anvil_sp1_anchor_server.mjs, /e3/anchor).
THEOREM RepliesTrue == Spec => []ReplyTrue
<1>1. ServerInv => ReplyTrue
  BY DEF ServerInv, RepliesInv, Reports, Target, ReplyTrue
<1> QED
  BY <1>1, Inductive, PTL

-----------------------------------------------------------------------------
(* Induction, and the functions that are defined by recursion.  Each of them *)
(* is shown to be what its defining equation says.                           *)

\* Induction over the naturals, for a set: an initial segment that ends has a
\* last element, whose successor is in the set too.
LEMMA Induction ==
  ASSUME NEW T \in SUBSET Nat, 0 \in T, \A n \in T : n + 1 \in T
  PROVE  T = Nat
<1> SUFFICES ASSUME NEW t \in Nat, t \notin T
             PROVE  FALSE
  OBVIOUS
<1> DEFINE S == 0 .. t
           Upto(n) == {m \in S : n <= m}
           Small == {Upto(n) : n \in {x \in T : x <= t}}
<1>1. IsFiniteSet(S) /\ t \in Nat
  BY FS_Interval
<1>2. IsWellFoundedOn(StrictSubsetOrdering(S), FiniteSubsetsOf(S))
  BY <1>1, FS_StrictSubsetOrderingWellFounded
<1>3. Small \subseteq FiniteSubsetsOf(S) /\ Small # {}
  <2>1. Upto(0) \in Small
    BY <1>1
  <2>2. \A n : Upto(n) \in SUBSET S
    OBVIOUS
  <2>3. \A n : Upto(n) \in FiniteSubsetsOf(S)
    <3> HIDE DEF S, Upto
    <3> QED
      BY <1>1, <2>2, FS_Subset, FS_FiniteSubsetsOfFinite
  <2>4. \A b \in Small : \E n : b = Upto(n)
    OBVIOUS
  <2> HIDE DEF Small, Upto
  <2> QED
    BY <2>1, <2>3, <2>4
<1>4. PICK b \in Small : \A c \in Small : ~ (<<c, b>> \in StrictSubsetOrdering(S))
  <2> HIDE DEF Small, S
  <2> QED
    BY <1>2, <1>3, WFMin
<1>5. PICK n \in T : n <= t /\ b = Upto(n)
  BY <1>4
<1>6. n + 1 \in T /\ n + 1 <= t
  BY <1>1, <1>5
<1>7. Upto(n + 1) \in Small
  BY <1>6
<1>8. n \in Upto(n) /\ n \notin Upto(n + 1) /\ Upto(n + 1) \subseteq Upto(n)
  BY <1>1, <1>5
<1>9. <<Upto(n + 1), b>> \in StrictSubsetOrdering(S)
  BY <1>5, <1>8 DEF StrictSubsetOrdering
<1> QED
  BY <1>4, <1>7, <1>9

\* The places above a place.
LEMMA AboveDef ==
  ASSUME NEW index
  PROVE  /\ Above(index)[0] = index
         /\ \A k \in Nat \ {0} : Above(index)[k] = Above(index)[k - 1] \div 2
<1> DEFINE Fits(g, n) == g = [k \in 0 .. n |-> IF k = 0 THEN index ELSE g[k - 1] \div 2]
           T == {n \in Nat : \E g : Fits(g, n)}
           Upto(n) == CHOOSE g : Fits(g, n)
           all == [k \in Nat |-> Upto(k)[k]]
<1>1. 0 \in T
  <2> DEFINE g == [k \in 0 .. 0 |-> index]
  <2>1. Fits(g, 0)
    OBVIOUS
  <2> HIDE DEF g, Fits
  <2> QED
    BY <2>1
<1>2. ASSUME NEW n \in T
      PROVE  n + 1 \in T
  <2>1. PICK g : Fits(g, n)
    OBVIOUS
  <2> DEFINE h == [k \in 0 .. n + 1 |-> IF k = n + 1 THEN g[n] \div 2 ELSE g[k]]
  <2>2. n \in Nat /\ \A k \in 0 .. n : g[k] = IF k = 0 THEN index ELSE g[k - 1] \div 2
    BY <2>1
  <2>3. \A k \in 0 .. n + 1 : h[k] = IF k = 0 THEN index ELSE h[k - 1] \div 2
    BY <2>2
  <2>4. Fits(h, n + 1)
    <3>1. h = [k \in 0 .. n + 1 |-> h[k]]
      OBVIOUS
    <3> HIDE DEF h
    <3> QED
      BY <2>3, <3>1
  <2> HIDE DEF h, Fits
  <2> QED
    BY <2>2, <2>4
<1>3. T = Nat
  <2> HIDE DEF T
  <2> QED
    BY <1>1, <1>2, Induction, T \subseteq Nat DEF T
<1>4. \A n \in Nat : Fits(Upto(n), n)
  <2> HIDE DEF Fits
  <2> QED
    BY <1>3
<1>5. \A n \in Nat : \A k \in 0 .. n :
        Upto(n)[k] = IF k = 0 THEN index ELSE Upto(n)[k - 1] \div 2
  <2> SUFFICES ASSUME NEW n \in Nat
               PROVE  \A k \in 0 .. n :
                        Upto(n)[k] = IF k = 0 THEN index ELSE Upto(n)[k - 1] \div 2
    OBVIOUS
  <2>1. PICK g : g = Upto(n)
    OBVIOUS
  <2>2. Fits(g, n)
    <3> HIDE DEF Fits, Upto
    <3> QED
      BY <1>4, <2>1
  <2>3. \A k \in 0 .. n : g[k] = IF k = 0 THEN index ELSE g[k - 1] \div 2
    BY <2>2
  <2> HIDE DEF Upto
  <2> QED
    BY <2>1, <2>3
<1> HIDE DEF Upto, Fits, T
\* The functions for different lengths agree where both are defined.
<1>6. ASSUME NEW n \in Nat, NEW m \in Nat, m <= n
      PROVE  Upto(n)[m] = Upto(m)[m]
  <2> DEFINE U == {k \in Nat : k <= m => Upto(n)[k] = Upto(m)[k]}
  <2>1. 0 \in U
    BY <1>5
  <2>2. ASSUME NEW k \in U, k + 1 <= m PROVE Upto(n)[k + 1] = Upto(m)[k + 1]
    <3>1. k + 1 \in 0 .. n /\ k + 1 \in 0 .. m /\ k + 1 # 0 /\ k + 1 - 1 = k
      BY <1>6, <2>2
    <3>2. Upto(n)[k] = Upto(m)[k]
      BY <2>2
    <3> QED
      BY <1>5, <3>1, <3>2
  <2>3. \A k \in U : k + 1 \in U
    BY <2>2
  <2>4. U = Nat
    <3> HIDE DEF U
    <3> QED
      BY <2>1, <2>3, Induction, U \subseteq Nat DEF U
  <2> QED
    BY <2>4
<1>7. \A k \in Nat : all[k] = IF k = 0 THEN index ELSE all[k - 1] \div 2
  <2> SUFFICES ASSUME NEW k \in Nat
               PROVE  all[k] = IF k = 0 THEN index ELSE all[k - 1] \div 2
    OBVIOUS
  <2>1. CASE k = 0
    BY <1>5, <2>1
  <2>2. CASE k # 0
    <3>1. k - 1 \in Nat /\ k - 1 <= k
      BY <2>2
    <3>2. Upto(k)[k - 1] = Upto(k - 1)[k - 1]
      BY <1>6, <3>1
    <3>3. Upto(k)[k] = Upto(k)[k - 1] \div 2
      BY <1>5, <2>2
    <3> QED
      BY <2>2, <3>1, <3>2, <3>3
  <2> QED
    BY <2>1, <2>2
<1>8. all = [k \in Nat |-> IF k = 0 THEN index ELSE all[k - 1] \div 2]
  <2>1. all = [k \in Nat |-> all[k]]
    OBVIOUS
  <2> HIDE DEF all
  <2> QED
    BY <1>7, <2>1
<1> HIDE DEF all
<1>9. Above(index) = [k \in Nat |-> IF k = 0 THEN index ELSE Above(index)[k - 1] \div 2]
  BY <1>8 DEF Above
<1> HIDE DEF Above
<1>10. \A k \in Nat : Above(index)[k] = IF k = 0 THEN index ELSE Above(index)[k - 1] \div 2
  BY <1>9, Zenon
<1> QED
  BY <1>10

\* The levels of a tree.
LevelsUp(levels, tag, depth, below) ==
  /\ levels[0] = below
  /\ \A k \in 1 .. depth : \A i \in Nat :
       levels[k][i] = Parent(tag, levels[k - 1][2 * i], levels[k - 1][2 * i + 1])

LEMMA AllLevels ==
  ASSUME NEW tag, NEW depth \in Nat, NEW below
  PROVE  LevelsUp(Levels(tag, depth, below), tag, depth, below)
<1> DEFINE Over(level) == [i \in Nat |-> Parent(tag, level[2 * i], level[2 * i + 1])]
           Fits(g, n) ==
             g = [k \in 0 .. n |-> IF k = 0 THEN below ELSE Over(g[k - 1])]
           T == {n \in Nat : \E g : Fits(g, n)}
<1>1. Levels(tag, depth, below) = CHOOSE g : Fits(g, depth)
  BY DEF Levels
<1> HIDE DEF Over
<1>2. 0 \in T
  <2> DEFINE g == [k \in 0 .. 0 |-> below]
  <2>1. Fits(g, 0)
    OBVIOUS
  <2> HIDE DEF g, Fits
  <2> QED
    BY <2>1
<1>3. ASSUME NEW n \in T
      PROVE  n + 1 \in T
  <2>1. PICK g : Fits(g, n)
    OBVIOUS
  <2> DEFINE h == [k \in 0 .. n + 1 |-> IF k = n + 1 THEN Over(g[n]) ELSE g[k]]
  <2>2. n \in Nat /\ \A k \in 0 .. n : g[k] = IF k = 0 THEN below ELSE Over(g[k - 1])
    BY <2>1
  <2>3. \A k \in 0 .. n + 1 : h[k] = IF k = 0 THEN below ELSE Over(h[k - 1])
    BY <2>2
  <2>4. Fits(h, n + 1)
    <3>1. h = [k \in 0 .. n + 1 |-> h[k]]
      OBVIOUS
    <3> HIDE DEF h
    <3> QED
      BY <2>3, <3>1
  <2> HIDE DEF h, Fits
  <2> QED
    BY <2>2, <2>4
<1>4. depth \in T
  <2> HIDE DEF T
  <2> QED
    BY <1>2, <1>3, Induction, T \subseteq Nat DEF T
<1>5. Fits(Levels(tag, depth, below), depth)
  <2> HIDE DEF Fits
  <2> QED
    BY <1>1, <1>4
<1> DEFINE levels == Levels(tag, depth, below)
<1> HIDE DEF levels, T
<1>6. levels = [k \in 0 .. depth |-> IF k = 0 THEN below ELSE Over(levels[k - 1])]
  BY <1>5 DEF levels
<1>7. \A k \in 0 .. depth : levels[k] = IF k = 0 THEN below ELSE Over(levels[k - 1])
  BY <1>6, Zenon
<1>8. levels[0] = below /\ \A k \in 1 .. depth : levels[k] = Over(levels[k - 1])
  BY <1>7
<1> QED
  BY <1>8 DEF levels, Over, LevelsUp

LEMMA LevelsDef ==
  ASSUME NEW tag, NEW depth \in Nat, NEW below
  PROVE  Levels(tag, depth, below)[0] = below
BY ONLY AllLevels, depth \in Nat DEF LevelsUp

\* One level is made of the parents of the other.
Joins(tag, lower, upper) ==
  \A i \in Nat : upper[i] = Parent(tag, lower[2 * i], lower[2 * i + 1])

LEMMA LevelAbove ==
  ASSUME NEW tag, NEW depth \in Nat, NEW below, NEW k \in Nat, k + 1 <= depth
  PROVE  Joins(tag, Levels(tag, depth, below)[k], Levels(tag, depth, below)[k + 1])
<1> DEFINE levels == Levels(tag, depth, below)
<1>1. LevelsUp(levels, tag, depth, below)
  BY ONLY AllLevels, depth \in Nat DEF levels
<1> HIDE DEF levels
<1>2. \A n \in 1 .. depth : \A i \in Nat :
        levels[n][i] = Parent(tag, levels[n - 1][2 * i], levels[n - 1][2 * i + 1])
  BY ONLY <1>1, Zenon DEF LevelsUp
<1>3. PICK n \in 1 .. depth : n = k + 1 /\ n - 1 = k
  OBVIOUS
<1>4. \A i \in Nat :
        levels[n][i] = Parent(tag, levels[n - 1][2 * i], levels[n - 1][2 * i + 1])
  BY ONLY <1>2, n \in 1 .. depth, Zenon
<1>5. \A i \in Nat :
        levels[k + 1][i] = Parent(tag, levels[k][2 * i], levels[k][2 * i + 1])
  BY ONLY <1>3, <1>4, Zenon
<1> QED
  BY <1>5 DEF levels, Joins

\* A path is folded from its leaf upwards.
FoldsUp(up, tag, leaf, index, path) ==
  /\ up[0] = leaf
  /\ \A k \in 1 .. Len(path) :
       up[k] = IF Above(index)[k - 1] % 2 = 0 THEN Parent(tag, up[k - 1], path[k])
                                              ELSE Parent(tag, path[k], up[k - 1])

LEMMA FoldedDef ==
  ASSUME NEW tag, NEW leaf, NEW index, NEW path, Len(path) \in Nat
  PROVE  \E up : /\ Folded(tag, leaf, index, path) = up[Len(path)]
                 /\ FoldsUp(up, tag, leaf, index, path)
<1> DEFINE Over(node, k) ==
             IF Above(index)[k - 1] % 2 = 0 THEN Parent(tag, node, path[k])
                                            ELSE Parent(tag, path[k], node)
           Fits(g, n) == g = [k \in 0 .. n |-> IF k = 0 THEN leaf ELSE Over(g[k - 1], k)]
           T == {n \in Nat : \E g : Fits(g, n)}
           up == CHOOSE g : Fits(g, Len(path))
<1>1. Folded(tag, leaf, index, path) = up[Len(path)]
  BY DEF Folded
<1> HIDE DEF Over
<1>2. 0 \in T
  <2> DEFINE g == [k \in 0 .. 0 |-> leaf]
  <2>1. Fits(g, 0)
    OBVIOUS
  <2> HIDE DEF g, Fits
  <2> QED
    BY <2>1
<1>3. ASSUME NEW n \in T
      PROVE  n + 1 \in T
  <2>1. PICK g : Fits(g, n)
    OBVIOUS
  <2> DEFINE h == [k \in 0 .. n + 1 |-> IF k = n + 1 THEN Over(g[n], k) ELSE g[k]]
  <2>2. n \in Nat /\ \A k \in 0 .. n : g[k] = IF k = 0 THEN leaf ELSE Over(g[k - 1], k)
    BY <2>1
  <2>3. \A k \in 0 .. n + 1 : h[k] = IF k = 0 THEN leaf ELSE Over(h[k - 1], k)
    BY <2>2
  <2>4. Fits(h, n + 1)
    <3>1. h = [k \in 0 .. n + 1 |-> h[k]]
      OBVIOUS
    <3> HIDE DEF h
    <3> QED
      BY <2>3, <3>1
  <2> HIDE DEF h, Fits
  <2> QED
    BY <2>2, <2>4
<1>4. Len(path) \in T
  <2> HIDE DEF T
  <2> QED
    BY <1>2, <1>3, Induction, T \subseteq Nat DEF T
<1>5. Fits(up, Len(path))
  <2> HIDE DEF Fits
  <2> QED
    BY <1>4
<1> HIDE DEF up, T
<1>6. \A k \in 0 .. Len(path) : up[k] = IF k = 0 THEN leaf ELSE Over(up[k - 1], k)
  BY <1>5
<1>7. up[0] = leaf /\ \A k \in 1 .. Len(path) : up[k] = Over(up[k - 1], k)
  BY <1>6
<1> QED
  BY <1>1, <1>7 DEF Over, FoldsUp

\* The nodes of a tree that nothing is in.
LEMMA EmptyHashesDef ==
  /\ EmptyHashes[0] = EmptyLeaf
  /\ \A k \in 1 .. NullifierDepth :
       EmptyHashes[k] = Parent(NullifierNode, EmptyHashes[k - 1], EmptyHashes[k - 1])
<1> DEFINE Over(node) == Parent(NullifierNode, node, node)
           Fits(g, n) == g = [k \in 0 .. n |-> IF k = 0 THEN EmptyLeaf ELSE Over(g[k - 1])]
           T == {n \in Nat : \E g : Fits(g, n)}
<1>1. EmptyHashes = CHOOSE g : Fits(g, NullifierDepth)
  BY DEF EmptyHashes
<1> HIDE DEF Over
<1>2. 0 \in T
  <2> DEFINE g == [k \in 0 .. 0 |-> EmptyLeaf]
  <2>1. Fits(g, 0)
    OBVIOUS
  <2> HIDE DEF g, Fits
  <2> QED
    BY <2>1
<1>3. ASSUME NEW n \in T
      PROVE  n + 1 \in T
  <2>1. PICK g : Fits(g, n)
    OBVIOUS
  <2> DEFINE h == [k \in 0 .. n + 1 |-> IF k = n + 1 THEN Over(g[n]) ELSE g[k]]
  <2>2. n \in Nat /\ \A k \in 0 .. n : g[k] = IF k = 0 THEN EmptyLeaf ELSE Over(g[k - 1])
    BY <2>1
  <2>3. \A k \in 0 .. n + 1 : h[k] = IF k = 0 THEN EmptyLeaf ELSE Over(h[k - 1])
    BY <2>2
  <2>4. Fits(h, n + 1)
    <3>1. h = [k \in 0 .. n + 1 |-> h[k]]
      OBVIOUS
    <3> HIDE DEF h
    <3> QED
      BY <2>3, <3>1
  <2> HIDE DEF h, Fits
  <2> QED
    BY <2>2, <2>4
<1>4. NullifierDepth \in T
  <2> HIDE DEF T
  <2> QED
    BY <1>2, <1>3, Induction, EpochTreeAssumption, T \subseteq Nat DEF T
<1>5. Fits(EmptyHashes, NullifierDepth)
  <2> HIDE DEF Fits
  <2> QED
    BY <1>1, <1>4
<1> HIDE DEF T
<1>6. \A k \in 0 .. NullifierDepth :
        EmptyHashes[k] = IF k = 0 THEN EmptyLeaf ELSE Over(EmptyHashes[k - 1])
  BY <1>5
<1> QED
  BY <1>6, EpochTreeAssumption DEF Over

-----------------------------------------------------------------------------
(* Trees.                                                                    *)

LEMMA AboveNext ==
  ASSUME NEW index, NEW k \in Nat
  PROVE  Above(index)[k + 1] = Above(index)[k] \div 2
<1>1. k + 1 \in Nat \ {0} /\ k + 1 - 1 = k
  OBVIOUS
<1>2. Above(index)[k + 1] = Above(index)[k + 1 - 1] \div 2
  BY ONLY <1>1, AboveDef
<1> QED
  BY <1>1, <1>2

LEMMA AboveNat ==
  ASSUME NEW index \in Nat, NEW k \in Nat
  PROVE  Above(index)[k] \in Nat
<1> DEFINE T == {n \in Nat : Above(index)[n] \in Nat}
<1>1. 0 \in T
  BY AboveDef
<1>2. ASSUME NEW n \in T
      PROVE  n + 1 \in T
  <2>1. Above(index)[n + 1] = Above(index)[n] \div 2
    BY AboveNext
  <2> QED
    BY <2>1
<1>3. T = Nat
  <2> HIDE DEF T
  <2> QED
    BY <1>1, <1>2, Induction, T \subseteq Nat DEF T
<1> QED
  BY <1>3

\* The two children of a place, of which one is the other's sibling.
LEMMA Children ==
  ASSUME NEW place \in Nat
  PROVE  /\ Sibling(place) \in Nat
         /\ place \div 2 \in Nat
         /\ place % 2 = 0 => place = 2 * (place \div 2)
                              /\ Sibling(place) = 2 * (place \div 2) + 1
         /\ place % 2 # 0 => place = 2 * (place \div 2) + 1
                              /\ Sibling(place) = 2 * (place \div 2)
<1>1. /\ place % 2 \in {0, 1} /\ place \div 2 \in Nat
      /\ place = 2 * (place \div 2) + (place % 2)
  OBVIOUS
<1> QED
  BY <1>1 DEF Sibling

\* The path has the siblings of the nodes above the place, as far as it goes.
OfSiblings(path, levels, index) ==
  \A k \in 1 .. Len(path) : path[k] = levels[k - 1][Sibling(Above(index)[k - 1])]

\* A path of siblings leads from a leaf to the nodes above it.
LEMMA PathLeads ==
  ASSUME NEW tag, NEW depth \in Nat, NEW below, NEW index \in Nat,
         NEW path, Len(path) \in 0 .. depth,
         OfSiblings(path, Levels(tag, depth, below), index)
  PROVE  Folded(tag, below[index], index, path)
           = Levels(tag, depth, below)[Len(path)][Above(index)[Len(path)]]
<1> DEFINE levels == Levels(tag, depth, below)
           at(k) == Above(index)[k]
<1>1. PICK up : /\ Folded(tag, below[index], index, path) = up[Len(path)]
                /\ FoldsUp(up, tag, below[index], index, path)
  <2>1. Len(path) \in Nat
    OBVIOUS
  <2> QED
    BY ONLY <2>1, FoldedDef
<1>2. /\ up[0] = below[index]
      /\ \A k \in 1 .. Len(path) : up[k] =
           IF at(k - 1) % 2 = 0 THEN Parent(tag, up[k - 1], path[k])
                                ELSE Parent(tag, path[k], up[k - 1])
  BY ONLY <1>1 DEF FoldsUp, at
<1> DEFINE T == {k \in Nat : k <= Len(path) => up[k] = levels[k][at(k)]}
<1>3. 0 \in T
  <2>1. levels[0] = below /\ at(0) = index
    <3>1. levels[0] = below
      BY ONLY LevelsDef, depth \in Nat
    <3>2. at(0) = index
      BY ONLY AboveDef
    <3> QED
      BY <3>1, <3>2
  <2> HIDE DEF levels, at
  <2> QED
    BY <1>2, <2>1
<1>4. ASSUME NEW k \in T, k + 1 <= Len(path)
      PROVE  up[k + 1] = levels[k + 1][at(k + 1)]
  <2>1. k \in Nat /\ k + 1 \in 1 .. Len(path) /\ k + 1 <= depth /\ k + 1 - 1 = k
    BY <1>4
  <2>2. up[k] = levels[k][at(k)] /\ path[k + 1] = levels[k][Sibling(at(k))]
    <3>1. path[k + 1] = levels[k + 1 - 1][Sibling(Above(index)[k + 1 - 1])]
      BY <2>1 DEF OfSiblings
    <3>2. k <= Len(path)
      BY <1>4, <2>1
    <3> QED
      BY <1>4, <2>1, <3>1, <3>2
  <2>3. at(k) \in Nat
    BY <2>1, AboveNat
  <2>4. at(k + 1) = at(k) \div 2
    BY <2>1, AboveNext
  <2>5. up[k + 1] = IF at(k) % 2 = 0 THEN Parent(tag, up[k], path[k + 1])
                                     ELSE Parent(tag, path[k + 1], up[k])
    <3> HIDE DEF T
    <3> QED
      BY <1>2, <2>1
  <2>6. \A i \in Nat : levels[k + 1][i] = Parent(tag, levels[k][2 * i], levels[k][2 * i + 1])
    <3>1. Joins(tag, levels[k], levels[k + 1])
      BY ONLY <2>1, LevelAbove, depth \in Nat DEF levels
    <3> QED
      BY ONLY <3>1 DEF Joins
  <2> HIDE DEF levels, at, T
  <2>7. /\ Sibling(at(k)) \in Nat
        /\ at(k) \div 2 \in Nat
        /\ at(k) % 2 = 0 => at(k) = 2 * (at(k) \div 2)
                             /\ Sibling(at(k)) = 2 * (at(k) \div 2) + 1
        /\ at(k) % 2 # 0 => at(k) = 2 * (at(k) \div 2) + 1
                             /\ Sibling(at(k)) = 2 * (at(k) \div 2)
    BY <2>3, Children
  <2>8. levels[k + 1][at(k + 1)] = Parent(tag, levels[k][2 * (at(k) \div 2)],
                                          levels[k][2 * (at(k) \div 2) + 1])
    BY <2>4, <2>6, <2>7
  <2> QED
    BY <2>2, <2>5, <2>7, <2>8
<1>5. \A k \in T : k + 1 \in T
  BY <1>4
<1>6. T = Nat
  <2> HIDE DEF T
  <2> QED
    BY <1>3, <1>5, Induction, T \subseteq Nat DEF T
<1> QED
  BY <1>1, <1>6

-----------------------------------------------------------------------------
(* The host's map of used places.                                            *)

\* A map that has the value of every node of the tree with the given places used.
IsTreeOf(nodes, used) ==
  \A k \in 0 .. NullifierDepth : \A i \in Nat :
    Value(nodes, k, i) = FullLevels(used)[k][i]

UsedLeaves(used) == [i \in Nat |-> IF i \in used THEN UsedLeaf ELSE EmptyLeaf]

\* Without used places every node has the default of its height.
LEMMA EmptyMapIsTree ==
  IsTreeOf(EmptyMap, {})
<1> DEFINE levels == FullLevels({})
           T == {k \in Nat : k <= NullifierDepth =>
                               \A i \in Nat : levels[k][i] = EmptyHashes[k]}
<1>0. NullifierDepth \in Nat /\ levels = Levels(NullifierNode, NullifierDepth, UsedLeaves({}))
  BY EpochTreeAssumption DEF FullLevels, UsedLeaves
<1> HIDE DEF levels
<1>1. 0 \in T
  <2>1. levels[0] = UsedLeaves({})
    BY <1>0, LevelsDef
  <2> QED
    BY <2>1, EmptyHashesDef DEF UsedLeaves
<1>2. ASSUME NEW k \in T, k + 1 <= NullifierDepth
      PROVE  \A i \in Nat : levels[k + 1][i] = EmptyHashes[k + 1]
  <2>1. k \in Nat /\ k <= NullifierDepth /\ k + 1 \in 1 .. NullifierDepth /\ k + 1 - 1 = k
    BY <1>0, <1>2
  <2>2. \A i \in Nat : levels[k][i] = EmptyHashes[k]
    BY <2>1
  <2>3. Joins(NullifierNode, levels[k], levels[k + 1])
    <3> HIDE DEF T
    <3> QED
      BY <1>0, <2>1, LevelAbove
  <2>4. EmptyHashes[k + 1] = Parent(NullifierNode, EmptyHashes[k], EmptyHashes[k])
    BY <2>1, EmptyHashesDef
  <2> HIDE DEF T
  <2> QED
    BY <2>2, <2>3, <2>4 DEF Joins
<1>3. \A k \in T : k + 1 \in T
  BY <1>2
<1>4. T = Nat
  <2> HIDE DEF T
  <2> QED
    BY <1>1, <1>3, Induction, T \subseteq Nat DEF T
<1>5. \A k \in 0 .. NullifierDepth : \A i \in Nat : levels[k][i] = EmptyHashes[k]
  BY <1>0, <1>4
<1>6. \A k, i : Value(EmptyMap, k, i) = EmptyHashes[k]
  BY DEF Value, EmptyMap
<1> QED
  BY <1>5, <1>6 DEF IsTreeOf, levels

\* A place more changes the nodes above it, and no others.
LEMMA OffThePath ==
  ASSUME NEW used, NEW place \in Nat, NEW k \in 0 .. NullifierDepth, NEW i \in Nat,
         i # Above(place)[k]
  PROVE  FullLevels(used \cup {place})[k][i] = FullLevels(used)[k][i]
<1> DEFINE more == used \cup {place}
           old == FullLevels(used)
           new == FullLevels(more)
           at(n) == Above(place)[n]
           T == {n \in Nat : n <= NullifierDepth =>
                               \A j \in Nat : j # at(n) => new[n][j] = old[n][j]}
<1>0. /\ NullifierDepth \in Nat
      /\ old = Levels(NullifierNode, NullifierDepth, UsedLeaves(used))
      /\ new = Levels(NullifierNode, NullifierDepth, UsedLeaves(more))
  BY EpochTreeAssumption DEF FullLevels, UsedLeaves
<1> HIDE DEF old, new
<1>1. 0 \in T
  <2>1. old[0] = UsedLeaves(used)
    BY <1>0, LevelsDef
  <2>2. new[0] = UsedLeaves(more)
    BY <1>0, LevelsDef
  <2>3. at(0) = place
    BY AboveDef
  <2> QED
    BY <2>1, <2>2, <2>3 DEF UsedLeaves
<1>2. ASSUME NEW n \in T, n + 1 <= NullifierDepth
      PROVE  \A j \in Nat : j # at(n + 1) => new[n + 1][j] = old[n + 1][j]
  <2>1. n \in Nat /\ n <= NullifierDepth
    BY <1>0, <1>2
  <2>2. \A j \in Nat : j # at(n) => new[n][j] = old[n][j]
    BY <2>1
  <2> HIDE DEF T
  <2>3. Joins(NullifierNode, old[n], old[n + 1])
    BY <1>0, <1>2, <2>1, LevelAbove
  <2>4. Joins(NullifierNode, new[n], new[n + 1])
    BY <1>0, <1>2, <2>1, LevelAbove
  <2>5. at(n + 1) = at(n) \div 2 /\ at(n) \in Nat
    BY <2>1, AboveNext, AboveNat
  <2> SUFFICES ASSUME NEW j \in Nat, j # at(n + 1)
               PROVE  new[n + 1][j] = old[n + 1][j]
    OBVIOUS
  <2> HIDE DEF at
  <2>6. 2 * j \in Nat /\ 2 * j + 1 \in Nat /\ 2 * j # at(n) /\ 2 * j + 1 # at(n)
    BY <2>5
  <2>7. new[n][2 * j] = old[n][2 * j] /\ new[n][2 * j + 1] = old[n][2 * j + 1]
    BY <2>2, <2>6
  <2> QED
    BY <2>3, <2>4, <2>7 DEF Joins
<1>3. \A n \in T : n + 1 \in T
  BY <1>2
<1>4. T = Nat
  <2> HIDE DEF T
  <2> QED
    BY <1>1, <1>3, Induction, T \subseteq Nat DEF T
<1>5. k \in T /\ k <= NullifierDepth
  <2>1. k \in Nat /\ k <= NullifierDepth
    BY ONLY <1>0, k \in 0 .. NullifierDepth
  <2> HIDE DEF T
  <2> QED
    BY ONLY <1>4, <2>1
<1>6. \A j \in Nat : j # at(k) => new[k][j] = old[k][j]
  BY ONLY <1>5
<1> HIDE DEF T
<1>7. i \in Nat /\ i # at(k)
  OBVIOUS
<1>8. new[k][i] = old[k][i]
  BY ONLY <1>6, <1>7
<1> QED
  BY ONLY <1>8 DEF old, new, more

\* The place's siblings are off its path.
LEMMA PathOfPlace ==
  ASSUME NEW nodes, NEW used, IsTreeOf(nodes, used), NEW place \in Nat,
         NEW k \in 1 .. NullifierDepth
  PROVE  /\ EmptyPath(nodes, place)[k]
              = FullLevels(used)[k - 1][Sibling(Above(place)[k - 1])]
         /\ EmptyPath(nodes, place)[k]
              = FullLevels(used \cup {place})[k - 1][Sibling(Above(place)[k - 1])]
<1> DEFINE path == EmptyPath(nodes, place)
           n == k - 1
           at == Above(place)[n]
<1>2. path[k] = Value(nodes, n, Sibling(at))
  BY DEF EmptyPath
<1>3. n \in Nat /\ n \in 0 .. NullifierDepth
  BY EpochTreeAssumption
<1> HIDE DEF n
<1>4. at \in Nat
  BY <1>3, AboveNat
<1>5. Sibling(at) \in Nat /\ Sibling(at) # at
  <2> HIDE DEF at
  <2> QED
    BY <1>4 DEF Sibling
<1>6. path[k] = FullLevels(used)[n][Sibling(at)]
  <2> HIDE DEF at, path
  <2> QED
    BY <1>2, <1>3, <1>5 DEF IsTreeOf
<1>7. FullLevels(used \cup {place})[n][Sibling(at)] = FullLevels(used)[n][Sibling(at)]
  BY <1>3, <1>5, OffThePath
<1> QED
  BY <1>6, <1>7 DEF n

UsedLeafIf(is) == IF is THEN UsedLeaf ELSE EmptyLeaf

\* The place's own path of a tree, folded.
LEMMA PlaceFolds ==
  ASSUME NEW used, NEW place \in Nat, NEW path, Len(path) \in 0 .. NullifierDepth,
         OfSiblings(path, FullLevels(used), place)
  PROVE  SparseRoot(place, UsedLeafIf(place \in used), path)
           = FullLevels(used)[Len(path)][Above(place)[Len(path)]]
<1>1. FullLevels(used) = Levels(NullifierNode, NullifierDepth, UsedLeaves(used))
  BY DEF FullLevels, UsedLeaves
<1>2. UsedLeaves(used)[place] = UsedLeafIf(place \in used)
  BY DEF UsedLeaves, UsedLeafIf
<1>3. NullifierDepth \in Nat
  BY EpochTreeAssumption
<1>4. Folded(NullifierNode, UsedLeaves(used)[place], place, path)
        = Levels(NullifierNode, NullifierDepth, UsedLeaves(used))[Len(path)][Above(place)[Len(path)]]
  <2>1. OfSiblings(path, Levels(NullifierNode, NullifierDepth, UsedLeaves(used)), place)
    BY <1>1
  <2> QED
    BY ONLY <1>3, <2>1, Len(path) \in 0 .. NullifierDepth, place \in Nat, PathLeads
<1> QED
  BY <1>1, <1>2, <1>4 DEF SparseRoot

\* So an insert makes it the map with that place more.
LEMMA InsertedIsTree ==
  ASSUME NEW nodes, NEW used, IsTreeOf(nodes, used), NEW place \in Nat
  PROVE  IsTreeOf(Inserted(nodes, place), used \cup {place})
<1> DEFINE path == EmptyPath(nodes, place)
           node(k) == SparseRoot(place, UsedLeaf, SubSeq(path, 1, k))
           new == {<<k, Above(place)[k]>> : k \in 0 .. NullifierDepth}
           more == used \cup {place}
<1>1. NullifierDepth \in Nat
  BY EpochTreeAssumption
<1>2. /\ Len(path) = NullifierDepth
      /\ \A k \in 1 .. NullifierDepth :
           path[k] = FullLevels(more)[k - 1][Sibling(Above(place)[k - 1])]
  <2>1. Len(path) = NullifierDepth
    BY <1>1 DEF EmptyPath
  <2>2. ASSUME NEW k \in 1 .. NullifierDepth
        PROVE  path[k] = FullLevels(more)[k - 1][Sibling(Above(place)[k - 1])]
    BY PathOfPlace
  <2> HIDE DEF path, more
  <2> QED
    BY <2>1, <2>2
<1>3. Inserted(nodes, place) =
        [x \in new \cup DOMAIN nodes |-> IF x \in new THEN node(x[1]) ELSE nodes[x]]
  BY DEF Inserted
<1> SUFFICES ASSUME NEW k \in 0 .. NullifierDepth, NEW i \in Nat
             PROVE  Value(Inserted(nodes, place), k, i) = FullLevels(more)[k][i]
  BY DEF IsTreeOf
<1>4. CASE i = Above(place)[k]
  <2>1. <<k, i>> \in new
    BY <1>4
  <2>2. Value(Inserted(nodes, place), k, i) = node(k)
    <3> HIDE DEF node, new
    <3>1. <<k, i>> \in DOMAIN Inserted(nodes, place)
      BY <1>3, <2>1
    <3>2. Inserted(nodes, place)[<<k, i>>] = node(k)
      BY <1>3, <2>1
    <3> QED
      BY <3>1, <3>2 DEF Value
  <2> DEFINE part == SubSeq(path, 1, k)
  <2>3. Len(part) = k /\ \A n \in 1 .. k : part[n] = path[n]
    <3>1. path = [n \in 1 .. NullifierDepth |-> path[n]]
      BY DEF EmptyPath
    <3> HIDE DEF path
    <3> QED
      BY <1>1, <1>2, <3>1
  <2>4. OfSiblings(part, FullLevels(more), place)
    <3> HIDE DEF path, part
    <3>1. \A n \in 1 .. k : n \in 1 .. NullifierDepth
      BY <1>1
    <3> QED
      BY <1>2, <2>3, <3>1 DEF OfSiblings
  <2>5. SparseRoot(place, UsedLeaf, part) = FullLevels(more)[k][Above(place)[k]]
    <3>1. place \in more
      OBVIOUS
    <3> HIDE DEF part, more
    <3>2. SparseRoot(place, UsedLeafIf(place \in more), part)
            = FullLevels(more)[Len(part)][Above(place)[Len(part)]]
      <4>1. Len(part) \in 0 .. NullifierDepth
        BY <2>3
      <4> QED
        BY ONLY <2>4, <4>1, place \in Nat, PlaceFolds
    <3> QED
      BY <2>3, <3>1, <3>2 DEF UsedLeafIf
  <2> QED
    BY <1>4, <2>2, <2>5
<1>5. CASE i # Above(place)[k]
  <2>1. <<k, i>> \notin new
    BY <1>5
  <2>2. Value(Inserted(nodes, place), k, i) = Value(nodes, k, i)
    <3> HIDE DEF node, new
    <3> QED
      BY <1>3, <2>1 DEF Value
  <2>3. Value(nodes, k, i) = FullLevels(used)[k][i]
    BY DEF IsTreeOf
  <2>4. FullLevels(more)[k][i] = FullLevels(used)[k][i]
    BY <1>5, OffThePath
  <2> QED
    BY <2>2, <2>3, <2>4
<1> QED
  BY <1>4, <1>5

-----------------------------------------------------------------------------
(* Sequences, wherever their elements come from.                             *)

IsSeq(s) == \E some : s \in Seq(some)

\* What follows a sequence.
LEMMA Follows ==
  ASSUME NEW s, IsSeq(s), NEW x
  PROVE  /\ IsSeq(Append(s, x))
         /\ Len(s) \in Nat /\ DOMAIN s = 1 .. Len(s)
         /\ Len(Append(s, x)) = Len(s) + 1 /\ DOMAIN Append(s, x) = 1 .. Len(s) + 1
         /\ \A i \in 1 .. Len(s) : Append(s, x)[i] = s[i]
         /\ Append(s, x)[Len(s) + 1] = x
<1>1. PICK some : s \in Seq(some)
  BY DEF IsSeq
<1> DEFINE more == some \cup {x}
<1>2. Len(s) \in Nat /\ s \in [1 .. Len(s) -> some]
  BY <1>1
<1>3. s \in [1 .. Len(s) -> more]
  BY <1>2
<1>4. s \in Seq(more) /\ x \in more
  BY <1>1, <1>2, <1>3
<1> HIDE DEF more
<1>5. Append(s, x) \in Seq(more)
  BY <1>4
<1>6. /\ DOMAIN s = 1 .. Len(s)
      /\ Len(Append(s, x)) = Len(s) + 1 /\ DOMAIN Append(s, x) = 1 .. Len(s) + 1
      /\ \A i \in 1 .. Len(s) : Append(s, x)[i] = s[i]
      /\ Append(s, x)[Len(s) + 1] = x
  BY <1>2, <1>4
<1> QED
  BY <1>2, <1>5, <1>6 DEF IsSeq

LEMMA Lengths ==
  ASSUME NEW s, IsSeq(s)
  PROVE  Len(s) \in Nat /\ DOMAIN s = 1 .. Len(s) /\ (s = <<>> <=> Len(s) = 0)
<1>1. PICK some : s \in Seq(some)
  BY DEF IsSeq
<1> QED
  BY <1>1

LEMMA Listed ==
  ASSUME NEW n \in Nat, NEW f, f = [i \in 1 .. n |-> f[i]]
  PROVE  IsSeq(f) /\ Len(f) = n /\ DOMAIN f = 1 .. n
<1> DEFINE some == {f[i] : i \in 1 .. n}
<1>1. f \in [1 .. n -> some]
  OBVIOUS
<1> HIDE DEF some
<1>2. f \in Seq(some) /\ Len(f) = n
  BY <1>1
<1> QED
  BY <1>1, <1>2 DEF IsSeq

\* The first elements, and the ones after them.
LEMMA Parts ==
  ASSUME NEW s, IsSeq(s), NEW n \in 0 .. Len(s)
  PROVE  /\ IsSeq(SubSeq(s, 1, n)) /\ Len(SubSeq(s, 1, n)) = n
         /\ \A i \in 1 .. n : SubSeq(s, 1, n)[i] = s[i]
         /\ IsSeq(SubSeq(s, n + 1, Len(s))) /\ Len(SubSeq(s, n + 1, Len(s))) = Len(s) - n
         /\ \A i \in 1 .. Len(s) - n : SubSeq(s, n + 1, Len(s))[i] = s[n + i]
<1>1. PICK some : s \in Seq(some)
  BY DEF IsSeq
<1>2. /\ SubSeq(s, 1, n) \in Seq(some) /\ Len(SubSeq(s, 1, n)) = n
      /\ \A i \in 1 .. n : SubSeq(s, 1, n)[i] = s[i]
  BY <1>1
<1>3. /\ SubSeq(s, n + 1, Len(s)) \in Seq(some)
      /\ Len(SubSeq(s, n + 1, Len(s))) = Len(s) - n
      /\ \A i \in 1 .. Len(s) - n : SubSeq(s, n + 1, Len(s))[i] = s[n + i]
  BY <1>1
<1> QED
  BY <1>2, <1>3 DEF IsSeq

LEMMA Joined ==
  ASSUME NEW s, IsSeq(s), NEW t, IsSeq(t)
  PROVE  /\ IsSeq(s \o t) /\ Len(s \o t) = Len(s) + Len(t)
         /\ \A i \in 1 .. Len(s) : (s \o t)[i] = s[i]
         /\ \A i \in 1 .. Len(t) : (s \o t)[Len(s) + i] = t[i]
<1>1. PICK one : s \in Seq(one)
  BY DEF IsSeq
<1>2. PICK other : t \in Seq(other)
  BY DEF IsSeq
<1> DEFINE some == one \cup other
<1>3. s \in Seq(some) /\ t \in Seq(some)
  <2>1. Len(s) \in Nat /\ s \in [1 .. Len(s) -> some]
    BY <1>1
  <2>2. Len(t) \in Nat /\ t \in [1 .. Len(t) -> some]
    BY <1>2
  <2> QED
    BY <1>1, <1>2, <2>1, <2>2
<1> HIDE DEF some
<1>4. s \o t \in Seq(some) /\ Len(s \o t) = Len(s) + Len(t)
  BY <1>3
<1>5. /\ \A i \in 1 .. Len(s) : (s \o t)[i] = s[i]
      /\ \A i \in 1 .. Len(t) : (s \o t)[Len(s) + i] = t[i]
  BY <1>3
<1> QED
  BY <1>4, <1>5 DEF IsSeq

\* The places of the lots proved so far.
PlacesOf(inputs) ==
  {NullifierIndex(inputs[i].lot, inputs[i].key) : i \in DOMAIN inputs}

\* The host works on a scheduled epoch, and its map is the tree of the places of
\* the lots it has proved.
MapInv ==
  /\ IsSeq(witnesses)
  /\ IsSeq(leaves)
  /\ {"at", "epoch", "anchor"} \subseteq DOMAIN host
  /\ host.epoch \in DOMAIN Tasks
  /\ IsTreeOf(nullifiers, PlacesOf(witnesses))

LEMMA MapStarts ==
  ASSUME Init
  PROVE  MapInv
<1>1. /\ witnesses = <<>> /\ leaves = <<>> /\ nullifiers = EmptyMap
      /\ host = [at |-> "start", epoch |-> 1, anchor |-> None]
  BY DEF Init, RunInit, ArchiveInit
<1>2. PlacesOf(witnesses) = {}
  BY <1>1 DEF PlacesOf
<1>3. witnesses \in Seq({}) /\ leaves \in Seq({})
  BY <1>1
<1>4. 1 \in DOMAIN Tasks
  BY TasksAssumption
<1> QED
  BY <1>1, <1>2, <1>3, <1>4, EmptyMapIsTree DEF MapInv, IsSeq

\* A leaf is proved for the next lot of the epoch.
LEMMA LotInTurn ==
  ASSUME MapInv, Len(leaves) < Len(Tasks[host.epoch])
  PROVE  LET lot == Tasks[host.epoch][Len(leaves) + 1]
         IN lot.epoch = host.epoch /\ NullifierIndex(lot.id, lot.key) \in Nat
<1>1. Len(leaves) \in Nat
  BY Follows DEF MapInv
<1>2. host.epoch \in DOMAIN Tasks
  BY DEF MapInv
<1> QED
  BY <1>1, <1>2, TasksAssumption

LEMMA LeafKeepsMap ==
  ASSUME MapInv, HostProvesLeaf
  PROVE  MapInv'
<1> DEFINE lot == Tasks[host.epoch][Len(leaves) + 1]
           place == NullifierIndex(lot.id, lot.key)
<1>1. ProveLeaf(lot) /\ Len(leaves) < Len(Tasks[host.epoch]) /\ UNCHANGED host
  BY DEF HostProvesLeaf
<1>2. place \in Nat
  BY <1>1, LotInTurn
<1> HIDE DEF lot
<1>3. /\ witnesses' = Append(witnesses, NextInput(lot))
      /\ nullifiers' = Inserted(nullifiers, place)
      /\ leaves' = Append(leaves, LeafPublicValues(NextInput(lot)))
  BY <1>1 DEF ProveLeaf
<1>4. NextInput(lot).lot = lot.id /\ NextInput(lot).key = lot.key
  BY DEF NextInput, PolicyInput
<1>5. PlacesOf(witnesses') = PlacesOf(witnesses) \cup {place}
  <2> DEFINE n == Len(witnesses)
             input == NextInput(lot)
  <2>1. /\ n \in Nat /\ DOMAIN witnesses = 1 .. n
        /\ DOMAIN witnesses' = 1 .. n + 1
        /\ \A i \in 1 .. n : witnesses'[i] = witnesses[i]
        /\ witnesses'[n + 1] = input
    <3> HIDE DEF input, n
    <3>1. IsSeq(witnesses)
      BY DEF MapInv
    <3> QED
      BY ONLY <1>3, <3>1, Follows DEF input, n
  <2> HIDE DEF input, n
  <2>2. NullifierIndex(witnesses'[n + 1].lot, witnesses'[n + 1].key) = place
    BY <1>4, <2>1 DEF input
  <2>3. 1 .. n + 1 = (1 .. n) \cup {n + 1}
    BY <2>1
  <2>4. \A i \in 1 .. n : NullifierIndex(witnesses'[i].lot, witnesses'[i].key)
                            = NullifierIndex(witnesses[i].lot, witnesses[i].key)
    BY <2>1
  <2> HIDE DEF place
  <2> QED
    BY <2>1, <2>2, <2>3, <2>4 DEF PlacesOf
<1>6. IsTreeOf(nullifiers', PlacesOf(witnesses'))
  <2>1. IsTreeOf(nullifiers, PlacesOf(witnesses))
    BY DEF MapInv
  <2> HIDE DEF place
  <2> QED
    BY <1>2, <1>3, <1>5, <2>1, InsertedIsTree
<1>7. /\ IsSeq(witnesses')
      /\ IsSeq(leaves')
  BY <1>3, Follows DEF MapInv
<1> QED
  BY <1>1, <1>6, <1>7 DEF MapInv

\* The steps of the host that leave its map as it is.
LEMMA MapUnchanged ==
  ASSUME MapInv, UNCHANGED <<nullifiers, witnesses>>,
         IsSeq(leaves'),
         {"at", "epoch", "anchor"} \subseteq DOMAIN host', host'.epoch \in DOMAIN Tasks
  PROVE  MapInv'
BY DEF MapInv

\* The host goes on with the epoch it is at, or with the next.
LEMMA HostStays ==
  ASSUME MapInv, NEW place, HostGoes(place)
  PROVE  /\ {"at", "epoch", "anchor"} \subseteq DOMAIN host'
         /\ host'.at = place /\ host'.epoch = host.epoch /\ host'.anchor = host.anchor
BY DEF MapInv, HostGoes

LEMMA NextEpochInTurn ==
  ASSUME MapInv, NEW anchor, EpochDone(anchor)
  PROVE  /\ {"at", "epoch", "anchor"} \subseteq DOMAIN host' /\ host'.epoch \in DOMAIN Tasks
         /\ host'.anchor = anchor /\ host'.at \in {"done", "leaves"}
<1>1. /\ {"at", "epoch", "anchor"} \subseteq DOMAIN host'
      /\ host'.epoch = IF host.epoch = Len(Tasks) THEN host.epoch ELSE host.epoch + 1
      /\ host'.anchor = anchor /\ host'.at \in {"done", "leaves"}
  BY DEF EpochDone
<1>2. host.epoch \in DOMAIN Tasks
  BY DEF MapInv
<1> QED
  BY <1>1, <1>2, TasksAssumption

LEMMA MapKept ==
  ASSUME MapInv, [Next]_vars
  PROVE  MapInv'
<1>0. IsSeq(leaves)
  BY DEF MapInv
<1>1. CASE HostResets
  BY <1>0, <1>1, MapUnchanged, HostStays DEF HostResets, archiveVars, MapInv
<1>2. CASE HostWasReset
  <2>1. /\ {"at", "epoch", "anchor"} \subseteq DOMAIN host' /\ host'.epoch = host.epoch
    BY <1>2 DEF HostWasReset, MapInv
  <2> QED
    BY <1>0, <1>2, <2>1, MapUnchanged DEF HostWasReset, archiveVars, MapInv
<1>3. CASE HostProvesLeaf
  BY <1>3, LeafKeepsMap
<1>4. CASE HostEndsEpoch
  <2>1. IsSeq(leaves')
    <3>1. leaves' \in Seq({})
      BY <1>4 DEF HostEndsEpoch, StartTree
    <3> QED
      BY <3>1 DEF IsSeq
  <2> QED
    BY <1>4, <2>1, MapUnchanged, HostStays DEF HostEndsEpoch, StartTree, MapInv
<1>5. CASE HostProvesNode
  BY <1>0, <1>5, MapUnchanged DEF HostProvesNode, ProveNode, MapInv
<1>6. CASE HostPosts
  BY <1>0, <1>6, MapUnchanged, HostStays DEF HostPosts, archiveVars, MapInv
<1>7. CASE HostHasReply
  <2>1. {"at", "epoch", "anchor"} \subseteq DOMAIN host' /\ host'.epoch \in DOMAIN Tasks
    BY <1>7, HostStays, NextEpochInTurn DEF HostHasReply, NextEpoch, MapInv
  <2> QED
    BY <1>0, <1>7, <2>1, MapUnchanged DEF HostHasReply
<1>8. CASE EnvironmentNext \/ UNCHANGED runVars
  <2>1. UNCHANGED <<archiveVars, host>>
    BY <1>8 DEF EnvironmentNext, OtherResets, OwnerRevokes, runVars
  <2> QED
    BY <1>0, <2>1, MapUnchanged DEF archiveVars, MapInv
<1>9. CASE ViewNext
  BY <1>8, <1>9 DEF ViewNext, StartView, ReadReceipt, ReadBlock, ReadTx, ReadAnchor,
                    ReadPolicy
<1> QED
  BY <1>1, <1>2, <1>3, <1>4, <1>5, <1>6, <1>7, <1>8, <1>9 DEF Next, HostNext, vars

\* The map is always the tree of the places of the lots proved.
THEOREM MapInductive == Spec => []MapInv
<1> QED
  BY MapStarts, MapKept, PTL DEF Spec

\* The root the host takes from its sparse map is the root of the whole tree
\* with those places in use: an insert rewrites the nodes above its place from
\* the siblings it read and leaves every other node right, at any depth and for
\* any places (SparseNullifierMap, insert).
THEOREM MapIsTree == Spec => []RootsAreTree
<1>1. MapInv => RootsAreTree
  <2> SUFFICES ASSUME MapInv PROVE RootsAreTree
    OBVIOUS
  <2>1. NullifierDepth \in 0 .. NullifierDepth
    BY EpochTreeAssumption
  <2>2. Value(nullifiers, NullifierDepth, 0) = FullLevels(PlacesOf(witnesses))[NullifierDepth][0]
    BY <2>1 DEF MapInv, IsTreeOf
  <2> QED
    BY <2>2 DEF RootsAreTree, MapRoot, FullRoot, PlacesOf
<1> QED
  BY <1>1, MapInductive, PTL

\* The leaves under a node.
LEMMA UnderDef ==
  /\ LeavesUnder[0] = 1
  /\ \A k \in Nat \ {0} : LeavesUnder[k] = MaxFanIn * LeavesUnder[k - 1]
<1> DEFINE Fits(g, n) == g = [k \in 0 .. n |-> IF k = 0 THEN 1 ELSE MaxFanIn * g[k - 1]]
           T == {n \in Nat : \E g : Fits(g, n)}
           Upto(n) == CHOOSE g : Fits(g, n)
           all == [k \in Nat |-> Upto(k)[k]]
<1>1. 0 \in T
  <2> DEFINE g == [k \in 0 .. 0 |-> 1]
  <2>1. Fits(g, 0)
    OBVIOUS
  <2> HIDE DEF g, Fits
  <2> QED
    BY <2>1
<1>2. ASSUME NEW n \in T
      PROVE  n + 1 \in T
  <2>1. PICK g : Fits(g, n)
    OBVIOUS
  <2> DEFINE h == [k \in 0 .. n + 1 |-> IF k = n + 1 THEN MaxFanIn * g[n] ELSE g[k]]
  <2>2. n \in Nat /\ \A k \in 0 .. n : g[k] = IF k = 0 THEN 1 ELSE MaxFanIn * g[k - 1]
    BY <2>1
  <2>3. \A k \in 0 .. n + 1 : h[k] = IF k = 0 THEN 1 ELSE MaxFanIn * h[k - 1]
    BY <2>2
  <2>4. Fits(h, n + 1)
    <3>1. h = [k \in 0 .. n + 1 |-> h[k]]
      OBVIOUS
    <3> HIDE DEF h
    <3> QED
      BY <2>3, <3>1
  <2> HIDE DEF h, Fits
  <2> QED
    BY <2>2, <2>4
<1>3. T = Nat
  <2> HIDE DEF T
  <2> QED
    BY <1>1, <1>2, Induction, T \subseteq Nat DEF T
<1>4. \A n \in Nat : Fits(Upto(n), n)
  <2> HIDE DEF Fits
  <2> QED
    BY <1>3
<1>5. \A n \in Nat : \A k \in 0 .. n :
        Upto(n)[k] = IF k = 0 THEN 1 ELSE MaxFanIn * Upto(n)[k - 1]
  <2> SUFFICES ASSUME NEW n \in Nat
               PROVE  \A k \in 0 .. n :
                        Upto(n)[k] = IF k = 0 THEN 1 ELSE MaxFanIn * Upto(n)[k - 1]
    OBVIOUS
  <2>1. PICK g : g = Upto(n)
    OBVIOUS
  <2>2. Fits(g, n)
    <3> HIDE DEF Fits, Upto
    <3> QED
      BY <1>4, <2>1
  <2>3. \A k \in 0 .. n : g[k] = IF k = 0 THEN 1 ELSE MaxFanIn * g[k - 1]
    BY <2>2
  <2> HIDE DEF Upto
  <2> QED
    BY <2>1, <2>3
<1> HIDE DEF Upto, Fits, T
\* The functions for different lengths agree where both are defined.
<1>6. ASSUME NEW n \in Nat, NEW m \in Nat, m <= n
      PROVE  Upto(n)[m] = Upto(m)[m]
  <2> DEFINE U == {k \in Nat : k <= m => Upto(n)[k] = Upto(m)[k]}
  <2>1. 0 \in U
    BY <1>5
  <2>2. ASSUME NEW k \in U, k + 1 <= m PROVE Upto(n)[k + 1] = Upto(m)[k + 1]
    <3>1. k + 1 \in 0 .. n /\ k + 1 \in 0 .. m /\ k + 1 # 0 /\ k + 1 - 1 = k
      BY <1>6, <2>2
    <3>2. Upto(n)[k] = Upto(m)[k]
      BY <2>2
    <3> QED
      BY <1>5, <3>1, <3>2
  <2>3. \A k \in U : k + 1 \in U
    BY <2>2
  <2>4. U = Nat
    <3> HIDE DEF U
    <3> QED
      BY <2>1, <2>3, Induction, U \subseteq Nat DEF U
  <2> QED
    BY <2>4
<1>7. \A k \in Nat : all[k] = IF k = 0 THEN 1 ELSE MaxFanIn * all[k - 1]
  <2> SUFFICES ASSUME NEW k \in Nat
               PROVE  all[k] = IF k = 0 THEN 1 ELSE MaxFanIn * all[k - 1]
    OBVIOUS
  <2>1. CASE k = 0
    BY <1>5, <2>1
  <2>2. CASE k # 0
    <3>1. k - 1 \in Nat /\ k - 1 <= k
      BY <2>2
    <3>2. Upto(k)[k - 1] = Upto(k - 1)[k - 1]
      BY <1>6, <3>1
    <3>3. Upto(k)[k] = MaxFanIn * Upto(k)[k - 1]
      BY <1>5, <2>2
    <3> QED
      BY <2>2, <3>1, <3>2, <3>3
  <2> QED
    BY <2>1, <2>2
<1>8. all = [k \in Nat |-> IF k = 0 THEN 1 ELSE MaxFanIn * all[k - 1]]
  <2>1. all = [k \in Nat |-> all[k]]
    OBVIOUS
  <2> HIDE DEF all
  <2> QED
    BY <1>7, <2>1
<1> HIDE DEF all
<1>9. LeavesUnder = [k \in Nat |-> IF k = 0 THEN 1 ELSE MaxFanIn * LeavesUnder[k - 1]]
  BY <1>8 DEF LeavesUnder
<1> HIDE DEF LeavesUnder
<1>10. \A k \in Nat : LeavesUnder[k] = IF k = 0 THEN 1 ELSE MaxFanIn * LeavesUnder[k - 1]
  BY <1>9, Zenon
<1> QED
  BY <1>10

\* At least one, and MaxFanIn times as many with one level more.
LEMMA UnderNat ==
  ASSUME NEW k \in Nat
  PROVE  /\ LeavesUnder[k] \in Nat \ {0}
         /\ LeavesUnder[k + 1] = MaxFanIn * LeavesUnder[k]
<1> DEFINE T == {n \in Nat : LeavesUnder[n] \in Nat \ {0}}
<1>1. 0 \in T
  BY UnderDef
<1>2. \A n \in Nat : LeavesUnder[n + 1] = MaxFanIn * LeavesUnder[n]
  <2> SUFFICES ASSUME NEW n \in Nat
               PROVE  LeavesUnder[n + 1] = MaxFanIn * LeavesUnder[n]
    OBVIOUS
  <2>1. n + 1 \in Nat \ {0} /\ n + 1 - 1 = n
    OBVIOUS
  <2>2. LeavesUnder[n + 1] = MaxFanIn * LeavesUnder[n + 1 - 1]
    BY ONLY <2>1, UnderDef
  <2> QED
    BY <2>1, <2>2
<1>3. ASSUME NEW n \in T
      PROVE  n + 1 \in T
  <2>1. LeavesUnder[n + 1] = MaxFanIn * LeavesUnder[n]
    BY <1>2
  <2>2. MaxFanIn \in Nat \ {0}
    BY EpochTreeAssumption
  <2>3. \A a, b \in Nat \ {0} : a * b \in Nat \ {0}
    OBVIOUS
  <2>4. LeavesUnder[n] \in Nat \ {0} /\ n \in Nat
    OBVIOUS
  <2> QED
    BY <2>1, <2>2, <2>3, <2>4
<1>4. T = Nat
  <2> HIDE DEF T
  <2> QED
    BY <1>1, <1>3, Induction, T \subseteq Nat DEF T
<1> QED
  BY <1>2, <1>4

-----------------------------------------------------------------------------
(* The tree over an epoch's leaf proofs, and the paths archived meanwhile.   *)

LevelOk(leaf, levels, k) ==
  /\ levels[k].leafKey = LeafKey /\ levels[k].aggregateKey = AggregateKey
  /\ levels[k].index \in DOMAIN levels[k].children
  /\ levels[k].children[levels[k].index] = Reached(leaf, levels, LeafKey, AggregateKey, k)
  /\ EvaluateOk(LeafKey, AggregateKey, levels[k].children)

\* A path that leads on from the leaf as far as it goes.
Leads(leaf, levels) ==
  /\ IsSeq(levels)
  /\ \A k \in DOMAIN levels : LevelOk(leaf, levels, k)
  /\ levels # <<>> => EvaluateOk(LeafKey, AggregateKey, <<Child("leaf", leaf)>>)

\* The nodes' leaves have paths of that height, which lead to the node.
Carried(nodes, height, paths, lots) ==
  \A i \in DOMAIN nodes : \A l \in nodes[i].leaves :
    /\ l \in DOMAIN paths
    /\ Len(paths[l]) = height
    /\ Child(nodes[i].kind, nodes[i].values)
         = Reached(lots[l], paths[l], LeafKey, AggregateKey, height + 1)

Apart(nodes) ==
  \A i, j \in DOMAIN nodes : i # j => nodes[i].leaves \cap nodes[j].leaves = {}

Below(nodes) == UNION {nodes[i].leaves : i \in DOMAIN nodes}

\* The level above still has room for the groups that are left.
Room(nodes, next, height) ==
  /\ height \in Nat /\ height + 1 <= MaxLevels
  /\ next = <<>> => Len(nodes) <= LeavesUnder[MaxLevels - height]
  /\ next # <<>> =>
       /\ height + 2 <= MaxLevels
       /\ MaxFanIn * Len(next) + Len(nodes)
            <= MaxFanIn * LeavesUnder[MaxLevels - height - 1]

\* Nodes of one height are grouped into nodes of the next; each leaf is below
\* one of the nodes left to group.
Grouping(t, height, lots) ==
  /\ Room(t.nodes, t.next, height)
  /\ t.nodes # <<>>
  /\ Carried(t.nodes, height, t.paths, lots) /\ Carried(t.next, height + 1, t.paths, lots)
  /\ Apart(t.nodes) /\ Apart(t.next)
  /\ DOMAIN t.paths \subseteq Below(t.nodes) \cup Below(t.next)

\* The root is proved, and every path leads to it.
Rooted(t) ==
  /\ t.nodes = <<>> /\ Len(t.root) = 1
  /\ \A l \in DOMAIN t.paths :
       /\ Len(t.paths[l]) \in 1 .. MaxLevels
       /\ AuthenticatedRoot(t.paths[l], LeafKey, AggregateKey) = t.root[1]

TreeOver(t, lots) ==
  /\ IsSeq(t.nodes) /\ IsSeq(t.next) /\ IsSeq(t.paths)
  /\ \A l \in DOMAIN t.paths : Leads(lots[l], t.paths[l])
  /\ IF t.root = <<>> THEN \E height : Grouping(t, height, lots) ELSE Rooted(t)

\* One of the children of a node is a node of its own.
LEMMA SingleChild ==
  ASSUME NEW children, EvaluateOk(LeafKey, AggregateKey, children),
         NEW i \in DOMAIN children
  PROVE  EvaluateOk(LeafKey, AggregateKey, <<children[i]>>)
<1> DEFINE child == children[i]
           one == <<child>>
<1>1. /\ ChildOk(LeafKey, AggregateKey, child)
      /\ child.values.new # child.values.old
  BY DEF EvaluateOk
<1>2. SameEpochAndPolicy(child, child)
  BY DEF SameEpochAndPolicy
<1>3. Len(one) = 1 /\ DOMAIN one = {1} /\ one[1] = child /\ 1 \in 1 .. MaxFanIn
  BY EpochTreeAssumption
<1> HIDE DEF one, child
<1>4. EvaluateOk(LeafKey, AggregateKey, one)
  BY <1>1, <1>2, <1>3 DEF EvaluateOk
<1> QED
  BY <1>4 DEF one, child

\* A level on top of a path that leads to one of the level's children.
LEMMA LevelOnTop ==
  ASSUME NEW leaf, NEW levels, Leads(leaf, levels), NEW top,
         top.leafKey = LeafKey, top.aggregateKey = AggregateKey,
         top.index \in DOMAIN top.children,
         top.children[top.index]
           = Reached(leaf, levels, LeafKey, AggregateKey, Len(levels) + 1),
         EvaluateOk(LeafKey, AggregateKey, top.children)
  PROVE  LET longer == Append(levels, top)
         IN /\ Leads(leaf, longer) /\ Len(longer) = Len(levels) + 1
            /\ AuthenticatedRoot(longer, LeafKey, AggregateKey)
                 = EpochPublicValues(LeafKey, AggregateKey, top.children)
            /\ Reached(leaf, longer, LeafKey, AggregateKey, Len(levels) + 2)
                 = Child("aggregate", EpochPublicValues(LeafKey, AggregateKey, top.children))
<1> DEFINE longer == Append(levels, top)
           n == Len(levels)
<1>1. /\ IsSeq(levels)
      /\ n \in Nat /\ DOMAIN levels = 1 .. n
      /\ (levels = <<>> <=> n = 0)
  BY Lengths DEF Leads
<1>2. /\ IsSeq(longer) /\ Len(longer) = n + 1 /\ DOMAIN longer = 1 .. n + 1
      /\ \A k \in 1 .. n : longer[k] = levels[k]
      /\ longer[n + 1] = top
  BY <1>1, Follows
<1> HIDE DEF longer, n
<1>3. \A k \in 1 .. n + 1 : Reached(leaf, longer, LeafKey, AggregateKey, k)
                              = Reached(leaf, levels, LeafKey, AggregateKey, k)
  <2> SUFFICES ASSUME NEW k \in 1 .. n + 1
               PROVE  Reached(leaf, longer, LeafKey, AggregateKey, k)
                        = Reached(leaf, levels, LeafKey, AggregateKey, k)
    OBVIOUS
  <2>1. CASE k = 1
    BY <2>1 DEF Reached
  <2>2. CASE k # 1
    <3>1. k - 1 \in 1 .. n
      BY <1>1, <2>2
    <3>2. longer[k - 1] = levels[k - 1]
      BY <1>2, <3>1
    <3> QED
      BY <2>2, <3>2 DEF Reached
  <2> QED
    BY <2>1, <2>2
<1>4. ASSUME NEW k \in DOMAIN longer
      PROVE  LevelOk(leaf, longer, k)
  <2>1. k \in 1 .. n + 1
    BY <1>2
  <2>2. Reached(leaf, longer, LeafKey, AggregateKey, k)
          = Reached(leaf, levels, LeafKey, AggregateKey, k)
    BY <1>3, <2>1
  <2>3. CASE k \in 1 .. n
    <3>1. LevelOk(leaf, levels, k) /\ longer[k] = levels[k]
      BY <1>1, <1>2, <2>3 DEF Leads
    <3> QED
      BY <2>2, <3>1 DEF LevelOk
  <2>4. CASE k = n + 1
    <3>1. longer[k] = top
      BY <1>2, <2>4
    <3>2. top.children[top.index] = Reached(leaf, levels, LeafKey, AggregateKey, k)
      BY <2>4 DEF n
    <3> QED
      BY <2>2, <3>1, <3>2 DEF LevelOk
  <2> QED
    BY <1>1, <2>1, <2>3, <2>4
<1>5. EvaluateOk(LeafKey, AggregateKey, <<Child("leaf", leaf)>>)
  <2>1. CASE n = 0
    <3>1. Reached(leaf, levels, LeafKey, AggregateKey, n + 1) = Child("leaf", leaf)
      BY <2>1 DEF Reached
    <3>2. top.children[top.index] = Child("leaf", leaf)
      BY <3>1 DEF n
    <3>3. EvaluateOk(LeafKey, AggregateKey, <<top.children[top.index]>>)
      BY SingleChild
    <3> QED
      BY <3>2, <3>3
  <2>2. CASE n # 0
    BY <1>1, <2>2 DEF Leads
  <2> QED
    BY <2>1, <2>2
<1>6. Leads(leaf, longer)
  BY <1>2, <1>4, <1>5 DEF Leads
<1>7. AuthenticatedRoot(longer, LeafKey, AggregateKey)
        = EpochPublicValues(LeafKey, AggregateKey, top.children)
  BY <1>2 DEF AuthenticatedRoot
<1>8. Reached(leaf, longer, LeafKey, AggregateKey, n + 2)
        = Child("aggregate", EpochPublicValues(LeafKey, AggregateKey, top.children))
  <2>1. PICK k : k = n + 2
    OBVIOUS
  <2>2. k # 1 /\ longer[k - 1] = top
    BY <1>1, <1>2, <2>1
  <2>3. Reached(leaf, longer, LeafKey, AggregateKey, k)
          = Child("aggregate", EpochPublicValues(LeafKey, AggregateKey, top.children))
    BY ONLY <2>2, Zenon DEF Reached
  <2> QED
    BY ONLY <2>1, <2>3, Zenon
<1> QED
  BY <1>2, <1>6, <1>7, <1>8 DEF longer, n

-----------------------------------------------------------------------------
(* One group: its leaves' paths get the level that its node is proved with.  *)

GroupSize == IF Len(tree.nodes) < MaxFanIn THEN Len(tree.nodes) ELSE MaxFanIn
Rest == SubSeq(tree.nodes, GroupSize + 1, Len(tree.nodes))
GroupValues == EpochPublicValues(LeafKey, AggregateKey, GroupChildren)
GroupNode == [kind |-> "aggregate", values |-> GroupValues, leaves |-> GroupLeaves]

LEMMA GroupFacts ==
  ASSUME IsSeq(tree.nodes), tree.nodes # <<>>
  PROVE  /\ GroupSize \in 1 .. Len(tree.nodes) /\ GroupSize <= MaxFanIn
         /\ DOMAIN tree.nodes = 1 .. Len(tree.nodes)
         /\ Len(Group) = GroupSize /\ DOMAIN Group = 1 .. GroupSize
         /\ \A i \in 1 .. GroupSize : Group[i] = tree.nodes[i]
         /\ DOMAIN GroupChildren = 1 .. GroupSize
         /\ \A i \in 1 .. GroupSize :
              GroupChildren[i] = Child(tree.nodes[i].kind, tree.nodes[i].values)
         /\ IsSeq(Rest) /\ Len(Rest) = Len(tree.nodes) - GroupSize
         /\ DOMAIN Rest = 1 .. Len(tree.nodes) - GroupSize
         /\ \A i \in 1 .. Len(tree.nodes) - GroupSize : Rest[i] = tree.nodes[GroupSize + i]
<1> DEFINE nodes == tree.nodes
           n == Len(nodes)
<1>1. n \in Nat \ {0} /\ DOMAIN nodes = 1 .. n
  BY Lengths
<1>2. GroupSize \in 1 .. n /\ GroupSize <= MaxFanIn
  <2> HIDE DEF nodes
  <2> QED
    BY <1>1, EpochTreeAssumption DEF GroupSize, nodes
<1>3. Group = SubSeq(nodes, 1, GroupSize)
  BY DEF Group, GroupSize
<1> HIDE DEF nodes, n
<1>4. IsSeq(nodes) /\ GroupSize \in 0 .. Len(nodes)
  BY <1>1, <1>2 DEF nodes, n
<1>5. /\ IsSeq(Group) /\ Len(Group) = GroupSize
      /\ \A i \in 1 .. GroupSize : Group[i] = nodes[i]
  BY <1>3, <1>4, Parts
<1>6. /\ IsSeq(Rest) /\ Len(Rest) = n - GroupSize
      /\ \A i \in 1 .. n - GroupSize : Rest[i] = nodes[GroupSize + i]
  BY <1>4, Parts DEF Rest, nodes, n
<1>7. DOMAIN Group = 1 .. GroupSize /\ DOMAIN Rest = 1 .. n - GroupSize
  BY <1>5, <1>6, Lengths
<1>8. /\ DOMAIN GroupChildren = 1 .. GroupSize
      /\ \A i \in 1 .. GroupSize : GroupChildren[i] = Child(nodes[i].kind, nodes[i].values)
  BY <1>5, <1>7 DEF GroupChildren
<1> QED
  BY <1>1, <1>2, <1>5, <1>6, <1>7, <1>8 DEF nodes, n

\* The group's leaves reach its node, the other paths stay as they are.
LEMMA LevelArchived ==
  ASSUME NEW lots, NEW height \in Nat, IsSeq(tree.nodes), tree.nodes # <<>>,
         IsSeq(tree.paths), \A l \in DOMAIN tree.paths : Leads(lots[l], tree.paths[l]),
         Carried(tree.nodes, height, tree.paths, lots),
         EvaluateOk(LeafKey, AggregateKey, GroupChildren)
  PROVE  LET longer == AppendLevel(tree.paths)
         IN /\ IsSeq(longer) /\ Len(longer) = Len(tree.paths)
            /\ DOMAIN longer = DOMAIN tree.paths
            /\ \A l \in DOMAIN tree.paths : Leads(lots[l], longer[l])
            /\ \A l \in DOMAIN tree.paths : l \notin GroupLeaves => longer[l] = tree.paths[l]
            /\ \A l \in GroupLeaves :
                 /\ l \in DOMAIN tree.paths
                 /\ Len(longer[l]) = height + 1
                 /\ AuthenticatedRoot(longer[l], LeafKey, AggregateKey) = GroupValues
                 /\ Reached(lots[l], longer[l], LeafKey, AggregateKey, height + 2)
                      = Child("aggregate", GroupValues)
<1> DEFINE longer == AppendLevel(tree.paths)
           top(l) == [leafKey |-> LeafKey, aggregateKey |-> AggregateKey,
                      index |-> CHOOSE i \in DOMAIN Group : l \in Group[i].leaves,
                      children |-> GroupChildren]
<1>1. \A l \in DOMAIN tree.paths :
        longer[l] = IF l \notin GroupLeaves THEN tree.paths[l]
                                            ELSE Append(tree.paths[l], top(l))
  BY DEF AppendLevel
<1>2. DOMAIN longer = DOMAIN tree.paths /\ longer = [l \in DOMAIN tree.paths |-> longer[l]]
  BY DEF AppendLevel
<1>3. Len(tree.paths) \in Nat /\ DOMAIN tree.paths = 1 .. Len(tree.paths)
  BY Lengths
<1>4. IsSeq(longer) /\ Len(longer) = Len(tree.paths)
  <2> HIDE DEF longer
  <2> QED
    BY <1>2, <1>3, Listed
<1> HIDE DEF longer
<1>5. ASSUME NEW l \in GroupLeaves
      PROVE  /\ l \in DOMAIN tree.paths
             /\ Leads(lots[l], longer[l])
             /\ Len(longer[l]) = height + 1
             /\ AuthenticatedRoot(longer[l], LeafKey, AggregateKey) = GroupValues
             /\ Reached(lots[l], longer[l], LeafKey, AggregateKey, height + 2)
                  = Child("aggregate", GroupValues)
  <2> DEFINE i == CHOOSE j \in DOMAIN Group : l \in Group[j].leaves
             leaf == lots[l]
             levels == tree.paths[l]
             level == top(l)
  <2>1. i \in DOMAIN Group /\ l \in Group[i].leaves
    <3>1. \E j \in DOMAIN Group : l \in Group[j].leaves
      BY DEF GroupLeaves
    <3> QED
      BY <3>1
  <2>2. /\ level.leafKey = LeafKey /\ level.aggregateKey = AggregateKey
        /\ level.index = i /\ level.children = GroupChildren
    OBVIOUS
  <2> HIDE DEF i, level, top
  <2>3. i \in 1 .. GroupSize /\ i \in DOMAIN tree.nodes /\ l \in tree.nodes[i].leaves
    BY <2>1, GroupFacts
  <2>4. /\ l \in DOMAIN tree.paths /\ Len(levels) = height
        /\ Child(tree.nodes[i].kind, tree.nodes[i].values)
             = Reached(leaf, levels, LeafKey, AggregateKey, height + 1)
    BY <2>3 DEF Carried
  <2>5. /\ i \in DOMAIN GroupChildren
        /\ GroupChildren[i] = Child(tree.nodes[i].kind, tree.nodes[i].values)
    BY <2>3, GroupFacts
  <2>6. longer[l] = Append(levels, level)
    BY <1>1, <2>4 DEF level
  <2>7. Leads(leaf, levels)
    BY <2>4
  <2> HIDE DEF leaf, levels
  <2>8. /\ level.index \in DOMAIN level.children
        /\ level.children[level.index]
             = Reached(leaf, levels, LeafKey, AggregateKey, Len(levels) + 1)
        /\ EvaluateOk(LeafKey, AggregateKey, level.children)
    BY <2>2, <2>4, <2>5
  <2>9. LET more == Append(levels, level)
        IN /\ Leads(leaf, more) /\ Len(more) = Len(levels) + 1
           /\ AuthenticatedRoot(more, LeafKey, AggregateKey)
                = EpochPublicValues(LeafKey, AggregateKey, level.children)
           /\ Reached(leaf, more, LeafKey, AggregateKey, Len(levels) + 2)
                = Child("aggregate", EpochPublicValues(LeafKey, AggregateKey, level.children))
    BY <2>2, <2>7, <2>8, LevelOnTop
  <2>10. GroupValues = EpochPublicValues(LeafKey, AggregateKey, level.children)
    BY <2>2 DEF GroupValues
  <2> QED
    BY <2>4, <2>6, <2>9, <2>10 DEF leaf
<1>6. \A l \in DOMAIN tree.paths : Leads(lots[l], longer[l])
  <2> SUFFICES ASSUME NEW l \in DOMAIN tree.paths PROVE Leads(lots[l], longer[l])
    OBVIOUS
  <2>1. CASE l \in GroupLeaves
    BY <1>5, <2>1
  <2>2. CASE l \notin GroupLeaves
    BY <1>1, <2>2
  <2> QED
    BY <2>1, <2>2
<1>7. \A l \in DOMAIN tree.paths : l \notin GroupLeaves => longer[l] = tree.paths[l]
  BY <1>1
<1> QED
  BY <1>2, <1>4, <1>5, <1>6, <1>7 DEF longer

\* Nodes of one height whose leaves the group does not touch stay carried.
LEMMA StayCarried ==
  ASSUME NEW nodes, NEW height, NEW lots, NEW paths, NEW longer,
         Carried(nodes, height, paths, lots), DOMAIN longer = DOMAIN paths,
         \A i \in DOMAIN nodes : \A l \in nodes[i].leaves : longer[l] = paths[l]
  PROVE  Carried(nodes, height, longer, lots)
BY DEF Carried

\* There is room above for the group's node, and when it was the level's last
\* one, for the level above that.
LEMMA RoomForNode ==
  ASSUME NEW height, NEW n \in Nat \ {0}, NEW m \in Nat,
         height \in Nat, height + 1 <= MaxLevels,
         IF m = 0 THEN n > MaxFanIn /\ n <= LeavesUnder[MaxLevels - height]
         ELSE /\ height + 2 <= MaxLevels
              /\ MaxFanIn * m + n <= MaxFanIn * LeavesUnder[MaxLevels - height - 1]
  PROVE  /\ height + 2 <= MaxLevels
         /\ n > MaxFanIn => MaxFanIn * (m + 1) + (n - MaxFanIn)
                              <= MaxFanIn * LeavesUnder[MaxLevels - height - 1]
         /\ m + 1 <= LeavesUnder[MaxLevels - height - 1]
<1> DEFINE k == MaxLevels - height - 1
<1>1. /\ MaxFanIn \in Nat \ {0} /\ MaxLevels \in Nat /\ k \in Nat
      /\ k + 1 = MaxLevels - height
  BY EpochTreeAssumption, PathsAssumption
<1> HIDE DEF k
<1>2. /\ LeavesUnder[k] \in Nat \ {0}
      /\ LeavesUnder[MaxLevels - height] = MaxFanIn * LeavesUnder[k]
  BY <1>1, UnderNat
<1> DEFINE under == LeavesUnder[k]
           fan == MaxFanIn
<1>3. under \in Nat \ {0} /\ fan \in Nat \ {0}
  BY <1>1, <1>2
<1> HIDE DEF under, fan
<1>4. fan * (m + 1) = fan * m + fan /\ fan * m \in Nat /\ fan * under \in Nat
  BY <1>3
<1>5. fan * m + n <= fan * under
  BY <1>1, <1>2, <1>3 DEF k, under, fan
<1>6. n > fan => fan * (m + 1) + (n - fan) <= fan * under
  BY <1>3, <1>4, <1>5
<1>7. fan * m < fan * under
  BY <1>3, <1>4, <1>5
<1>8. m + 1 <= under
  <2> SUFFICES ASSUME m >= under PROVE FALSE
    BY <1>3
  <2>1. fan * m >= fan * under
    BY <1>3
  <2> QED
    BY <1>4, <1>7, <2>1
<1>9. height + 2 <= MaxLevels
  <2>1. CASE m # 0
    BY <2>1
  <2>2. CASE m = 0
    <3>1. CASE k = 0
      <4>1. under = 1
        BY <3>1, UnderDef DEF under
      <4>2. fan * under = fan
        BY <1>3, <4>1
      <4> QED
        BY <1>1, <1>2, <1>3, <2>2, <4>2 DEF fan, under
    <3>2. CASE k # 0
      BY <1>1, <3>2
    <3> QED
      BY <3>1, <3>2
  <2> QED
    BY <2>1, <2>2
<1> QED
  BY <1>6, <1>8, <1>9 DEF k, under, fan

\* The nodes made so far, and the group's.
NextNodes == Append(tree.next, GroupNode)

LEMMA NodesAfterGroup ==
  ASSUME NEW lots, NEW height \in Nat, IsSeq(tree.nodes), tree.nodes # <<>>,
         IsSeq(tree.next), IsSeq(tree.paths),
         \A l \in DOMAIN tree.paths : Leads(lots[l], tree.paths[l]),
         Carried(tree.nodes, height, tree.paths, lots),
         Carried(tree.next, height + 1, tree.paths, lots),
         Apart(tree.nodes), Apart(tree.next),
         DOMAIN tree.paths \subseteq Below(tree.nodes) \cup Below(tree.next),
         EvaluateOk(LeafKey, AggregateKey, GroupChildren)
  PROVE  LET longer == AppendLevel(tree.paths)
         IN /\ IsSeq(NextNodes) /\ Len(NextNodes) = Len(tree.next) + 1
            /\ Carried(Rest, height, longer, lots)
            /\ Carried(NextNodes, height + 1, longer, lots)
            /\ Apart(Rest) /\ Apart(NextNodes)
            /\ DOMAIN tree.paths \subseteq Below(Rest) \cup Below(NextNodes)
<1> DEFINE longer == AppendLevel(tree.paths)
           n == Len(tree.nodes)
           m == Len(tree.next)
<1>1. /\ GroupSize \in 1 .. n /\ n \in Nat
      /\ DOMAIN tree.nodes = 1 .. n
      /\ DOMAIN Group = 1 .. GroupSize
      /\ \A i \in 1 .. GroupSize : Group[i] = tree.nodes[i]
      /\ DOMAIN Rest = 1 .. n - GroupSize
      /\ \A i \in 1 .. n - GroupSize : Rest[i] = tree.nodes[GroupSize + i]
  BY GroupFacts, Lengths
<1>2. /\ IsSeq(NextNodes) /\ Len(NextNodes) = m + 1
      /\ m \in Nat /\ DOMAIN tree.next = 1 .. m /\ DOMAIN NextNodes = 1 .. m + 1
      /\ \A i \in 1 .. m : NextNodes[i] = tree.next[i]
      /\ NextNodes[m + 1] = GroupNode
  BY Follows DEF NextNodes
<1>3. /\ DOMAIN longer = DOMAIN tree.paths
      /\ \A l \in DOMAIN tree.paths : l \notin GroupLeaves => longer[l] = tree.paths[l]
      /\ \A l \in GroupLeaves :
           /\ l \in DOMAIN tree.paths
           /\ Len(longer[l]) = height + 1
           /\ Reached(lots[l], longer[l], LeafKey, AggregateKey, height + 2)
                = Child("aggregate", GroupValues)
  BY LevelArchived
<1> HIDE DEF longer, n, m
\* The rest and the nodes made before are over other leaves.
<1>4. \A i \in DOMAIN Rest : \A l \in Rest[i].leaves : l \in DOMAIN tree.paths /\ l \notin GroupLeaves
  <2> SUFFICES ASSUME NEW i \in DOMAIN Rest, NEW l \in Rest[i].leaves
               PROVE  l \in DOMAIN tree.paths /\ l \notin GroupLeaves
    OBVIOUS
  <2>1. /\ GroupSize + i \in DOMAIN tree.nodes /\ l \in tree.nodes[GroupSize + i].leaves
        /\ i \in 1 .. n - GroupSize
    BY <1>1
  <2>2. l \in DOMAIN tree.paths
    BY <2>1 DEF Carried
  <2>3. ASSUME NEW j \in DOMAIN Group, l \in Group[j].leaves PROVE FALSE
    <3>1. j \in DOMAIN tree.nodes /\ l \in tree.nodes[j].leaves /\ j \in 1 .. GroupSize
      BY <1>1, <2>3
    <3>2. j # GroupSize + i
      BY <1>1, <2>1, <3>1
    <3> QED
      BY <2>1, <3>1, <3>2 DEF Apart
  <2> QED
    BY <2>2, <2>3 DEF GroupLeaves
<1>5. \A l \in GroupLeaves : Len(tree.paths[l]) = height
  <2> SUFFICES ASSUME NEW l \in GroupLeaves PROVE Len(tree.paths[l]) = height
    OBVIOUS
  <2>1. PICK j \in DOMAIN Group : l \in Group[j].leaves
    BY DEF GroupLeaves
  <2>2. j \in DOMAIN tree.nodes /\ l \in tree.nodes[j].leaves
    BY <1>1, <2>1
  <2> QED
    BY <2>2 DEF Carried
<1>6. \A i \in DOMAIN tree.next : \A l \in tree.next[i].leaves :
        l \in DOMAIN tree.paths /\ l \notin GroupLeaves
  <2> SUFFICES ASSUME NEW i \in DOMAIN tree.next, NEW l \in tree.next[i].leaves
               PROVE  l \in DOMAIN tree.paths /\ l \notin GroupLeaves
    OBVIOUS
  <2>1. l \in DOMAIN tree.paths /\ Len(tree.paths[l]) = height + 1
    BY DEF Carried
  <2>2. height + 1 # height
    OBVIOUS
  <2> QED
    BY <1>5, <2>1, <2>2
<1>7. Carried(Rest, height, longer, lots)
  <2>1. Carried(Rest, height, tree.paths, lots)
    <3>1. \A i \in DOMAIN Rest : GroupSize + i \in DOMAIN tree.nodes
                                   /\ Rest[i] = tree.nodes[GroupSize + i]
      BY <1>1
    <3> QED
      BY <3>1 DEF Carried
  <2> QED
    BY <1>3, <1>4, <2>1, StayCarried
<1>8. Carried(NextNodes, height + 1, longer, lots)
  <2>1. Carried(tree.next, height + 1, longer, lots)
    BY <1>3, <1>6, StayCarried
  <2>2. /\ GroupNode.kind = "aggregate" /\ GroupNode.values = GroupValues
        /\ GroupNode.leaves = GroupLeaves
    BY DEF GroupNode
  <2>3. height + 1 + 1 = height + 2
    OBVIOUS
  <2> SUFFICES ASSUME NEW i \in DOMAIN NextNodes, NEW l \in NextNodes[i].leaves
               PROVE  /\ l \in DOMAIN longer /\ Len(longer[l]) = height + 1
                      /\ Child(NextNodes[i].kind, NextNodes[i].values)
                           = Reached(lots[l], longer[l], LeafKey, AggregateKey, height + 1 + 1)
    BY DEF Carried
  <2>4. CASE i \in 1 .. m
    BY <1>2, <2>1, <2>4 DEF Carried
  <2>5. CASE i = m + 1
    BY <1>2, <1>3, <2>2, <2>3, <2>5
  <2> QED
    BY <1>2, <2>4, <2>5
<1>9. Apart(Rest)
  <2>1. \A i \in DOMAIN Rest : GroupSize + i \in DOMAIN tree.nodes
                                 /\ Rest[i] = tree.nodes[GroupSize + i]
    BY <1>1
  <2>2. \A i, j \in DOMAIN Rest : i # j => GroupSize + i # GroupSize + j
    BY <1>1
  <2> QED
    BY <2>1, <2>2 DEF Apart
<1>10. Apart(NextNodes)
  <2>1. GroupNode.leaves = GroupLeaves
    BY DEF GroupNode
  <2>2. \A i \in 1 .. m : NextNodes[i].leaves \cap GroupLeaves = {}
    BY <1>2, <1>6
  <2> QED
    BY <1>2, <2>1, <2>2 DEF Apart
<1>11. DOMAIN tree.paths \subseteq Below(Rest) \cup Below(NextNodes)
  <2> SUFFICES ASSUME NEW l \in DOMAIN tree.paths
               PROVE  l \in Below(Rest) \cup Below(NextNodes)
    OBVIOUS
  <2>1. CASE l \in Below(tree.next)
    BY <1>2, <2>1 DEF Below
  <2>2. CASE l \in Below(tree.nodes)
    <3>1. PICK i \in 1 .. n : l \in tree.nodes[i].leaves
      BY <1>1, <2>2 DEF Below
    <3>2. CASE i <= GroupSize
      <4>1. l \in GroupLeaves
        BY <1>1, <3>1, <3>2 DEF GroupLeaves
      <4>2. m + 1 \in DOMAIN NextNodes /\ NextNodes[m + 1].leaves = GroupLeaves
        BY <1>2 DEF GroupNode
      <4> QED
        BY <4>1, <4>2 DEF Below
    <3>3. CASE i > GroupSize
      <4>1. i - GroupSize \in DOMAIN Rest /\ GroupSize + (i - GroupSize) = i
        BY <1>1, <3>1, <3>3
      <4>2. l \in Rest[i - GroupSize].leaves
        BY <1>1, <3>1, <4>1
      <4> QED
        BY <4>1, <4>2 DEF Below
    <3> QED
      BY <1>1, <3>1, <3>2, <3>3
  <2> QED
    BY <2>1, <2>2
<1> QED
  BY <1>2, <1>7, <1>8, <1>9, <1>10, <1>11 DEF longer, m

\* A group's node keeps the paths right, and the last one is the root.
LEMMA NodeKeepsTree ==
  ASSUME NEW lots, TreeOver(tree, lots), ProveNode
  PROVE  TreeOver(tree', lots) /\ Len(tree'.paths) = Len(tree.paths)
<1> DEFINE longer == AppendLevel(tree.paths)
           n == Len(tree.nodes)
           m == Len(tree.next)
<1>1. tree.nodes # <<>> /\ EvaluateOk(LeafKey, AggregateKey, GroupChildren)
  BY DEF ProveNode, NodeProvable
<1>2. /\ IsSeq(tree.nodes) /\ IsSeq(tree.next) /\ IsSeq(tree.paths)
      /\ \A l \in DOMAIN tree.paths : Leads(lots[l], tree.paths[l])
  BY DEF TreeOver
<1>3. PICK height : Grouping(tree, height, lots)
  BY <1>1 DEF TreeOver, Rooted
<1>4. /\ height \in Nat
      /\ Carried(tree.nodes, height, tree.paths, lots)
      /\ Carried(tree.next, height + 1, tree.paths, lots)
      /\ Apart(tree.nodes) /\ Apart(tree.next)
      /\ DOMAIN tree.paths \subseteq Below(tree.nodes) \cup Below(tree.next)
      /\ Room(tree.nodes, tree.next, height)
  BY <1>3 DEF Grouping, Room
<1>5. /\ IsSeq(longer) /\ Len(longer) = Len(tree.paths)
      /\ DOMAIN longer = DOMAIN tree.paths
      /\ \A l \in DOMAIN tree.paths : Leads(lots[l], longer[l])
      /\ \A l \in GroupLeaves :
           /\ Len(longer[l]) = height + 1
           /\ AuthenticatedRoot(longer[l], LeafKey, AggregateKey) = GroupValues
  BY <1>1, <1>2, <1>4, LevelArchived
<1>6. /\ IsSeq(NextNodes) /\ Len(NextNodes) = m + 1
      /\ Carried(Rest, height, longer, lots)
      /\ Carried(NextNodes, height + 1, longer, lots)
      /\ Apart(Rest) /\ Apart(NextNodes)
      /\ DOMAIN tree.paths \subseteq Below(Rest) \cup Below(NextNodes)
  BY <1>1, <1>2, <1>4, NodesAfterGroup
<1>7. /\ n \in Nat \ {0} /\ GroupSize \in 1 .. n /\ GroupSize <= MaxFanIn
      /\ GroupSize = IF n < MaxFanIn THEN n ELSE MaxFanIn
      /\ IsSeq(Rest) /\ Len(Rest) = n - GroupSize
      /\ m \in Nat /\ (tree.next = <<>> <=> m = 0)
      /\ (Rest = <<>> <=> Len(Rest) = 0)
  BY <1>1, <1>2, GroupFacts, Lengths DEF GroupSize
<1>8. height + 1 <= MaxLevels /\ MaxFanIn \in Nat \ {0} /\ MaxLevels \in Nat
  BY <1>4, EpochTreeAssumption, PathsAssumption DEF Room
<1>9. \/ /\ ~ IsIntermediate
         /\ tree' = [nodes |-> <<>>, next |-> <<>>, paths |-> longer,
                     root |-> <<GroupValues>>]
      \/ /\ IsIntermediate /\ Rest # <<>>
         /\ tree' = [nodes |-> Rest, next |-> NextNodes, paths |-> longer, root |-> <<>>]
      \/ /\ IsIntermediate /\ Rest = <<>>
         /\ tree' = [nodes |-> NextNodes, next |-> <<>>, paths |-> longer, root |-> <<>>]
  <2>1. Len(Group) = GroupSize
    BY <1>1, <1>2, GroupFacts
  <2> QED
    BY <2>1 DEF ProveNode, Rest, NextNodes, GroupNode, GroupValues
<1> HIDE DEF longer, n, m
<1>10. IsSeq(<<>>) /\ DOMAIN <<>> = {}
  <2>1. <<>> \in Seq({})
    OBVIOUS
  <2> QED
    BY <2>1 DEF IsSeq
<1>11. IsIntermediate =>
         /\ height + 2 <= MaxLevels
         /\ n > MaxFanIn => MaxFanIn * (m + 1) + (n - MaxFanIn)
                              <= MaxFanIn * LeavesUnder[MaxLevels - height - 1]
         /\ m + 1 <= LeavesUnder[MaxLevels - height - 1]
  <2> SUFFICES ASSUME IsIntermediate
               PROVE  /\ height + 2 <= MaxLevels
                      /\ n > MaxFanIn => MaxFanIn * (m + 1) + (n - MaxFanIn)
                           <= MaxFanIn * LeavesUnder[MaxLevels - height - 1]
                      /\ m + 1 <= LeavesUnder[MaxLevels - height - 1]
    OBVIOUS
  <2>1. IF m = 0 THEN n > MaxFanIn /\ n <= LeavesUnder[MaxLevels - height]
        ELSE /\ height + 2 <= MaxLevels
             /\ MaxFanIn * m + n <= MaxFanIn * LeavesUnder[MaxLevels - height - 1]
    BY <1>4, <1>7 DEF IsIntermediate, Room, n, m
  <2> QED
    BY <1>4, <1>7, <1>8, <2>1, RoomForNode
<1>12. CASE ~ IsIntermediate
  <2>1. /\ tree'.nodes = <<>> /\ tree'.next = <<>> /\ tree'.paths = longer
        /\ tree'.root = <<GroupValues>> /\ tree'.root # <<>>
        /\ Len(tree'.root) = 1 /\ tree'.root[1] = GroupValues
    BY <1>9, <1>12
  <2>2. m = 0 /\ n <= MaxFanIn
    BY <1>7, <1>8, <1>12 DEF IsIntermediate, n, m
  <2>3. DOMAIN tree.paths \subseteq GroupLeaves
    <3>1. tree.next = <<>> /\ GroupSize = n
      BY <1>7, <1>8, <2>2
    <3>2. Below(tree.next) = {}
      BY <1>10, <3>1 DEF Below
    <3>3. Below(tree.nodes) = GroupLeaves
      <4>1. /\ DOMAIN tree.nodes = 1 .. n /\ DOMAIN Group = 1 .. n
            /\ \A i \in 1 .. n : Group[i] = tree.nodes[i]
        BY <1>1, <1>2, <3>1, GroupFacts DEF n
      <4> QED
        BY <4>1 DEF Below, GroupLeaves
    <3> QED
      BY <1>4, <3>2, <3>3
  <2>4. \A l \in DOMAIN longer :
          /\ Len(longer[l]) \in 1 .. MaxLevels
          /\ AuthenticatedRoot(longer[l], LeafKey, AggregateKey) = GroupValues
    BY <1>4, <1>5, <1>8, <2>3
  <2>5. Rooted(tree')
    BY <2>1, <2>4 DEF Rooted
  <2> QED
    BY <1>5, <1>10, <2>1, <2>5 DEF TreeOver
<1>13. CASE IsIntermediate /\ Rest # <<>>
  <2>1. /\ tree'.nodes = Rest /\ tree'.next = NextNodes /\ tree'.paths = longer
        /\ tree'.root = <<>>
    BY <1>9, <1>13
  <2>2. n > MaxFanIn /\ GroupSize = MaxFanIn /\ Len(Rest) = n - MaxFanIn
    BY <1>7, <1>8, <1>13
  <2>3. NextNodes # <<>>
    BY <1>6, <1>7, Lengths
  <2>4. Room(Rest, NextNodes, height)
    BY <1>4, <1>6, <1>8, <1>11, <1>13, <2>2, <2>3 DEF Room
  <2>5. Grouping(tree', height, lots)
    BY <1>5, <1>6, <1>13, <2>1, <2>4 DEF Grouping
  <2> QED
    BY <1>5, <1>6, <1>7, <2>1, <2>5 DEF TreeOver
<1>14. CASE IsIntermediate /\ Rest = <<>>
  <2>1. /\ tree'.nodes = NextNodes /\ tree'.next = <<>> /\ tree'.paths = longer
        /\ tree'.root = <<>>
    BY <1>9, <1>14
  <2>2. NextNodes # <<>>
    BY <1>6, <1>7, Lengths
  <2>3. Room(NextNodes, <<>>, height + 1)
    <3>1. MaxLevels - (height + 1) = MaxLevels - height - 1 /\ height + 1 \in Nat
      BY <1>4, <1>8
    <3>2. Len(NextNodes) <= LeavesUnder[MaxLevels - (height + 1)]
      BY <1>6, <1>11, <1>14, <3>1
    <3>3. height + 1 + 1 <= MaxLevels
      BY <1>4, <1>8, <1>11, <1>14
    <3> QED
      BY <3>1, <3>2, <3>3 DEF Room
  <2>4. Carried(<<>>, height + 1 + 1, longer, lots) /\ Apart(<<>>) /\ Below(<<>>) = {}
    BY <1>10 DEF Carried, Apart, Below
  <2>5. Below(Rest) = {}
    BY <1>14, <2>4
  <2>6. Grouping(tree', height + 1, lots)
    BY <1>5, <1>6, <2>1, <2>2, <2>3, <2>4, <2>5 DEF Grouping
  <2> QED
    BY <1>5, <1>6, <1>10, <2>1, <2>6 DEF TreeOver
<1> QED
  <2>1. tree'.paths = longer
    BY <1>9
  <2> QED
    BY <1>5, <1>9, <1>12, <1>13, <1>14, <2>1

-----------------------------------------------------------------------------
(* The archive of a run.                                                     *)

\* The public values of the lot of each path.
LotValues ==
  [l \in DOMAIN tree.paths |->
     LeafPublicValues(witnesses[Len(witnesses) - Len(tree.paths) + l])]

\* Each proved lot is among the leaves of the epoch, has a path in the tree over
\* them, or is archived with a path that authenticates it.
ArchiveInv ==
  /\ host.at \notin {"tree", "posted"} => tree = NoTree
  /\ host.at \in {"tree", "posted"} =>
       /\ leaves = <<>> /\ tree.paths # <<>>
       /\ Len(tree.paths) <= Len(witnesses)
       /\ TreeOver(tree, LotValues)
  /\ host.at = "posted" => tree.root # <<>>
  /\ Len(leaves) <= Len(witnesses) /\ Len(leaves) <= Len(Tasks[host.epoch])
  /\ \A i \in DOMAIN leaves :
       leaves[i] = LeafPublicValues(witnesses[Len(witnesses) - Len(leaves) + i])
  /\ IsSeq(archive) /\ Len(archive) <= Len(witnesses)
  /\ host.at # "failed" =>
       Len(archive) + Len(leaves) + Len(tree.paths) = Len(witnesses)
  /\ \A i \in DOMAIN archive :
       AuthenticationOk(LeafPublicValues(witnesses[i]), archive[i].levels,
                        LeafKey, AggregateKey)

LEMMA ArchiveStarts ==
  ASSUME Init
  PROVE  ArchiveInv
<1>1. /\ witnesses = <<>> /\ leaves = <<>> /\ tree = NoTree /\ archive = <<>>
      /\ host.at = "start" /\ host.epoch = 1
  BY DEF Init, RunInit, ArchiveInit
<1>2. /\ Len(witnesses) = 0 /\ Len(leaves) = 0 /\ Len(tree.paths) = 0 /\ Len(archive) = 0
      /\ DOMAIN leaves = {} /\ DOMAIN archive = {}
  BY <1>1 DEF NoTree
<1>3. IsSeq(archive)
  <2>1. archive \in Seq({})
    BY <1>1
  <2> QED
    BY <2>1 DEF IsSeq
<1>4. 0 <= Len(Tasks[host.epoch])
  BY <1>1, TasksAssumption
<1> QED
  BY <1>1, <1>2, <1>3, <1>4 DEF ArchiveInv

\* Steps that leave the lots and their paths alone.
LEMMA ArchiveUnchanged ==
  ASSUME ArchiveInv, UNCHANGED <<witnesses, leaves, tree, archive>>,
         host'.epoch = host.epoch,
         host'.at = host.at \/ (host.at \notin {"tree", "posted", "failed"}
                                 /\ host'.at \notin {"tree", "posted"})
           \/ (host.at = "tree" /\ host'.at = "posted" /\ tree.root # <<>>)
  PROVE  ArchiveInv'
<1>1. LotValues' = LotValues
  BY DEF LotValues
<1>2. TreeOver(tree, LotValues)' = TreeOver(tree, LotValues)
  BY <1>1 DEF TreeOver, Grouping, Rooted, Leads, LevelOk, Room, Carried, Apart, Below
<1> QED
  BY <1>1, <1>2 DEF ArchiveInv

LEMMA LeafArchived ==
  ASSUME MapInv, ArchiveInv, HostProvesLeaf
  PROVE  ArchiveInv'
<1> DEFINE lot == Tasks[host.epoch][Len(leaves) + 1]
           values == LeafPublicValues(NextInput(lot))
           n == Len(witnesses)
           m == Len(leaves)
<1>1. /\ witnesses' = Append(witnesses, NextInput(lot)) /\ leaves' = Append(leaves, values)
      /\ host.at = "leaves" /\ UNCHANGED <<tree, host, archive>>
      /\ m < Len(Tasks[host.epoch])
  BY DEF HostProvesLeaf, ProveLeaf, HostAt
<1> HIDE DEF lot
<1>2. /\ n \in Nat /\ Len(witnesses') = n + 1
      /\ \A i \in 1 .. n : witnesses'[i] = witnesses[i]
      /\ witnesses'[n + 1] = NextInput(lot)
  BY <1>1, Follows DEF MapInv
<1>3. /\ m \in Nat /\ Len(leaves') = m + 1 /\ DOMAIN leaves = 1 .. m
      /\ DOMAIN leaves' = 1 .. m + 1
      /\ \A i \in 1 .. m : leaves'[i] = leaves[i]
      /\ leaves'[m + 1] = values
  <2> HIDE DEF values
  <2> QED
    BY <1>1, Follows DEF MapInv
<1>4. m <= n /\ Len(Tasks[host.epoch]) \in Nat
  BY TasksAssumption DEF MapInv, ArchiveInv
<1>5. \A i \in 1 .. m : leaves[i] = LeafPublicValues(witnesses[n - m + i])
  BY <1>3 DEF ArchiveInv
<1>6. \A i \in DOMAIN archive : i \in 1 .. n
  <2>1. Len(archive) \in Nat /\ DOMAIN archive = 1 .. Len(archive) /\ Len(archive) <= n
    BY Lengths DEF ArchiveInv
  <2> QED
    BY <1>2, <2>1
<1>7. values = LeafPublicValues(witnesses'[n + 1])
  BY <1>2
<1> HIDE DEF values, n, m
<1>8. \A i \in DOMAIN leaves' : leaves'[i] = LeafPublicValues(witnesses'[n - m + i])
  <2> SUFFICES ASSUME NEW i \in DOMAIN leaves'
               PROVE  leaves'[i] = LeafPublicValues(witnesses'[n - m + i])
    OBVIOUS
  <2>1. CASE i \in 1 .. m
    <3>1. n - m + i \in 1 .. n
      BY <1>2, <1>3, <1>4, <2>1
    <3> QED
      BY <1>2, <1>3, <1>5, <2>1, <3>1
  <2>2. CASE i = m + 1
    <3>1. n - m + i = n + 1
      BY <1>2, <1>3, <2>2
    <3> QED
      BY <1>3, <1>7, <2>2, <3>1
  <2> QED
    BY <1>3, <2>1, <2>2
<1>9. Len(witnesses') - Len(leaves') = n - m
  BY <1>2, <1>3
<1>10. \A i \in DOMAIN leaves' :
         leaves'[i] = LeafPublicValues(witnesses'[Len(witnesses') - Len(leaves') + i])
  BY <1>8, <1>9
<1>11. Len(leaves') <= Len(witnesses') /\ Len(leaves') <= Len(Tasks[host.epoch])
  BY <1>1, <1>2, <1>3, <1>4
<1>12. /\ Len(archive) <= Len(witnesses')
       /\ Len(archive) + Len(leaves') + Len(tree.paths) = Len(witnesses')
  <2>1. tree = NoTree /\ Len(archive) \in Nat
    BY <1>1, Lengths DEF ArchiveInv
  <2>2. Len(tree.paths) = 0
    BY <2>1 DEF NoTree
  <2>3. Len(archive) <= n /\ Len(archive) + m + Len(tree.paths) = n
    BY <1>1 DEF ArchiveInv, n, m
  <2> QED
    BY <1>2, <1>3, <2>1, <2>2, <2>3
<1>13. \A i \in DOMAIN archive :
         AuthenticationOk(LeafPublicValues(witnesses'[i]), archive[i].levels,
                          LeafKey, AggregateKey)
  BY <1>2, <1>6 DEF ArchiveInv
<1>14. IsSeq(archive) /\ tree = NoTree
  BY <1>1 DEF ArchiveInv
<1> QED
  BY <1>1, <1>10, <1>11, <1>12, <1>13, <1>14 DEF ArchiveInv

\* The tree begins over the epoch's leaves, none of them with a level yet.
LEMMA TreeStarts ==
  ASSUME MapInv, ArchiveInv, HostEndsEpoch
  PROVE  ArchiveInv'
<1> DEFINE n == Len(witnesses)
           m == Len(leaves)
<1>1. /\ host.at = "leaves" /\ host'.at = "tree" /\ host'.epoch = host.epoch
      /\ leaves # <<>> /\ leaves' = <<>> /\ UNCHANGED <<witnesses, archive>>
      /\ m = Len(Tasks[host.epoch])
      /\ tree' = [nodes |-> [i \in DOMAIN leaves |->
                               [kind |-> "leaf", values |-> leaves[i], leaves |-> {i}]],
                  next |-> <<>>, paths |-> [i \in DOMAIN leaves |-> <<>>], root |-> <<>>]
  BY HostStays DEF HostEndsEpoch, StartTree, HostAt
<1>2. m \in Nat \ {0} /\ DOMAIN leaves = 1 .. m /\ n \in Nat /\ m <= n
  BY <1>1, Lengths DEF MapInv, ArchiveInv
<1>3. \A i \in 1 .. m : leaves[i] = LeafPublicValues(witnesses[n - m + i])
  BY <1>2 DEF ArchiveInv
<1>4. IsSeq(<<>>) /\ DOMAIN <<>> = {} /\ Len(<<>>) = 0
  <2>1. <<>> \in Seq({})
    OBVIOUS
  <2> QED
    BY <2>1 DEF IsSeq
<1> DEFINE nodes == tree'.nodes
           paths == tree'.paths
           lots == LotValues'
<1>5. /\ tree'.next = <<>> /\ tree'.root = <<>>
      /\ IsSeq(nodes) /\ Len(nodes) = m /\ DOMAIN nodes = 1 .. m
      /\ \A i \in 1 .. m : /\ nodes[i].kind = "leaf" /\ nodes[i].values = leaves[i]
                           /\ nodes[i].leaves = {i}
  <2>1. /\ tree'.next = <<>> /\ tree'.root = <<>>
        /\ nodes = [i \in 1 .. m |->
                      [kind |-> "leaf", values |-> leaves[i], leaves |-> {i}]]
    BY <1>1, <1>2
  <2> HIDE DEF nodes
  <2>2. nodes = [i \in 1 .. m |-> nodes[i]]
    BY <2>1
  <2>3. m \in Nat
    BY <1>2
  <2> HIDE DEF m
  <2>4. IsSeq(nodes) /\ Len(nodes) = m /\ DOMAIN nodes = 1 .. m
    BY <2>2, <2>3, Listed
  <2> QED
    BY <2>1, <2>4
<1>6. /\ IsSeq(paths) /\ Len(paths) = m /\ DOMAIN paths = 1 .. m
      /\ \A i \in 1 .. m : paths[i] = <<>>
  <2>1. paths = [i \in 1 .. m |-> <<>>]
    BY <1>1, <1>2
  <2> HIDE DEF paths
  <2>2. paths = [i \in 1 .. m |-> paths[i]]
    BY <2>1
  <2>3. m \in Nat
    BY <1>2
  <2> HIDE DEF m
  <2>4. IsSeq(paths) /\ Len(paths) = m /\ DOMAIN paths = 1 .. m
    BY <2>2, <2>3, Listed
  <2> QED
    BY <2>1, <2>4
<1>7. \A i \in 1 .. m : lots[i] = leaves[i]
  <2>1. \A i \in 1 .. m : lots[i] = LeafPublicValues(witnesses'[Len(witnesses') - Len(paths) + i])
    BY <1>6 DEF LotValues
  <2> QED
    BY <1>1, <1>3, <1>6, <2>1
<1>8. \A l \in DOMAIN paths : Leads(lots[l], paths[l])
  BY <1>4, <1>6 DEF Leads
<1> HIDE DEF nodes, paths, lots, m, n
<1>9. Carried(nodes, 0, paths, lots)
  <2> SUFFICES ASSUME NEW i \in 1 .. m
               PROVE  /\ i \in DOMAIN paths /\ Len(paths[i]) = 0
                      /\ Child(nodes[i].kind, nodes[i].values)
                           = Reached(lots[i], paths[i], LeafKey, AggregateKey, 0 + 1)
    BY <1>5 DEF Carried
  <2>1. Reached(lots[i], paths[i], LeafKey, AggregateKey, 0 + 1) = Child("leaf", leaves[i])
    BY <1>7 DEF Reached
  <2> QED
    BY <1>4, <1>5, <1>6, <2>1
<1>10. Apart(nodes) /\ DOMAIN paths \subseteq Below(nodes)
  BY <1>5, <1>6 DEF Apart, Below
<1>11. Carried(<<>>, 0 + 1, paths, lots) /\ Apart(<<>>) /\ Below(<<>>) = {}
  BY <1>4 DEF Carried, Apart, Below
<1>12. Room(nodes, <<>>, 0)
  <2>1. host.epoch \in DOMAIN Tasks
    BY DEF MapInv
  <2>2. MaxLevels \in Nat \ {0} /\ m <= LeavesUnder[MaxLevels] /\ MaxLevels - 0 = MaxLevels
    BY <1>1, <2>1, PathsAssumption
  <2> QED
    BY <1>5, <2>2 DEF Room
<1>13. nodes # <<>>
  BY <1>2, <1>4, <1>5
<1>14. Grouping(tree', 0, lots)
  BY <1>5, <1>9, <1>10, <1>11, <1>12, <1>13 DEF Grouping, nodes, paths
<1>15. TreeOver(tree', lots)
  BY <1>4, <1>5, <1>6, <1>8, <1>14 DEF TreeOver, nodes, paths
<1>16. /\ Len(tree'.paths) <= Len(witnesses') /\ tree'.paths # <<>>
       /\ Len(archive') + Len(leaves') + Len(tree'.paths) = Len(witnesses')
  <2>1. tree = NoTree /\ Len(archive) + m + Len(tree.paths) = n
    BY <1>1 DEF ArchiveInv, n, m
  <2>2. Len(tree.paths) = 0 /\ Len(archive) \in Nat
    BY <1>4, <2>1, Lengths DEF NoTree, ArchiveInv
  <2>3. /\ Len(witnesses') = n /\ Len(archive') = Len(archive) /\ Len(leaves') = 0
        /\ Len(tree'.paths) = m
    BY <1>1, <1>4, <1>6 DEF paths, n
  <2>4. tree'.paths # <<>>
    BY <1>2, <1>4, <2>3
  <2> QED
    BY <1>2, <2>1, <2>2, <2>3, <2>4
<1>17. Len(leaves') <= Len(witnesses') /\ Len(leaves') <= Len(Tasks[host'.epoch])
  BY <1>1, <1>2, <1>4 DEF n, m
<1>18. TreeOver(tree, LotValues)'
  BY <1>15 DEF lots
<1>19. /\ IsSeq(archive') /\ Len(archive') <= Len(witnesses')
       /\ \A i \in DOMAIN archive' :
            AuthenticationOk(LeafPublicValues(witnesses'[i]), archive'[i].levels,
                             LeafKey, AggregateKey)
  BY <1>1 DEF ArchiveInv
<1>20. DOMAIN leaves' = {}
  BY <1>1, <1>4
<1> QED
  BY <1>1, <1>16, <1>17, <1>18, <1>19, <1>20 DEF ArchiveInv

LEMMA NodeArchived ==
  ASSUME MapInv, ArchiveInv, HostProvesNode
  PROVE  ArchiveInv'
<1>1. /\ host.at = "tree" /\ ProveNode /\ UNCHANGED <<witnesses, leaves, host, archive>>
  BY DEF HostProvesNode, ProveNode, HostAt
<1>2. TreeOver(tree, LotValues) /\ IsSeq(tree.paths) /\ tree.paths # <<>>
  BY <1>1 DEF ArchiveInv, TreeOver
<1>3. TreeOver(tree', LotValues) /\ Len(tree'.paths) = Len(tree.paths)
  BY <1>1, <1>2, NodeKeepsTree
<1>4. IsSeq(tree'.paths)
  BY <1>3 DEF TreeOver
<1>5. DOMAIN tree'.paths = DOMAIN tree.paths /\ tree'.paths # <<>>
  BY <1>2, <1>3, <1>4, Lengths
<1>6. LotValues' = LotValues
  BY <1>1, <1>3, <1>5 DEF LotValues
<1>7. TreeOver(tree', LotValues')
  BY <1>3, <1>6
<1>8. TreeOver(tree, LotValues)'
  BY <1>7
<1> QED
  BY <1>1, <1>3, <1>5, <1>8 DEF ArchiveInv

\* The paths of a tree with a root authenticate its lots.
LEMMA PathsOfRoot ==
  ASSUME NEW t, NEW lots, TreeOver(t, lots), t.root # <<>>, NEW l \in DOMAIN t.paths
  PROVE  /\ AuthenticationOk(lots[l], t.paths[l], LeafKey, AggregateKey)
         /\ AuthenticatedRoot(t.paths[l], LeafKey, AggregateKey) = t.root[1]
<1> DEFINE levels == t.paths[l]
<1>1. /\ Leads(lots[l], levels)
      /\ Len(levels) \in 1 .. MaxLevels
      /\ AuthenticatedRoot(levels, LeafKey, AggregateKey) = t.root[1]
  BY DEF TreeOver, Rooted
<1> HIDE DEF levels
<1>2. IsSeq(levels) /\ Len(levels) \in Nat /\ levels # <<>>
  BY <1>1, Lengths, PathsAssumption DEF Leads
<1>3. /\ EvaluateOk(LeafKey, AggregateKey, <<Child("leaf", lots[l])>>)
      /\ \A k \in DOMAIN levels : LevelOk(lots[l], levels, k)
  BY <1>1, <1>2 DEF Leads
<1> QED
  BY <1>1, <1>3 DEF AuthenticationOk, LevelOk, levels

\* The epoch is acknowledged, and its paths go to the archive.
LEMMA EpochArchived ==
  ASSUME MapInv, ArchiveInv, HostHasReply
  PROVE  ArchiveInv'
<1>1. /\ host.at = "posted" /\ NextEpoch /\ tree' = NoTree
      /\ UNCHANGED <<witnesses, leaves>>
  BY DEF HostHasReply, HostAt
<1>2. /\ leaves = <<>> /\ tree.root # <<>> /\ TreeOver(tree, LotValues)
      /\ Len(tree.paths) <= Len(witnesses)
      /\ Len(archive) + Len(leaves) + Len(tree.paths) = Len(witnesses)
  BY <1>1 DEF ArchiveInv
<1>3. /\ IsSeq(archive) /\ Len(archive) \in Nat /\ DOMAIN archive = 1 .. Len(archive)
      /\ IsSeq(tree.paths) /\ Len(tree.paths) \in Nat
      /\ DOMAIN tree.paths = 1 .. Len(tree.paths)
      /\ Len(witnesses) \in Nat
  BY <1>2, Lengths DEF ArchiveInv, TreeOver, MapInv
<1>4. Len(leaves) = 0 /\ DOMAIN leaves = {} /\ Len(NoTree.paths) = 0
  BY <1>2 DEF NoTree
<1>5. CASE Acknowledged
  <2> DEFINE more == [l \in DOMAIN tree.paths |->
                        [tx |-> handlers[Host].tx, levels |-> tree.paths[l]]]
             n == Len(archive)
             m == Len(tree.paths)
  <2>1. archive' = archive \o more /\ EpochDone(handlers[Host].anchor)
    BY <1>1, <1>5 DEF NextEpoch
  <2>2. /\ host'.epoch \in DOMAIN Tasks /\ host'.at \in {"done", "leaves"}
    BY <2>1, NextEpochInTurn
  <2>3. IsSeq(more) /\ Len(more) = m /\ \A l \in 1 .. m : more[l].levels = tree.paths[l]
    <3>1. \A l \in 1 .. m : more[l].levels = tree.paths[l]
      BY <1>3
    <3>2. more = [l \in 1 .. m |-> more[l]]
      BY <1>3
    <3> HIDE DEF more
    <3>3. IsSeq(more) /\ Len(more) = m
      BY <1>3, <3>2, Listed
    <3> QED
      BY <3>1, <3>3
  <2> HIDE DEF more, n, m
  <2>4. /\ IsSeq(archive') /\ Len(archive') = n + m
        /\ \A i \in 1 .. n : archive'[i] = archive[i]
        /\ \A i \in 1 .. m : archive'[n + i] = more[i]
    BY <1>3, <2>1, <2>3, Joined DEF n
  <2>5. n + m = Len(witnesses)
    BY <1>2, <1>3, <1>4 DEF n, m
  <2>6. ASSUME NEW i \in DOMAIN archive'
        PROVE  AuthenticationOk(LeafPublicValues(witnesses[i]), archive'[i].levels,
                                LeafKey, AggregateKey)
    <3>1. i \in 1 .. n + m /\ n \in Nat /\ m \in Nat
      BY <1>3, <2>4, Lengths DEF n, m
    <3>2. CASE i \in 1 .. n
      BY <1>3, <2>4, <3>2 DEF ArchiveInv, n
    <3>3. CASE i \notin 1 .. n
      <4> DEFINE l == i - n
      <4>1. l \in 1 .. m /\ i = n + l /\ l \in DOMAIN tree.paths
        BY <1>3, <3>1, <3>3 DEF m
      <4> HIDE DEF l
      <4>2. archive'[i].levels = tree.paths[l]
        BY <2>3, <2>4, <4>1
      <4>3. AuthenticationOk(LotValues[l], tree.paths[l], LeafKey, AggregateKey)
        BY <1>2, <4>1, PathsOfRoot
      <4>4. Len(witnesses) - Len(tree.paths) + l = i
        BY <2>5, <3>1, <4>1 DEF m
      <4>5. LotValues[l] = LeafPublicValues(witnesses[i])
        BY <4>1, <4>4 DEF LotValues
      <4> QED
        BY <4>2, <4>3, <4>5
    <3> QED
      BY <3>2, <3>3
  <2>7. /\ Len(archive') <= Len(witnesses)
        /\ Len(archive') + 0 + 0 = Len(witnesses)
        /\ 0 <= Len(witnesses)
    BY <1>3, <2>4, <2>5
  <2>8. 0 <= Len(Tasks[host'.epoch])
    BY <2>2, TasksAssumption
  <2> QED
    BY <1>1, <1>4, <2>2, <2>4, <2>6, <2>7, <2>8 DEF ArchiveInv
<1>6. CASE ~ Acknowledged
  <2>1. HostGoes("failed") /\ UNCHANGED archive
    BY <1>1, <1>6 DEF NextEpoch
  <2>2. host'.at = "failed" /\ host'.epoch = host.epoch
    BY <2>1, HostStays
  <2>3. 0 <= Len(Tasks[host'.epoch]) /\ 0 <= Len(witnesses)
    BY <1>3, <2>2, TasksAssumption DEF MapInv
  <2> QED
    BY <1>1, <1>4, <2>1, <2>2, <2>3 DEF ArchiveInv
<1> QED
  BY <1>5, <1>6

LEMMA ArchiveKept ==
  ASSUME MapInv, ArchiveInv, [Next]_vars
  PROVE  ArchiveInv'
<1>1. CASE HostResets
  BY <1>1, HostStays, ArchiveUnchanged DEF HostResets, HostAt, archiveVars
<1>2. CASE HostWasReset
  <2>1. host'.at = "leaves" /\ host'.epoch = host.epoch /\ host.at = "resetting"
    BY <1>2 DEF HostWasReset, HostAt, MapInv
  <2> QED
    BY <1>2, <2>1, ArchiveUnchanged DEF HostWasReset, archiveVars
<1>3. CASE HostProvesLeaf
  BY <1>3, LeafArchived
<1>4. CASE HostEndsEpoch
  BY <1>4, TreeStarts
<1>5. CASE HostProvesNode
  BY <1>5, NodeArchived
<1>6. CASE HostPosts
  BY <1>6, HostStays, ArchiveUnchanged DEF HostPosts, HostAt, archiveVars
<1>7. CASE HostHasReply
  BY <1>7, EpochArchived
<1>8. CASE EnvironmentNext \/ UNCHANGED runVars
  <2>1. UNCHANGED <<archiveVars, host, archive>>
    BY <1>8 DEF EnvironmentNext, OtherResets, OwnerRevokes, runVars
  <2> QED
    BY <2>1, ArchiveUnchanged DEF archiveVars
<1>9. CASE ViewNext
  BY <1>8, <1>9 DEF ViewNext, StartView, ReadReceipt, ReadBlock, ReadTx, ReadAnchor,
                    ReadPolicy
<1> QED
  BY <1>1, <1>2, <1>3, <1>4, <1>5, <1>6, <1>7, <1>8, <1>9 DEF Next, HostNext, vars

\* Leaves, paths and archive always agree with the lots that were proved.
THEOREM ArchiveInductive == Spec => []ArchiveInv
<1> QED
  BY MapInductive, ArchiveStarts, ArchiveKept, PTL DEF Spec

\* Whatever the number of lots and the fan-in, also where the last group of a
\* level is a short one: every path that the host writes down while it proves
\* the nodes is one the verifier takes, and leads to the root that is anchored
\* (append_level and prove_epoch_tree_with_archive, verify_authentication).
THEOREM PathsLead == Spec => []PathsAuthenticate
<1>1. ArchiveInv => PathsAuthenticate
  <2> SUFFICES ASSUME ArchiveInv, tree.root # <<>>, NEW l \in DOMAIN tree.paths
               PROVE  LET lot == witnesses[Len(witnesses) - Len(tree.paths) + l]
                      IN /\ AuthenticationOk(LeafPublicValues(lot), tree.paths[l],
                                             LeafKey, AggregateKey)
                         /\ AuthenticatedRoot(tree.paths[l], LeafKey, AggregateKey)
                              = tree.root[1]
    BY DEF PathsAuthenticate
  <2>1. NoTree.root = <<>>
    BY DEF NoTree
  <2>2. TreeOver(tree, LotValues)
    BY <2>1 DEF ArchiveInv
  <2>3. LotValues[l] = LeafPublicValues(witnesses[Len(witnesses) - Len(tree.paths) + l])
    BY DEF LotValues
  <2> QED
    BY <2>2, <2>3, PathsOfRoot
<1> QED
  BY <1>1, ArchiveInductive, PTL

-----------------------------------------------------------------------------
(* The chain: what its blocks say of the transactions that are sent.         *)

\* A state after the first n of the transactions has the contracts they deploy,
\* each once and with the keys and verifier it was deployed with, and also with
\* its root when none of them anchors anything.
StateOk(txs, state, n) ==
  /\ {"contracts", "allowed"} \subseteq DOMAIN state
  /\ \A c \in state.contracts :
       /\ {"root", "epochs"} \subseteq DOMAIN c
       /\ c.address \in 1 .. n /\ txs[c.address].kind = "deploy"
       /\ c.leafKey = txs[c.address].leafKey
       /\ c.aggregateKey = txs[c.address].aggregateKey
       /\ c.verifier = txs[c.address].verifier
       /\ (\A i \in 1 .. n : txs[i].kind # "anchor") => c.root = txs[c.address].root
  /\ \A c, d \in state.contracts : c.address = d.address => c = d
  /\ \A i \in 1 .. n : txs[i].kind = "deploy" => HasCode(state, i)

\* The blocks follow each other, and what succeeds in them was for a contract.
BlockOk(txs, blocks, b) ==
  /\ blocks[b].last \in 1 .. Len(txs)
  /\ blocks[b].first = (IF b = 1 THEN 0 ELSE blocks[b - 1].last) + 1
  /\ blocks[b].first \in Nat \ {0} /\ blocks[b].first <= blocks[b].last
  /\ StateOk(txs, blocks[b].state, blocks[b].last)
  /\ blocks[b].successes \subseteq blocks[b].first .. blocks[b].last
  /\ \A id \in blocks[b].successes :
       txs[id].kind = "anchor" => HasCode(blocks[b].state, txs[id].to)

ChainInv ==
  /\ IsSeq(chain) /\ reorgs \in Nat
  /\ \A b \in DOMAIN chain : BlockOk(sent, chain, b)

LEMMA GenesisOk == StateOk(sent, Genesis, 0)
<1>1. {"contracts", "allowed"} \subseteq DOMAIN Genesis /\ Genesis.contracts = {}
  BY DEF Genesis
<1> QED
  BY <1>1 DEF StateOk

\* One more transaction.
LEMMA AfterOk ==
  ASSUME NEW state, NEW n \in Nat, StateOk(sent, state, n)
  PROVE  /\ StateOk(sent, After(state, n + 1), n + 1)
         /\ sent[n + 1].kind # "anchor" =>
              state.contracts \subseteq After(state, n + 1).contracts
<1> DEFINE tx == sent[n + 1]
           after == After(state, n + 1)
<1>0. PICK m : m = n + 1 /\ m \in Nat /\ m \notin 1 .. n
        /\ \A i : i \in 1 .. m <=> (i \in 1 .. n \/ i = m)
  OBVIOUS
<1>1. CASE tx.kind = "deploy"
  <2> DEFINE new == [address |-> n + 1, code |-> tx.code, verifier |-> tx.verifier,
                     leafKey |-> tx.leafKey, aggregateKey |-> tx.aggregateKey,
                     root |-> tx.root, epochs |-> {}]
  <2>1. after = [state EXCEPT !.contracts = @ \cup {new}]
    BY <1>1 DEF After
  <2>2. /\ DOMAIN after = DOMAIN state
        /\ after.contracts = state.contracts \cup {new}
    BY <2>1 DEF StateOk
  <2>3. /\ {"root", "epochs"} \subseteq DOMAIN new
        /\ new.address = m /\ new.leafKey = tx.leafKey
        /\ new.aggregateKey = tx.aggregateKey
        /\ new.verifier = tx.verifier /\ new.root = tx.root
    BY <1>0
  <2> HIDE DEF new, after
  <2>4. HasCode(after, m)
    BY <2>2, <2>3 DEF HasCode
  <2>5. \A i \in 1 .. n : sent[i].kind = "deploy" => HasCode(after, i)
    BY <2>2 DEF HasCode, StateOk
  <2>6. \A c, d \in after.contracts : c.address = d.address => c = d
    BY <1>0, <2>2, <2>3 DEF StateOk
  <2>7. \A c \in after.contracts :
          /\ {"root", "epochs"} \subseteq DOMAIN c
          /\ c.address \in 1 .. m /\ sent[c.address].kind = "deploy"
          /\ c.leafKey = sent[c.address].leafKey
          /\ c.aggregateKey = sent[c.address].aggregateKey
          /\ c.verifier = sent[c.address].verifier
          /\ (\A i \in 1 .. m : sent[i].kind # "anchor") => c.root = sent[c.address].root
    BY <1>0, <1>1, <2>2, <2>3 DEF StateOk
  <2>8. StateOk(sent, after, m)
    BY <1>0, <2>2, <2>4, <2>5, <2>6, <2>7 DEF StateOk
  <2> QED
    BY <1>0, <2>2, <2>8 DEF after
<1>2. CASE tx.kind # "deploy" /\ after.contracts = state.contracts /\ DOMAIN after = DOMAIN state
  <2>1. \A i \in 1 .. n : sent[i].kind = "deploy" => HasCode(after, i)
    BY <1>2 DEF HasCode, StateOk
  <2>2. StateOk(sent, after, m)
    <3> HIDE DEF after
    <3> QED
      BY <1>0, <1>2, <2>1 DEF StateOk
  <2> QED
    BY <1>0, <1>2, <2>2
<1>3. CASE tx.kind = "anchor" /\ Accepts(state, tx)
  <2> DEFINE contract == Contract(state, tx.to)
             new == [contract EXCEPT !.root = tx.values.new, !.epochs = @ \cup {tx.epoch}]
  <2>1. after = [state EXCEPT !.contracts = (@ \ {contract}) \cup {new}]
    BY <1>3 DEF After
  <2>2. /\ DOMAIN after = DOMAIN state
        /\ after.contracts = (state.contracts \ {contract}) \cup {new}
    BY <2>1 DEF StateOk
  <2>3. contract \in state.contracts
    BY <1>3 DEF Accepts, HasCode, Contract
  <2>4. DOMAIN new = DOMAIN contract /\ new.address = contract.address
        /\ new.leafKey = contract.leafKey /\ new.aggregateKey = contract.aggregateKey
        /\ new.verifier = contract.verifier
    OBVIOUS
  <2> HIDE DEF new, after, contract
  <2>5. \A i \in 1 .. n : HasCode(state, i) => HasCode(after, i)
    BY <2>2, <2>3, <2>4 DEF HasCode
  <2>6. \A c, d \in after.contracts : c.address = d.address => c = d
    BY <2>2, <2>3, <2>4 DEF StateOk
  <2>7. \A c \in after.contracts :
          /\ {"root", "epochs"} \subseteq DOMAIN c
          /\ c.address \in 1 .. n /\ sent[c.address].kind = "deploy"
          /\ c.leafKey = sent[c.address].leafKey
          /\ c.aggregateKey = sent[c.address].aggregateKey
          /\ c.verifier = sent[c.address].verifier
    BY <2>2, <2>3, <2>4 DEF StateOk
  <2>8. StateOk(sent, after, m)
    BY <1>0, <1>3, <2>2, <2>5, <2>6, <2>7 DEF StateOk
  <2> QED
    BY <1>0, <1>3, <2>8 DEF after
<1>4. CASE tx.kind # "deploy" /\ ~ (tx.kind = "anchor" /\ Accepts(state, tx))
  <2>1. CASE tx.kind = "policy"
    <3>1. after = [state EXCEPT !.allowed = IF tx.allowed THEN @ \cup {tx.policy}
                                                          ELSE @ \ {tx.policy}]
      BY <2>1 DEF After
    <3> HIDE DEF after
    <3>2. after.contracts = state.contracts /\ DOMAIN after = DOMAIN state
      BY <3>1 DEF StateOk
    <3> QED
      BY <1>2, <1>4, <3>2 DEF after
  <2>2. CASE tx.kind # "policy"
    <3>1. after = state
      BY <1>4, <2>2 DEF After
    <3> QED
      BY <1>2, <1>4, <3>1
  <2> QED
    BY <2>1, <2>2
<1> QED
  BY <1>1, <1>3, <1>4

\* The states over the next transactions are those after one more each.
LEMMA StatesOverDef ==
  ASSUME NEW count \in Nat
  PROVE  /\ StatesOver(count)[0] = Latest
         /\ \A k \in 1 .. count :
              StatesOver(count)[k] = After(StatesOver(count)[k - 1], Mined + k)
<1> DEFINE Over(state, k) == After(state, Mined + k)
           Fits(g, n) == g = [k \in 0 .. n |-> IF k = 0 THEN Latest ELSE Over(g[k - 1], k)]
           T == {n \in Nat : \E g : Fits(g, n)}
<1>1. StatesOver(count) = CHOOSE g : Fits(g, count)
  BY DEF StatesOver
<1> HIDE DEF Over
<1>2. 0 \in T
  <2> DEFINE g == [k \in 0 .. 0 |-> Latest]
  <2>1. Fits(g, 0)
    OBVIOUS
  <2> HIDE DEF g, Fits
  <2> QED
    BY <2>1
<1>3. ASSUME NEW n \in T
      PROVE  n + 1 \in T
  <2>1. PICK g : Fits(g, n)
    OBVIOUS
  <2> DEFINE h == [k \in 0 .. n + 1 |-> IF k = n + 1 THEN Over(g[n], k) ELSE g[k]]
  <2>2. n \in Nat /\ \A k \in 0 .. n : g[k] = IF k = 0 THEN Latest ELSE Over(g[k - 1], k)
    BY <2>1
  <2>3. \A k \in 0 .. n + 1 : h[k] = IF k = 0 THEN Latest ELSE Over(h[k - 1], k)
    BY <2>2
  <2>4. Fits(h, n + 1)
    <3>1. h = [k \in 0 .. n + 1 |-> h[k]]
      OBVIOUS
    <3> HIDE DEF h
    <3> QED
      BY <2>3, <3>1
  <2> HIDE DEF h, Fits
  <2> QED
    BY <2>2, <2>4
<1>4. count \in T
  <2> HIDE DEF T
  <2> QED
    BY <1>2, <1>3, Induction, T \subseteq Nat DEF T
<1>5. Fits(StatesOver(count), count)
  <2> HIDE DEF Fits
  <2> QED
    BY <1>1, <1>4
<1> HIDE DEF T
<1>6. \A k \in 0 .. count : StatesOver(count)[k] =
        IF k = 0 THEN Latest ELSE Over(StatesOver(count)[k - 1], k)
  BY <1>5
<1> QED
  BY <1>6 DEF Over

\* The latest state is one after the mined transactions.
LEMMA LatestOk ==
  ASSUME ChainInv, SentInv
  PROVE  Mined \in 0 .. Len(sent) /\ StateOk(sent, Latest, Mined)
<1>1. CASE chain = <<>>
  BY <1>1, GenesisOk, SentFacts DEF Mined, Latest
<1>2. CASE chain # <<>>
  <2>1. Len(chain) \in DOMAIN chain
    BY <1>2, Lengths DEF ChainInv
  <2>2. BlockOk(sent, chain, Len(chain))
    BY <2>1 DEF ChainInv
  <2> QED
    BY <1>2, <2>2, SentFacts DEF Mined, Latest, BlockOk
<1> QED
  BY <1>1, <1>2

\* So are the ones that come while a block is made, and no root changes as long
\* as nothing is anchored.
LEMMA StatesOk ==
  ASSUME ChainInv, SentInv, NEW count \in Nat, NEW k \in 0 .. count
  PROVE  /\ StateOk(sent, StatesOver(count)[k], Mined + k)
         /\ (\A i \in Mined + 1 .. Mined + count : sent[i].kind # "anchor") =>
              Latest.contracts \subseteq StatesOver(count)[k].contracts
<1> DEFINE states == StatesOver(count)
           Quiet == \A i \in Mined + 1 .. Mined + count : sent[i].kind # "anchor"
           T == {n \in Nat : n <= count =>
                   /\ StateOk(sent, states[n], Mined + n)
                   /\ Quiet => Latest.contracts \subseteq states[n].contracts}
<1>1. /\ states[0] = Latest
      /\ \A n \in 1 .. count : states[n] = After(states[n - 1], Mined + n)
  BY StatesOverDef
<1>2. Mined \in Nat /\ StateOk(sent, Latest, Mined)
  BY LatestOk, SentFacts
<1> HIDE DEF states
<1>3. 0 \in T
  <2>1. Mined + 0 = Mined
    BY <1>2
  <2> QED
    BY <1>1, <1>2, <2>1
<1>4. ASSUME NEW n \in T, n + 1 <= count
      PROVE  /\ StateOk(sent, states[n + 1], Mined + (n + 1))
             /\ Quiet => Latest.contracts \subseteq states[n + 1].contracts
  <2>1. n \in Nat /\ n <= count /\ n + 1 \in 1 .. count /\ n + 1 - 1 = n
    BY <1>4
  <2>2. /\ StateOk(sent, states[n], Mined + n)
        /\ Quiet => Latest.contracts \subseteq states[n].contracts
    BY <2>1
  <2> HIDE DEF T, Quiet
  <2>3. Mined + (n + 1) = (Mined + n) + 1 /\ Mined + n \in Nat
    BY <1>2, <2>1
  <2>4. states[n + 1] = After(states[n], (Mined + n) + 1)
    <3>1. states[n + 1] = After(states[n + 1 - 1], Mined + (n + 1))
      BY ONLY <1>1, <2>1
    <3> QED
      BY ONLY <2>1, <2>3, <3>1
  <2>5. /\ StateOk(sent, states[n + 1], (Mined + n) + 1)
        /\ sent[(Mined + n) + 1].kind # "anchor" =>
             states[n].contracts \subseteq states[n + 1].contracts
    BY ONLY <2>2, <2>3, <2>4, AfterOk
  <2>6. Quiet => sent[(Mined + n) + 1].kind # "anchor"
    BY <1>2, <2>1 DEF Quiet
  <2> QED
    BY <2>2, <2>3, <2>5, <2>6
<1>5. \A n \in T : n + 1 \in T
  BY <1>4
<1>6. T = Nat
  <2> HIDE DEF T
  <2> QED
    BY <1>3, <1>5, Induction, T \subseteq Nat DEF T
<1>7. k \in T /\ k <= count
  <2>1. k \in Nat /\ k <= count
    OBVIOUS
  <2> HIDE DEF T
  <2> QED
    BY <1>6, <2>1
<1> QED
  BY <1>7 DEF states

\* The first transactions and blocks are as they were.
LEMMA BlockStays ==
  ASSUME NEW txs, NEW blocks, NEW more, NEW after, NEW b \in Nat \ {0},
         Len(txs) \in Nat, Len(more) \in Nat, Len(txs) <= Len(more),
         \A i \in 1 .. Len(txs) : more[i] = txs[i],
         \A a \in 1 .. b : after[a] = blocks[a],
         BlockOk(txs, blocks, b)
  PROVE  BlockOk(more, after, b)
<1> DEFINE block == blocks[b]
<1>1. after[b] = block /\ (b # 1 => after[b - 1] = blocks[b - 1])
  OBVIOUS
<1>2. block.last \in 1 .. Len(txs) /\ StateOk(txs, block.state, block.last)
  BY DEF BlockOk
<1> HIDE DEF block
<1>3. \A i \in 1 .. block.last : more[i] = txs[i]
  BY <1>2
<1>4. StateOk(more, block.state, block.last)
  <2>1. PICK s, n : s = block.state /\ n = block.last
    OBVIOUS
  <2>2. StateOk(txs, s, n) /\ \A i \in 1 .. n : more[i] = txs[i]
    BY <1>2, <1>3, <2>1
  <2>3. \A c \in s.contracts : more[c.address] = txs[c.address]
    BY <2>2 DEF StateOk
  <2>4. (\A i \in 1 .. n : more[i].kind # "anchor") => \A i \in 1 .. n : txs[i].kind # "anchor"
    BY <2>2
  <2>5. StateOk(more, s, n)
    BY ONLY <2>2, <2>3, <2>4 DEF StateOk
  <2> QED
    BY <2>1, <2>5
<1>5. \A id \in block.successes : more[id] = txs[id]
  <2>1. block.successes \subseteq block.first .. block.last /\ block.first \in Nat \ {0}
    BY DEF BlockOk, block
  <2> QED
    BY <1>2, <1>3, <2>1
<1>6. block.last \in 1 .. Len(more)
  BY <1>2
<1> QED
  BY <1>1, <1>4, <1>5, <1>6 DEF BlockOk, block

LEMMA ChainStays ==
  ASSUME SentInv, ChainInv, SentStays, UNCHANGED <<chain, reorgs>>
  PROVE  ChainInv'
<1>1. PICK some : sent' \in Seq(some)
  BY DEF SentStays
<1>2. /\ Len(sent) \in Nat /\ DOMAIN sent = 1 .. Len(sent)
      /\ Len(sent') \in Nat /\ DOMAIN sent' = 1 .. Len(sent')
  BY <1>1, SentFacts
<1>3. Len(sent) <= Len(sent') /\ \A i \in 1 .. Len(sent) : sent'[i] = sent[i]
  BY <1>2 DEF SentStays
<1>4. ASSUME NEW b \in DOMAIN chain
      PROVE  BlockOk(sent', chain, b)
  <2>1. b \in Nat \ {0} /\ BlockOk(sent, chain, b)
    BY <1>4, Lengths DEF ChainInv
  <2> QED
    BY <1>2, <1>3, <2>1, BlockStays
<1> QED
  BY <1>4 DEF ChainInv

\* A block is mined.
LEMMA BlockMined ==
  ASSUME SentInv, ChainInv, MineBlock
  PROVE  /\ ChainInv' /\ Mined \in Nat /\ Mined' \in Nat /\ Mined <= Mined'
         /\ \A b \in DOMAIN chain : b \in DOMAIN chain' /\ chain'[b] = chain[b]
         /\ (\A i \in DOMAIN sent : sent[i].kind = "anchor" => i <= Mined) =>
              Latest.contracts \subseteq Latest'.contracts
<1>1. PICK count \in 1 .. MaxInBlock :
        /\ Mined + count <= Len(sent)
        /\ chain' = Append(chain, NewBlock(count)) /\ UNCHANGED <<sent, reorgs>>
  BY DEF MineBlock
<1>2. /\ Mined \in 0 .. Len(sent) /\ Len(sent) \in Nat /\ DOMAIN sent = 1 .. Len(sent)
      /\ count \in Nat \ {0}
  BY LatestOk, SentFacts, ChainAssumption
<1> DEFINE n == Len(chain)
           states == StatesOver(count)
           block == NewBlock(count)
<1>3. /\ IsSeq(chain') /\ n \in Nat /\ DOMAIN chain = 1 .. n
      /\ Len(chain') = n + 1 /\ DOMAIN chain' = 1 .. n + 1
      /\ \A b \in 1 .. n : chain'[b] = chain[b]
      /\ chain'[n + 1] = block
  <2> HIDE DEF block
  <2> QED
    BY <1>1, Follows DEF ChainInv, block
<1>4. /\ block.first = Mined + 1 /\ block.last = Mined + count
      /\ block.state = states[count]
      /\ \A id \in block.successes : \E k \in 1 .. count :
           /\ id = Mined + k
           /\ sent[id].kind = "anchor" => Accepts(states[k - 1], sent[id])
  BY DEF NewBlock
<1> HIDE DEF states, block
<1>5. \A k \in 0 .. count : StateOk(sent, states[k], Mined + k)
  BY <1>2, StatesOk DEF states
<1>6. ASSUME NEW id \in block.successes
      PROVE  /\ id \in block.first .. block.last
             /\ sent[id].kind = "anchor" => HasCode(block.state, sent[id].to)
  <2>1. PICK k \in 1 .. count :
          /\ id = Mined + k
          /\ sent[id].kind = "anchor" => Accepts(states[k - 1], sent[id])
    BY <1>4
  <2>2. id \in block.first .. block.last
    BY <1>2, <1>4, <2>1
  <2>3. ASSUME sent[id].kind = "anchor"
        PROVE  HasCode(block.state, sent[id].to)
    <3>1. HasCode(states[k - 1], sent[id].to) /\ StateOk(sent, states[k - 1], Mined + (k - 1))
      BY <1>2, <1>5, <2>1, <2>3 DEF Accepts
    <3>2. /\ sent[id].to \in 1 .. Mined + (k - 1)
          /\ sent[sent[id].to].kind = "deploy"
      BY <3>1 DEF StateOk, HasCode
    <3>3. sent[id].to \in 1 .. Mined + count
      BY <1>2, <2>1, <3>2
    <3>4. StateOk(sent, block.state, Mined + count)
      BY <1>2, <1>4, <1>5
    <3> QED
      BY <3>2, <3>3, <3>4 DEF StateOk
  <2> QED
    BY <2>2, <2>3
<1>7. Mined = IF n = 0 THEN 0 ELSE chain[n].last
  BY <1>3, Lengths DEF Mined, ChainInv
<1>8. BlockOk(sent, chain', n + 1)
  <2>1. (IF n + 1 = 1 THEN 0 ELSE chain'[n + 1 - 1].last) = Mined
    BY <1>3, <1>7
  <2>2. StateOk(sent, block.state, block.last)
    BY <1>2, <1>4, <1>5
  <2>3. /\ block.last \in 1 .. Len(sent)
        /\ block.first \in Nat \ {0} /\ block.first <= block.last
    BY <1>1, <1>2, <1>4
  <2> QED
    BY <1>3, <1>4, <1>6, <2>1, <2>2, <2>3 DEF BlockOk
<1>9. ASSUME NEW b \in 1 .. n
      PROVE  BlockOk(sent, chain', b)
  <2>1. b \in Nat \ {0} /\ BlockOk(sent, chain, b) /\ \A a \in 1 .. b : chain'[a] = chain[a]
    BY <1>3 DEF ChainInv
  <2> QED
    BY <1>2, <2>1, BlockStays
<1>10. ChainInv'
  <2>1. \A b \in DOMAIN chain' : BlockOk(sent, chain', b)
    BY <1>3, <1>8, <1>9
  <2> QED
    BY <1>1, <1>3, <2>1 DEF ChainInv
<1>11. Mined' = Mined + count /\ Latest' = states[count]
  <2>1. chain' # <<>> /\ chain'[Len(chain')] = block
    BY <1>3, Lengths
  <2> QED
    BY <1>4, <2>1 DEF Mined, Latest
<1>12. ASSUME \A i \in DOMAIN sent : sent[i].kind = "anchor" => i <= Mined
       PROVE  Latest.contracts \subseteq Latest'.contracts
  <2>1. \A i \in Mined + 1 .. Mined + count : sent[i].kind # "anchor"
    BY <1>1, <1>2, <1>12
  <2>2. Latest.contracts \subseteq states[count].contracts
    BY <1>2, <2>1, StatesOk DEF states
  <2> QED
    BY <1>11, <2>2
<1> QED
  BY <1>2, <1>3, <1>10, <1>11, <1>12

\* The last block is dropped.
LEMMA BlockDropped ==
  ASSUME SentInv, ChainInv, Reorg
  PROVE  ChainInv' /\ reorgs' # reorgs /\ reorgs' > reorgs
<1> DEFINE n == Len(chain)
           m == n - 1
<1>1. /\ chain # <<>> /\ chain' = SubSeq(chain, 1, m) /\ reorgs' = reorgs + 1
      /\ UNCHANGED sent
  BY DEF Reorg
<1>2. n \in Nat \ {0} /\ DOMAIN chain = 1 .. n /\ IsSeq(chain) /\ m \in 0 .. n /\ reorgs \in Nat
  BY <1>1, Lengths DEF ChainInv
<1>3. /\ IsSeq(chain') /\ Len(chain') = m
      /\ \A b \in 1 .. m : chain'[b] = chain[b]
  <2> HIDE DEF m
  <2> QED
    BY <1>1, <1>2, Parts
<1>4. DOMAIN chain' = 1 .. m
  BY <1>3, Lengths
<1>5. Len(sent) \in Nat
  BY SentFacts
<1>6. ASSUME NEW b \in DOMAIN chain'
      PROVE  BlockOk(sent, chain', b)
  <2>1. /\ b \in Nat \ {0} /\ BlockOk(sent, chain, b)
        /\ \A a \in 1 .. b : chain'[a] = chain[a]
    BY <1>2, <1>3, <1>4 DEF ChainInv
  <2> QED
    BY <1>5, <2>1, BlockStays
<1> QED
  BY <1>1, <1>2, <1>3, <1>6 DEF ChainInv

-----------------------------------------------------------------------------
(* The host, its last request and the contract it was told of.               *)

\* A contract is deployed, and its root by now.
Stands(a) == a \in 1 .. Mined /\ sent[a].kind = "deploy"
RootAt(a) == Contract(Latest, a).root

AnchorsMined == \A i \in DOMAIN sent : sent[i].kind = "anchor" => i <= Mined

\* What is awaited are deployments, only the host anchors, and the contract in
\* the variable is deployed as long as no block is replaced.
DeployedInv ==
  /\ \A c \in Clients :
       /\ handlers[c].at \in Deploying => sent[handlers[c].tx].kind = "deploy"
       /\ c # Host => handlers[c].at \notin Anchoring
  /\ epochAnchor # None =>
       /\ sent[epochAnchor].kind = "deploy"
       /\ ~ RunOver => epochAnchor <= Mined

ProvedBefore ==
  {NullifierIndex(witnesses[i].lot, witnesses[i].key) :
     i \in 1 .. Len(witnesses) - Len(leaves)}

\* Before it is told of a contract, the host has proved nothing, and no one has
\* anchored anything.
Resetting(h) ==
  /\ h.at \in Deploying \cup {"replied"}
  /\ h.at = "verifier" => h.root = MapRoot(nullifiers)
  /\ h.at = "anchor" => sent[h.tx].root = MapRoot(nullifiers)
  /\ h.at = "replied" =>
       Stands(h.anchor) /\ sent[h.anchor].root = MapRoot(nullifiers)

\* Between the awaits of the anchoring handler: unless its contract has left the
\* variable, that is the one that is asked, and the root answered is its root.
Held(h) ==
  \/ epochAnchor # Target(h)
  \/ /\ Stands(Target(h))
     /\ h.at = "root" => h.asked = Target(h)
     /\ h.at \in {"answered", "address"} => h.root = RootAt(Target(h))

\* Of the transactions that anchor, the one the host waits for may be pending.
Posted(h) ==
  /\ h.at \in Anchoring \cup {"replied"}
  /\ \A i \in DOMAIN sent :
       sent[i].kind = "anchor" => i <= Mined \/ (h.at = "sent" /\ i = h.tx)
  /\ h.at \in {"root", "answered", "address"} => Held(h)
  /\ h.at = "replied" =>
       \/ h.status = 422
       \/ /\ h.status = 201 /\ "tx" \in DOMAIN h
          /\ Stands(h.anchor) /\ h.root = RootAt(h.anchor)

HostInv ==
  LET h == handlers[Host]
  IN /\ host.at \in {"start", "resetting"} =>
          /\ witnesses = <<>> /\ leaves = <<>>
          /\ \A i \in DOMAIN sent : sent[i].kind # "anchor"
     /\ host.at = "resetting" => Resetting(h)
     /\ host.at \in {"leaves", "tree"} => AnchorsMined
     /\ host.at \in {"start", "leaves", "tree"} => h = Idle
     /\ host.at = "leaves" =>
          Stands(host.anchor) /\ RootAt(host.anchor) = FullRoot(ProvedBefore)
     /\ host.at = "posted" => Posted(h)
     /\ host.at \in {"start", "resetting", "leaves", "tree", "posted", "done", "failed"}

StepInv == ChainInv /\ DeployedInv /\ HostInv

\* The root of a contract that no step has called.
LEMMA RootStays ==
  ASSUME ChainInv, SentInv, ChainInv', SentInv', Latest.contracts \subseteq Latest'.contracts,
         NEW a, Stands(a)
  PROVE  HasCode(Latest, a) /\ Contract(Latest, a) = Contract(Latest', a)
<1>1. StateOk(sent, Latest, Mined) /\ StateOk(sent', Latest', Mined')
  <2>1. StateOk(sent, Latest, Mined)
    BY LatestOk
  <2>2. (ChainInv /\ SentInv => StateOk(sent, Latest, Mined))'
    BY LatestOk, PTL
  <2> QED
    BY <2>1, <2>2
<1> QED
  BY <1>1 DEF Stands, StateOk, HasCode, Contract

LEMMA Replies ==
  ASSUME SentInv, NEW client, NEW h, Reply(client, h)
  PROVE  \A c \in Clients : handlers'[c] = IF c = client THEN h ELSE handlers[c]
BY DEF SentInv, Reply

LEMMA ChainSame ==
  ASSUME ChainInv, SentInv, UNCHANGED chain
  PROVE  Latest' = Latest /\ Mined' = Mined /\ Mined \in Nat
BY LatestOk, SentFacts DEF Latest, Mined

\* A handler that moves is in order, and the variable gets what is deployed.
LEMMA DeployedMoves ==
  ASSUME ServerInv, ServerInv', DeployedInv, SentStays,
         \A c \in Clients :
           \/ handlers'[c] = handlers[c]
           \/ /\ handlers'[c].at \in Deploying => sent'[handlers'[c].tx].kind = "deploy"
              /\ c # Host => handlers'[c].at \notin Anchoring,
         \/ epochAnchor' = epochAnchor
         \/ sent'[epochAnchor'].kind = "deploy" /\ epochAnchor' <= Mined',
         ~ RunOver' => ~ RunOver /\ Mined \in Nat /\ Mined' \in Nat /\ Mined <= Mined'
  PROVE  DeployedInv'
<1>1. ASSUME NEW c \in Clients
      PROVE  /\ handlers'[c].at \in Deploying => sent'[handlers'[c].tx].kind = "deploy"
             /\ c # Host => handlers'[c].at \notin Anchoring
  <2>1. CASE handlers'[c] = handlers[c]
    <3>1. handlers[c].at \in Deploying => handlers[c].tx \in DOMAIN sent
      BY DEF ServerInv, SentInv
    <3> QED
      BY <2>1, <3>1 DEF DeployedInv, SentStays
  <2> QED
    BY <1>1, <2>1
<1>2. ASSUME epochAnchor' # None
      PROVE  sent'[epochAnchor'].kind = "deploy" /\ (~ RunOver' => epochAnchor' <= Mined')
  <2>1. CASE epochAnchor' = epochAnchor
    <3>1. epochAnchor \in DOMAIN sent /\ epochAnchor \in Nat
      BY <1>2, <2>1, SentFacts DEF ServerInv, DeployInv
    <3> QED
      BY <1>2, <2>1, <3>1 DEF DeployedInv, SentStays
  <2> QED
    BY <2>1
<1> QED
  BY <1>1, <1>2 DEF DeployedInv

\* Steps of the server.
LEMMA ServerDeploys ==
  ASSUME ServerInv, ServerInv', ChainInv, DeployedInv, ServerNext, UNCHANGED host
  PROVE  DeployedInv'
<1>0. SentInv /\ ~ (~ RunOver' /\ RunOver)
  BY DEF ServerInv, RunOver
<1>1. PICK client \in Clients :
        \/ VerifierDeployed(client)
        \/ AnchorDeployed(client)
        \/ ReceiptArrives(client)
        \/ RootAnswered(client)
        \/ RootArrives(client)
        \/ AddressArrives(client)
  BY DEF ServerNext
<1>2. UNCHANGED chain /\ Mined' = Mined /\ Mined \in Nat
  BY <1>0, <1>1, ChainSame DEF VerifierDeployed, AnchorDeployed, ReceiptArrives,
     RootAnswered, RootArrives, AddressArrives, chainVars
<1>3. CASE VerifierDeployed(client)
  <2> DEFINE h == [handlers[client] EXCEPT !.at = "anchor", !.tx = Len(sent) + 1]
             tx == DeployAnchor(handlers[client].root, handlers[client].tx)
  <2>1. Send(tx) /\ tx.kind = "deploy"
    BY <1>3 DEF VerifierDeployed, DeployAnchor, Deploy
  <2> HIDE DEF tx
  <2>2. SentStays /\ sent'[Len(sent) + 1].kind = "deploy"
    BY <1>0, <2>1, Sends
  <2>3. h.tx = Len(sent) + 1 /\ h.at = "anchor"
    BY <1>0, <1>3 DEF VerifierDeployed, SentInv
  <2>4. Reply(client, h) /\ UNCHANGED epochAnchor
    BY <1>3 DEF VerifierDeployed
  <2> HIDE DEF h
  <2>5. \A c \in Clients : handlers'[c] = IF c = client THEN h ELSE handlers[c]
    BY <1>0, <2>4, Replies
  <2> QED
    BY <1>0, <1>2, <2>2, <2>3, <2>4, <2>5, DeployedMoves DEF Anchoring
<1>4. CASE AnchorDeployed(client)
  <2> DEFINE h == [at |-> "replied", status |-> 201, anchor |-> handlers[client].tx]
  <2>1. /\ Reply(client, h) /\ epochAnchor' = handlers[client].tx
        /\ handlers[client].tx <= Mined /\ handlers[client].at = "anchor" /\ UNCHANGED sent
    BY <1>4 DEF AnchorDeployed, chainVars
  <2>2. sent[handlers[client].tx].kind = "deploy"
    BY <2>1 DEF DeployedInv, Deploying
  <2>3. h.at \notin Deploying /\ h.at \notin Anchoring
    BY DEF Deploying, Anchoring
  <2> HIDE DEF h
  <2>4. \A c \in Clients : handlers'[c] = IF c = client THEN h ELSE handlers[c]
    BY <1>0, <2>1, Replies
  <2>5. SentStays
    BY <1>0, <2>1, SentUnchanged
  <2>6. sent'[epochAnchor'].kind = "deploy" /\ epochAnchor' <= Mined'
    BY <1>2, <2>1, <2>2
  <2> QED
    BY <1>0, <1>2, <2>3, <2>4, <2>5, <2>6, DeployedMoves
<1>5. CASE \/ ReceiptArrives(client) \/ RootAnswered(client)
           \/ RootArrives(client) \/ AddressArrives(client)
  <2>1. handlers[client].at \in Anchoring /\ UNCHANGED <<sent, epochAnchor>>
    BY <1>5 DEF ReceiptArrives, RootAnswered, RootArrives, AddressArrives, Anchoring,
                chainVars
  <2>2. client = Host
    BY <2>1 DEF DeployedInv
  <2>3. PICK h : Reply(client, h) /\ h.at \notin Deploying
    BY <1>5 DEF ReceiptArrives, RootAnswered, RootArrives, AddressArrives, Refuse, Deploying
  <2>4. \A c \in Clients : handlers'[c] = IF c = client THEN h ELSE handlers[c]
    BY <1>0, <2>3, Replies
  <2>5. SentStays
    BY <1>0, <2>1, SentUnchanged
  <2> QED
    BY <1>0, <1>2, <2>1, <2>2, <2>3, <2>4, <2>5, DeployedMoves
<1> QED
  BY <1>1, <1>3, <1>4, <1>5

\* Requests, and replies that are forgotten.
LEMMA ResetDeploys ==
  ASSUME ServerInv, ServerInv', ChainInv, DeployedInv, NEW client, NEW root,
         ResetRequest(client, root), ~ RunOver' => ~ RunOver
  PROVE  DeployedInv' /\ \A i \in DOMAIN sent' \ DOMAIN sent : sent'[i].kind = "deploy"
<1> DEFINE h == [at |-> IF verifier = None THEN "verifier" ELSE "anchor", root |-> root,
                 tx |-> Len(sent) + 1]
           tx == IF verifier = None THEN DeployVerifier ELSE DeployAnchor(root, verifier)
<1>0. SentInv
  BY DEF ServerInv
<1>1. /\ Reply(client, h) /\ Send(tx) /\ UNCHANGED <<epochAnchor, chain>>
      /\ tx.kind = "deploy"
  BY DEF ResetRequest, Reply, DeployAnchor, DeployVerifier, Deploy
<1> HIDE DEF tx
<1>2. SentStays /\ sent'[Len(sent) + 1].kind = "deploy"
  BY <1>0, <1>1, Sends
<1>3. h.tx = Len(sent) + 1 /\ h.at \in Deploying /\ h.at \notin Anchoring
  BY DEF Deploying, Anchoring
<1> HIDE DEF h
<1>4. \A c \in Clients : handlers'[c] = IF c = client THEN h ELSE handlers[c]
  BY <1>0, <1>1, Replies
<1>5. Mined' = Mined /\ Mined \in Nat
  BY <1>0, <1>1, ChainSame
<1>6. DeployedInv'
  BY <1>1, <1>2, <1>3, <1>4, <1>5, DeployedMoves
<1>7. sent' = Append(sent, tx) /\ Len(sent) \in Nat /\ DOMAIN sent = 1 .. Len(sent)
  BY <1>0, <1>1, SentFacts DEF Send
<1>8. \A i \in DOMAIN sent' \ DOMAIN sent : i = Len(sent) + 1
  <2>1. DOMAIN sent' = 1 .. Len(sent) + 1
    BY <1>0, <1>7, Follows DEF SentInv, IsSeq
  <2> QED
    BY <1>7, <2>1
<1> QED
  BY <1>2, <1>6, <1>8

LEMMA RequestDeploys ==
  ASSUME ServerInv, ServerInv', ChainInv, DeployedInv, NEW epoch, NEW old, NEW values,
         AnchorRequest(Host, epoch, old, values), ~ RunOver' => ~ RunOver
  PROVE  DeployedInv'
<1>0. SentInv
  BY DEF ServerInv
<1>1. UNCHANGED <<epochAnchor, chain>>
  BY DEF AnchorRequest
<1>2. SentStays
  <2>1. (\E tx : Send(tx)) \/ UNCHANGED sent
    BY DEF AnchorRequest
  <2> QED
    BY <1>0, <2>1, Sends, SentUnchanged
<1>3. PICK h : Reply(Host, h) /\ h.at \notin Deploying
  BY DEF AnchorRequest, Refuse, Deploying
<1>4. \A c \in Clients : handlers'[c] = IF c = Host THEN h ELSE handlers[c]
  BY <1>0, <1>3, Replies
<1>5. Mined' = Mined /\ Mined \in Nat
  BY <1>0, <1>1, ChainSame
<1> QED
  BY <1>1, <1>2, <1>3, <1>4, <1>5, DeployedMoves

LEMMA ForgetDeploys ==
  ASSUME ServerInv, ServerInv', ChainInv, DeployedInv, Forget(Host),
         UNCHANGED <<sent, epochAnchor, chain>>, ~ RunOver' => ~ RunOver
  PROVE  DeployedInv'
<1>0. SentInv
  BY DEF ServerInv
<1>1. Reply(Host, Idle) /\ Idle.at = "idle"
  BY DEF Forget, Reply, Idle
<1>2. \A c \in Clients : handlers'[c] = IF c = Host THEN Idle ELSE handlers[c]
  BY <1>0, <1>1, Replies
<1>3. Mined' = Mined /\ Mined \in Nat /\ SentStays
  BY <1>0, ChainSame, SentUnchanged
<1> QED
  BY <1>1, <1>2, <1>3, DeployedMoves DEF Deploying, Anchoring

LEMMA WorldDeploys ==
  ASSUME ServerInv, ServerInv', ChainInv, DeployedInv, SentStays,
         UNCHANGED <<handlers, epochAnchor>>, ~ RunOver' => ~ RunOver,
         ~ RunOver' => Mined \in Nat /\ Mined' \in Nat /\ Mined <= Mined'
  PROVE  DeployedInv'
BY DeployedMoves

\* The host waits while others move: nothing new is anchored, and a contract that
\* leaves the variable does not return to it.
LEMMA HostWaits ==
  ASSUME ServerInv, ServerInv', ChainInv, ChainInv', HostInv, SentStays,
         UNCHANGED <<archiveVars, host>>, handlers'[Host] = handlers[Host],
         \A i \in DOMAIN sent' \ DOMAIN sent : sent'[i].kind # "anchor",
         epochAnchor' = epochAnchor \/ epochAnchor' \in Awaited,
         ~ RunOver =>
           /\ Mined \in Nat /\ Mined' \in Nat /\ Mined <= Mined'
           /\ AnchorsMined => Latest.contracts \subseteq Latest'.contracts
  PROVE  HostInv'
<1> DEFINE h == handlers[Host]
<1>0. SentInv /\ SentInv'
  BY DEF ServerInv
<1>1. CASE RunOver
  BY <1>1 DEF HostInv, RunOver
<1>2. CASE ~ RunOver
  <2>1. \A a : Stands(a) => Stands(a)' /\ sent'[a] = sent[a]
    <3>1. Mined <= Len(sent) /\ DOMAIN sent = 1 .. Len(sent) /\ Len(sent) \in Nat
      <4>1. ChainInv
        OBVIOUS
      <4> QED
        BY <1>0, LatestOk, SentFacts
    <3> QED
      BY <1>2, <3>1 DEF Stands, SentStays
  <2>2. ASSUME AnchorsMined, NEW a, Stands(a)
        PROVE  RootAt(a)' = RootAt(a)
    <3>1. Latest.contracts \subseteq Latest'.contracts
      BY <1>2, <2>2
    <3>2. Contract(Latest, a) = Contract(Latest', a)
      BY <1>0, <2>2, <3>1, RootStays
    <3> QED
      BY <3>2 DEF RootAt
  <2>3. AnchorsMined => AnchorsMined'
    <3> SUFFICES ASSUME AnchorsMined, NEW i \in DOMAIN sent', sent'[i].kind = "anchor"
                 PROVE  i <= Mined'
      BY DEF AnchorsMined
    <3>1. i \in DOMAIN sent /\ sent'[i] = sent[i]
      BY DEF SentStays
    <3>2. i \in Nat /\ i <= Mined
      BY <1>0, <3>1, SentFacts DEF AnchorsMined
    <3> QED
      BY <1>2, <3>2
  <2>4. UNCHANGED <<nullifiers, witnesses, leaves>>
    BY DEF archiveVars
  <2>5. host.at \in {"start", "resetting"} =>
          \A i \in DOMAIN sent' : sent'[i].kind # "anchor"
    BY DEF HostInv, SentStays
  <2>6. host.at = "resetting" => Resetting(h)'
    <3> SUFFICES ASSUME host.at = "resetting"
                 PROVE  Resetting(h)'
      OBVIOUS
    <3>1. Resetting(h)
      BY DEF HostInv
    <3>2. h.at = "anchor" => h.tx \in DOMAIN sent
      BY ClientsAssumption DEF ServerInv, SentInv, Deploying
    <3> QED
      BY <2>1, <2>4, <3>1, <3>2 DEF Resetting, SentStays, MapRoot, Value
  <2>7. host.at = "leaves" =>
          Stands(host.anchor)' /\ RootAt(host.anchor)' = FullRoot(ProvedBefore')
    <3> SUFFICES ASSUME host.at = "leaves"
                 PROVE  Stands(host.anchor)' /\ RootAt(host.anchor)' = FullRoot(ProvedBefore')
      OBVIOUS
    <3>1. /\ AnchorsMined /\ Stands(host.anchor)
          /\ RootAt(host.anchor) = FullRoot(ProvedBefore)
      BY DEF HostInv
    <3>2. PICK a : a = host.anchor
      OBVIOUS
    <3>3. Stands(a)' /\ RootAt(a)' = RootAt(a)
      BY <2>1, <2>2, <3>1, <3>2
    <3>4. Stands(host.anchor)' /\ RootAt(host.anchor)' = RootAt(host.anchor)
      BY <3>2, <3>3 DEF Stands, RootAt
    <3>5. ProvedBefore' = ProvedBefore
      BY <2>4 DEF ProvedBefore
    <3> QED
      BY <3>1, <3>4, <3>5
  <2>8. host.at = "posted" => Posted(h)'
    <3> SUFFICES ASSUME host.at = "posted"
                 PROVE  Posted(h)'
      OBVIOUS
    <3>1. Posted(h) /\ h' = h
      BY DEF HostInv
    <3>2. h.at \in Anchoring =>
            /\ h.tx \in DOMAIN sent /\ Target(h) \in DOMAIN sent /\ Target(h) \notin Awaited
      BY ClientsAssumption DEF ServerInv, SentInv, AnchoringInv
    <3>3. \A i \in DOMAIN sent' :
            sent'[i].kind = "anchor" => i <= Mined' \/ (h.at = "sent" /\ i = h.tx)
      <4> SUFFICES ASSUME NEW i \in DOMAIN sent', sent'[i].kind = "anchor"
                   PROVE  i <= Mined' \/ (h.at = "sent" /\ i = h.tx)
        OBVIOUS
      <4>1. i \in DOMAIN sent /\ sent'[i] = sent[i]
        BY DEF SentStays
      <4>2. i \in Nat
        BY <1>0, <4>1, SentFacts
      <4> QED
        BY <1>2, <3>1, <4>1, <4>2 DEF Posted
    <3>4. h.at # "sent" => AnchorsMined
      BY <3>1 DEF Posted, AnchorsMined
    <3>5. ASSUME h.at \in {"root", "answered", "address"}
          PROVE  Held(h)'
      <4>1. Held(h) /\ AnchorsMined
        BY <3>1, <3>4, <3>5 DEF Posted
      <4>2. Target(h)' = Target(h)
        BY <3>1, <3>2, <3>5 DEF Target, SentStays, Anchoring
      <4>3. CASE epochAnchor # Target(h)
        BY <3>2, <3>5, <4>2, <4>3 DEF Held, Anchoring
      <4>4. CASE epochAnchor = Target(h)
        <5>1. PICK a : a = Target(h) /\ Stands(a)
          BY <4>1, <4>4 DEF Held
        <5>2. Stands(a)' /\ RootAt(a)' = RootAt(a)
          BY <2>1, <2>2, <4>1, <5>1
        <5>3. Stands(Target(h))' /\ RootAt(Target(h))' = RootAt(Target(h))
          BY <4>2, <5>1, <5>2 DEF Stands, RootAt
        <5> QED
          BY <3>1, <4>1, <4>2, <4>4, <5>3 DEF Held
      <4> QED
        BY <4>3, <4>4
    <3>6. ASSUME h.at = "replied", h.status # 422
          PROVE  Stands(h.anchor)' /\ h'.root = RootAt(h.anchor)'
      <4>1. Stands(h.anchor) /\ h.root = RootAt(h.anchor) /\ AnchorsMined
        BY <3>1, <3>4, <3>6 DEF Posted
      <4>2. PICK a : a = h.anchor
        OBVIOUS
      <4>3. Stands(a)' /\ RootAt(a)' = RootAt(a)
        BY <2>1, <2>2, <4>1, <4>2
      <4> QED
        BY <3>1, <4>1, <4>2, <4>3 DEF Stands, RootAt
    <3> QED
      BY <3>1, <3>3, <3>5, <3>6 DEF Posted
  <2> QED
    BY <2>3, <2>4, <2>5, <2>6, <2>7, <2>8 DEF HostInv
<1> QED
  BY <1>1, <1>2

\* The handler of the host's reset.
LEMMA ResetAnswered ==
  ASSUME ServerInv, ServerInv', ChainInv, DeployedInv, HostInv,
         UNCHANGED <<archiveVars, host>>,
         VerifierDeployed(Host) \/ AnchorDeployed(Host)
  PROVE  HostInv'
<1> DEFINE handler == handlers[Host]
<1>0. SentInv /\ Host \in Clients /\ Len(sent) \in Nat /\ DOMAIN sent = 1 .. Len(sent)
  BY ClientsAssumption, SentFacts DEF ServerInv
<1>1. handler.at \in Deploying
  BY DEF VerifierDeployed, AnchorDeployed, Deploying
<1>2. CASE host.at \in {"done", "failed"}
  BY <1>2 DEF HostInv
<1>3. CASE host.at \notin {"done", "failed"}
  <2>1. host.at = "resetting"
    <3>1. Idle.at = "idle"
      BY DEF Idle
    <3> QED
      BY <1>1, <1>3, <3>1 DEF HostInv, Posted, Deploying, Anchoring
  <2>2. /\ witnesses = <<>> /\ leaves = <<>> /\ Resetting(handler)
        /\ \A i \in DOMAIN sent : sent[i].kind # "anchor"
    BY <2>1 DEF HostInv
  <2>3. nullifiers' = nullifiers /\ MapRoot(nullifiers') = MapRoot(nullifiers)
        /\ witnesses' = <<>> /\ leaves' = <<>> /\ host'.at = "resetting"
    BY <2>1, <2>2 DEF archiveVars
  <2>4. ASSUME NEW h, Reply(Host, h), h.at \in {"anchor", "replied"},
               \A i \in DOMAIN sent' : sent'[i].kind # "anchor",
               h.at = "anchor" => sent'[h.tx].root = MapRoot(nullifiers),
               h.at = "replied" =>
                 /\ h.anchor \in 1 .. Mined' /\ sent'[h.anchor].kind = "deploy"
                 /\ sent'[h.anchor].root = MapRoot(nullifiers)
        PROVE  HostInv'
    <3>1. handlers'[Host] = h
      BY <1>0, <2>4, Replies
    <3>2. Resetting(h)'
      BY <2>3, <2>4 DEF Resetting, Stands, Deploying
    <3> QED
      BY <2>3, <2>4, <3>1, <3>2 DEF HostInv, Resetting, Stands
  <2>5. CASE VerifierDeployed(Host)
    <3> DEFINE h == [handler EXCEPT !.at = "anchor", !.tx = Len(sent) + 1]
               tx == DeployAnchor(handler.root, handler.tx)
    <3>1. Send(tx) /\ tx.kind = "deploy" /\ tx.root = MapRoot(nullifiers)
      BY <2>2, <2>5 DEF VerifierDeployed, DeployAnchor, Deploy, Resetting
    <3> HIDE DEF tx
    <3>2. /\ SentStays /\ sent'[Len(sent) + 1] = tx
      BY <1>0, <3>1, Sends
    <3>3. DOMAIN sent' = 1 .. Len(sent) + 1
      BY <1>0, <3>1, Follows DEF SentInv, IsSeq, Send
    <3>4. h.at = "anchor" /\ h.tx = Len(sent) + 1
      BY <1>0, <2>5 DEF VerifierDeployed, SentInv
    <3>5. Reply(Host, h)
      BY <2>5 DEF VerifierDeployed
    <3> HIDE DEF h
    <3>6. \A i \in DOMAIN sent' : sent'[i].kind # "anchor"
      BY <1>0, <2>2, <3>1, <3>2, <3>3 DEF SentStays
    <3>7. sent'[h.tx].root = MapRoot(nullifiers)
      BY <3>1, <3>2, <3>4
    <3> QED
      BY <2>4, <3>4, <3>5, <3>6, <3>7
  <2>6. CASE AnchorDeployed(Host)
    <3> DEFINE h == [at |-> "replied", status |-> 201, anchor |-> handler.tx]
    <3>1. Reply(Host, h) /\ handler.tx <= Mined /\ handler.at = "anchor"
          /\ UNCHANGED <<sent, chain>>
      BY <2>6 DEF AnchorDeployed, chainVars
    <3>2. handler.tx \in DOMAIN sent /\ sent[handler.tx].kind = "deploy"
      BY <1>0, <3>1 DEF DeployedInv, ServerInv, SentInv, Deploying
    <3>3. sent[handler.tx].root = MapRoot(nullifiers)
      BY <2>2, <3>1 DEF Resetting
    <3>4. Mined' = Mined /\ Mined \in Nat
      BY <1>0, <3>1, ChainSame
    <3>5. h.at = "replied" /\ h.anchor = handler.tx
      OBVIOUS
    <3> HIDE DEF h
    <3>6. \A i \in DOMAIN sent' : sent'[i].kind # "anchor"
      BY <2>2, <3>1
    <3>7. /\ h.anchor \in 1 .. Mined' /\ sent'[h.anchor].kind = "deploy"
          /\ sent'[h.anchor].root = MapRoot(nullifiers)
      BY <1>0, <3>1, <3>2, <3>3, <3>4, <3>5
    <3> QED
      BY <2>4, <3>1, <3>5, <3>6, <3>7
  <2> QED
    BY <2>5, <2>6
<1> QED
  BY <1>2, <1>3

\* The handler of an epoch of the host.
LEMMA EpochAnswered ==
  ASSUME ServerInv, ServerInv', ChainInv, DeployedInv, HostInv,
         UNCHANGED <<archiveVars, host>>,
         \/ ReceiptArrives(Host) \/ RootAnswered(Host)
         \/ RootArrives(Host) \/ AddressArrives(Host)
  PROVE  HostInv'
<1> DEFINE handler == handlers[Host]
<1>0. /\ SentInv /\ Host \in Clients /\ Len(sent) \in Nat /\ DOMAIN sent = 1 .. Len(sent)
      /\ Mined \in 0 .. Len(sent) /\ StateOk(sent, Latest, Mined)
  BY ClientsAssumption, SentFacts, LatestOk DEF ServerInv
<1>1. handler.at \in Anchoring /\ UNCHANGED <<sent, chain, epochAnchor>>
  BY DEF ReceiptArrives, RootAnswered, RootArrives, AddressArrives, Anchoring, chainVars
<1>2. CASE host.at \in {"done", "failed"}
  BY <1>2 DEF HostInv
<1>3. CASE host.at \notin {"done", "failed"}
  <2>1. host.at = "posted"
    <3>1. Idle.at = "idle"
      BY DEF Idle
    <3> QED
      BY <1>1, <1>3, <3>1 DEF HostInv, Resetting, Deploying, Anchoring
  <2>2. Posted(handler)
    BY <2>1 DEF HostInv
  <2>3. Latest' = Latest /\ Mined' = Mined
    BY <1>0, <1>1, ChainSame
  <2>4. handler.tx \in DOMAIN sent /\ Target(handler) \in DOMAIN sent
    BY <1>0, <1>1 DEF ServerInv, SentInv, AnchoringInv
  <2>5. host'.at = "posted"
    BY <2>1
  \* The next place of the handler is in order, and nothing is pending there.
  <2>6. ASSUME NEW h, Reply(Host, h), Posted(h)
        PROVE  HostInv'
    <3>1. handlers'[Host] = h
      BY <1>0, <2>6, Replies
    <3>2. Posted(h)'
      BY <1>1, <2>3, <2>6 DEF Posted, Held, Stands, RootAt, Target
    <3> QED
      BY <2>5, <3>1, <3>2 DEF HostInv, Posted, Held, Stands, RootAt, Target
  <2>7. handler.at # "sent" \/ handler.tx <= Mined => AnchorsMined
    BY <2>2 DEF Posted, AnchorsMined
  <2>8. CASE Refuse(Host)
    <3> DEFINE h == [at |-> "replied", status |-> 422]
    <3>1. AnchorsMined
      BY <2>7 DEF ReceiptArrives, RootAnswered, RootArrives, AddressArrives
    <3>2. Posted(h)
      BY <3>1 DEF Posted, AnchorsMined, Anchoring
    <3>3. Reply(Host, h)
      BY <2>8 DEF Refuse
    <3> HIDE DEF h
    <3> QED
      BY <2>6, <3>2, <3>3
  <2>9. CASE ReceiptArrives(Host) /\ ~ Refuse(Host)
    <3> DEFINE h == [at |-> "root", tx |-> handler.tx, asked |-> epochAnchor]
    <3>1. Reply(Host, h) /\ AnchorsMined
      BY <2>7, <2>9 DEF ReceiptArrives
    <3>2. h.at = "root" /\ h.tx = handler.tx /\ h.asked = epochAnchor
      OBVIOUS
    <3> HIDE DEF h
    <3>3. Target(h) = Target(handler)
      BY <3>2 DEF Target
    <3>4. Held(h)
      <4> SUFFICES ASSUME epochAnchor = Target(h)
                   PROVE  Stands(Target(h))
        BY <3>2 DEF Held
      <4>1. epochAnchor \in 1 .. Len(sent) /\ epochAnchor # None
        BY <1>0, <2>4, <3>3 DEF None
      <4>2. sent[epochAnchor].kind = "deploy" /\ epochAnchor <= Mined
        BY <1>3, <4>1 DEF DeployedInv, RunOver
      <4> QED
        BY <1>0, <4>1, <4>2 DEF Stands
    <3>5. Posted(h)
      BY <3>1, <3>2, <3>4 DEF Posted, AnchorsMined, Anchoring
    <3> QED
      BY <2>6, <3>1, <3>5
  <2>10. CASE RootAnswered(Host)
    <3> DEFINE h == [at |-> "answered", tx |-> handler.tx,
                     root |-> IF HasCode(Latest, handler.asked)
                                THEN Contract(Latest, handler.asked).root ELSE <<>>]
    <3>1. Reply(Host, h) /\ AnchorsMined /\ handler.at = "root" /\ Held(handler)
      BY <2>2, <2>7, <2>10 DEF RootAnswered, Posted
    <3>2. /\ h.at = "answered" /\ h.tx = handler.tx
          /\ HasCode(Latest, handler.asked) => h.root = RootAt(handler.asked)
      BY DEF RootAt
    <3> HIDE DEF h
    <3>3. Target(h) = Target(handler)
      BY <3>2 DEF Target
    <3>4. Held(h)
      <4> SUFFICES ASSUME epochAnchor = Target(h)
                   PROVE  Stands(Target(h)) /\ h.root = RootAt(Target(h))
        BY <3>2 DEF Held
      <4>1. Stands(Target(h)) /\ handler.asked = Target(h)
        BY <3>1, <3>3 DEF Held
      <4>2. HasCode(Latest, Target(h))
        BY <1>0, <4>1 DEF Stands, StateOk
      <4> QED
        BY <3>2, <4>1, <4>2
    <3>5. Posted(h)
      BY <3>1, <3>2, <3>4 DEF Posted, AnchorsMined, Anchoring
    <3> QED
      BY <2>6, <3>1, <3>5
  <2>11. CASE RootArrives(Host) /\ ~ Refuse(Host)
    <3> DEFINE h == [at |-> "address", tx |-> handler.tx, anchor |-> epochAnchor,
                     root |-> handler.root]
    <3>1. Reply(Host, h) /\ AnchorsMined /\ handler.at = "answered" /\ Held(handler)
      BY <2>2, <2>7, <2>11 DEF RootArrives, Posted
    <3>2. h.at = "address" /\ h.tx = handler.tx /\ h.root = handler.root
      OBVIOUS
    <3> HIDE DEF h
    <3>3. Target(h) = Target(handler)
      BY <3>2 DEF Target
    <3>4. Held(h)
      BY <3>1, <3>2, <3>3 DEF Held
    <3>5. Posted(h)
      BY <3>1, <3>2, <3>4 DEF Posted, AnchorsMined, Anchoring
    <3> QED
      BY <2>6, <3>1, <3>5
  <2>12. CASE AddressArrives(Host) /\ ~ Refuse(Host)
    <3> DEFINE h == [at |-> "replied", status |-> 201, anchor |-> handler.anchor,
                     tx |-> handler.tx, root |-> handler.root]
    <3>1. /\ Reply(Host, h) /\ AnchorsMined /\ handler.at = "address" /\ Held(handler)
          /\ epochAnchor = Target(handler)
      BY <2>2, <2>7, <2>12 DEF AddressArrives, Posted, AnchorEvent, Target
    <3>2. handler.anchor = Target(handler)
      BY <1>0, <3>1 DEF ServerInv, AnchoringInv
    <3>3. /\ h.at = "replied" /\ h.status = 201 /\ "tx" \in DOMAIN h
          /\ h.anchor = handler.anchor /\ h.root = handler.root
      OBVIOUS
    <3> HIDE DEF h
    <3>4. Stands(h.anchor) /\ h.root = RootAt(h.anchor)
      BY <3>1, <3>2, <3>3 DEF Held
    <3>5. Posted(h)
      BY <3>1, <3>3, <3>4 DEF Posted, AnchorsMined, Anchoring
    <3> QED
      BY <2>6, <3>1, <3>5
  <2> QED
    BY <2>8, <2>9, <2>10, <2>11, <2>12
<1> QED
  BY <1>2, <1>3

LEMMA RootOfMap ==
  ASSUME MapInv
  PROVE  MapRoot(nullifiers) = FullRoot(PlacesOf(witnesses))
<1>1. NullifierDepth \in 0 .. NullifierDepth
  BY EpochTreeAssumption
<1>2. Value(nullifiers, NullifierDepth, 0) = FullLevels(PlacesOf(witnesses))[NullifierDepth][0]
  BY <1>1 DEF MapInv, IsTreeOf
<1> QED
  BY <1>2 DEF MapRoot, FullRoot

\* The steps of the host.
LEMMA HostBeginsReset ==
  ASSUME ServerInv, MapInv, HostInv, HostResets
  PROVE  HostInv'
<1> DEFINE h == [at |-> IF verifier = None THEN "verifier" ELSE "anchor",
                 root |-> MapRoot(nullifiers), tx |-> Len(sent) + 1]
           tx == IF verifier = None THEN DeployVerifier
                                    ELSE DeployAnchor(MapRoot(nullifiers), verifier)
<1>0. SentInv /\ Host \in Clients /\ Len(sent) \in Nat /\ DOMAIN sent = 1 .. Len(sent)
  BY ClientsAssumption, SentFacts DEF ServerInv
<1>1. /\ host.at = "start" /\ host'.at = "resetting"
      /\ Reply(Host, h) /\ Send(tx)
      /\ UNCHANGED <<nullifiers, witnesses, leaves>>
  BY HostStays DEF HostResets, HostAt, ResetRequest, Reply, archiveVars
<1>2. tx.kind = "deploy" /\ (verifier # None => tx.root = MapRoot(nullifiers))
  BY DEF DeployAnchor, DeployVerifier, Deploy
<1> HIDE DEF tx
<1>3. SentStays /\ sent'[Len(sent) + 1] = tx /\ DOMAIN sent' = 1 .. Len(sent) + 1
  BY <1>0, <1>1, Sends, Follows DEF SentInv, IsSeq, Send
<1>4. \A i \in DOMAIN sent' : sent'[i].kind # "anchor"
  BY <1>0, <1>1, <1>2, <1>3 DEF SentStays, HostInv
<1>5. PICK g : g = h
  OBVIOUS
<1>6. /\ g.at \in {"verifier", "anchor"} /\ g.root = MapRoot(nullifiers)
      /\ g.tx = Len(sent) + 1 /\ (g.at = "anchor" => verifier # None)
  BY <1>5
<1>7. handlers'[Host] = g
  <2> HIDE DEF h
  <2> QED
    BY <1>0, <1>1, <1>5, Replies
<1>8. MapRoot(nullifiers)' = MapRoot(nullifiers)
  BY <1>1
<1>9. Resetting(g)'
  BY <1>2, <1>3, <1>6, <1>8 DEF Resetting, Deploying
<1> QED
  BY <1>1, <1>4, <1>7, <1>9 DEF HostInv, Resetting

LEMMA HostToldOfReset ==
  ASSUME ServerInv, MapInv, ChainInv, HostInv, HostWasReset
  PROVE  HostInv'
<1> DEFINE a == handlers[Host].anchor
<1>0. /\ SentInv /\ Host \in Clients /\ Len(sent) \in Nat /\ DOMAIN sent = 1 .. Len(sent)
      /\ Mined \in 0 .. Len(sent) /\ StateOk(sent, Latest, Mined)
  BY ClientsAssumption, SentFacts, LatestOk DEF ServerInv
<1>1. /\ host.at = "resetting" /\ host'.at = "leaves" /\ host'.anchor = a
      /\ handlers[Host].at = "replied" /\ Reply(Host, Idle)
      /\ UNCHANGED <<nullifiers, witnesses, leaves, sent, chain>>
  BY DEF HostWasReset, HostAt, MapInv, Forget, Reply, archiveVars, chainVars
<1>2. /\ witnesses = <<>> /\ leaves = <<>> /\ \A i \in DOMAIN sent : sent[i].kind # "anchor"
      /\ Stands(a) /\ sent[a].root = MapRoot(nullifiers)
  BY <1>1 DEF HostInv, Resetting
<1>3. handlers'[Host] = Idle
  BY <1>0, <1>1, Replies
<1>4. RootAt(a) = sent[a].root
  <2>1. \A i \in 1 .. Mined : sent[i].kind # "anchor"
    BY <1>0, <1>2
  <2>2. HasCode(Latest, a)
    BY <1>0, <1>2 DEF Stands, StateOk
  <2>3. Contract(Latest, a) \in Latest.contracts /\ Contract(Latest, a).address = a
    BY <2>2 DEF HasCode, Contract
  <2> QED
    BY <1>0, <2>1, <2>3 DEF StateOk, RootAt
<1>5. PlacesOf(witnesses) = {} /\ ProvedBefore' = {}
  <2>1. DOMAIN witnesses = {} /\ Len(witnesses) = 0 /\ Len(leaves) = 0
    BY <1>2
  <2>2. PlacesOf(witnesses) = {}
    BY <2>1 DEF PlacesOf
  <2>3. 1 .. Len(witnesses') - Len(leaves') = {}
    BY <1>1, <2>1
  <2> QED
    BY <2>2, <2>3 DEF ProvedBefore
<1>6. RootAt(a) = FullRoot(ProvedBefore')
  BY <1>2, <1>4, <1>5, RootOfMap
<1>7. Latest' = Latest /\ Mined' = Mined
  BY <1>1 DEF Latest, Mined
<1>8. PICK b : b = a
  OBVIOUS
<1>10. Stands(b)' /\ RootAt(b)' = FullRoot(ProvedBefore')
  BY <1>1, <1>2, <1>6, <1>7, <1>8 DEF Stands, RootAt
<1>11. Stands(host.anchor)' /\ RootAt(host.anchor)' = FullRoot(ProvedBefore')
  BY <1>1, <1>8, <1>10 DEF Stands, RootAt
<1>9. AnchorsMined'
  BY <1>1, <1>2 DEF AnchorsMined
<1> QED
  BY <1>1, <1>3, <1>11, <1>9 DEF HostInv, Stands, RootAt

LEMMA HostProves ==
  ASSUME ServerInv, MapInv, ArchiveInv, ChainInv, HostInv,
         HostProvesLeaf \/ HostEndsEpoch \/ HostProvesNode
  PROVE  HostInv'
<1>1. /\ host.at \in {"leaves", "tree"} /\ handlers[Host] = Idle /\ AnchorsMined
      /\ UNCHANGED <<sent, chain, handlers>>
  BY DEF HostProvesLeaf, HostEndsEpoch, HostProvesNode, HostAt, HostInv, chainVars,
         serverVars
<1>2. Latest' = Latest /\ Mined' = Mined /\ AnchorsMined'
  BY <1>1 DEF Latest, Mined, AnchorsMined
<1>3. CASE HostProvesLeaf
  <2> DEFINE lot == Tasks[host.epoch][Len(leaves) + 1]
             input == NextInput(lot)
             values == LeafPublicValues(input)
             n == Len(witnesses)
             m == Len(leaves)
  <2>1. /\ host.at = "leaves" /\ UNCHANGED host
        /\ witnesses' = Append(witnesses, input) /\ leaves' = Append(leaves, values)
    BY <1>3 DEF HostProvesLeaf, HostAt, ProveLeaf
  <2> HIDE DEF lot, input, values
  <2>2. /\ n \in Nat /\ m \in Nat /\ m <= n /\ Len(witnesses') = n + 1 /\ Len(leaves') = m + 1
        /\ \A i \in 1 .. n : witnesses'[i] = witnesses[i]
    BY <2>1, Follows DEF MapInv, ArchiveInv
  <2>3. /\ Len(witnesses') - Len(leaves') = n - m
        /\ \A i \in 1 .. n - m : witnesses'[i] = witnesses[i]
    BY <2>2
  <2>4. ProvedBefore' = ProvedBefore
    BY <2>3 DEF ProvedBefore
  <2>5. Stands(host.anchor) /\ RootAt(host.anchor) = FullRoot(ProvedBefore)
    BY <2>1 DEF HostInv
  <2>6. Stands(host.anchor)' /\ RootAt(host.anchor)' = FullRoot(ProvedBefore')
    BY <1>1, <1>2, <2>1, <2>4, <2>5 DEF Stands, RootAt
  <2> QED
    BY <1>1, <1>2, <2>1, <2>6 DEF HostInv, Stands, RootAt
<1>4. CASE HostEndsEpoch \/ HostProvesNode
  <2>1. host'.at = "tree"
    BY <1>4, HostStays DEF HostEndsEpoch, HostProvesNode, HostAt
  <2> QED
    BY <1>1, <1>2, <2>1 DEF HostInv
<1> QED
  BY <1>3, <1>4

LEMMA HostSends ==
  ASSUME ServerInv, MapInv, ChainInv, HostInv, HostPosts
  PROVE  HostInv'
<1> DEFINE values == tree.root[1]
           tx == VerifyAndAnchor(epochAnchor, host.epoch, values.old, values)
<1>0. /\ SentInv /\ Host \in Clients /\ Len(sent) \in Nat /\ DOMAIN sent = 1 .. Len(sent)
      /\ Mined \in 0 .. Len(sent)
  BY ClientsAssumption, SentFacts, LatestOk DEF ServerInv
<1>1. /\ host.at = "tree" /\ host'.at = "posted" /\ AnchorsMined /\ UNCHANGED chain
      /\ AnchorRequest(Host, host.epoch, values.old, values)
  BY HostStays DEF HostPosts, HostAt, AnchorRequest, HostInv
<1>2. Mined' = Mined
  BY <1>1 DEF Mined
<1> HIDE DEF values
<1>3. CASE Send(tx) /\ Reply(Host, [at |-> "sent", tx |-> Len(sent) + 1])
  <2>1. PICK h : h = [at |-> "sent", tx |-> Len(sent) + 1]
    OBVIOUS
  <2>2. handlers'[Host] = h /\ h.at = "sent" /\ h.tx = Len(sent) + 1
    BY <1>0, <1>3, <2>1, Replies
  <2> HIDE DEF tx
  <2>3. SentStays /\ DOMAIN sent' = 1 .. Len(sent) + 1
    BY <1>0, <1>3, Sends, Follows DEF SentInv, IsSeq, Send
  <2>4. \A i \in DOMAIN sent' : sent'[i].kind = "anchor" => i <= Mined \/ i = Len(sent) + 1
    BY <1>0, <1>1, <2>3 DEF SentStays, AnchorsMined
  <2>5. Posted(h)'
    BY <1>2, <2>2, <2>4 DEF Posted, Anchoring
  <2> QED
    BY <1>1, <2>2, <2>5 DEF HostInv, Posted, Held, Stands, RootAt, Target
<1>4. CASE Refuse(Host) /\ UNCHANGED sent
  <2>1. PICK h : h = [at |-> "replied", status |-> 422]
    OBVIOUS
  <2>2. handlers'[Host] = h /\ h.at = "replied" /\ h.status = 422
    BY <1>0, <1>4, <2>1, Replies DEF Refuse
  <2>3. Posted(h)'
    BY <1>1, <1>2, <1>4, <2>2 DEF Posted, Anchoring, AnchorsMined
  <2> QED
    BY <1>1, <2>2, <2>3 DEF HostInv, Posted, Held, Stands, RootAt, Target
<1> QED
  BY <1>1, <1>3, <1>4 DEF AnchorRequest

LEMMA HostToldOfEpoch ==
  ASSUME ServerInv, MapInv, ArchiveInv, ChainInv, HostInv, HostHasReply
  PROVE  HostInv'
<1> DEFINE h == handlers[Host]
<1>0. SentInv /\ Host \in Clients
  BY ClientsAssumption DEF ServerInv
<1>1. /\ host.at = "posted" /\ h.at = "replied" /\ NextEpoch /\ Reply(Host, Idle)
      /\ UNCHANGED <<nullifiers, witnesses, leaves, sent, chain>>
  BY DEF HostHasReply, HostAt, Forget, Reply, chainVars
<1>2. handlers'[Host] = Idle
  BY <1>0, <1>1, Replies
<1>3. Posted(h) /\ AnchorsMined
  BY <1>1 DEF HostInv, Posted, AnchorsMined
<1>4. Latest' = Latest /\ Mined' = Mined /\ AnchorsMined'
  BY <1>1, <1>3 DEF Latest, Mined, AnchorsMined
<1>5. CASE Acknowledged
  <2>1. h.status = 201 /\ h.root = MapRoot(nullifiers) /\ EpochDone(h.anchor)
    BY <1>1, <1>5 DEF Acknowledged, NextEpoch
  <2>2. Stands(h.anchor) /\ h.root = RootAt(h.anchor)
    BY <1>1, <1>3, <2>1 DEF Posted
  <2>3. host'.anchor = h.anchor /\ host'.at \in {"done", "leaves"}
    BY <2>1, NextEpochInTurn
  <2>4. ProvedBefore' = PlacesOf(witnesses)
    <3>1. leaves = <<>>
      BY <1>1 DEF ArchiveInv
    <3>2. Len(leaves) = 0 /\ Len(witnesses) \in Nat /\ DOMAIN witnesses = 1 .. Len(witnesses)
      BY <3>1, Lengths DEF MapInv
    <3>3. 1 .. Len(witnesses') - Len(leaves') = DOMAIN witnesses
      BY <1>1, <3>2
    <3> QED
      BY <1>1, <3>3 DEF ProvedBefore, PlacesOf
  <2>5. RootAt(h.anchor) = FullRoot(ProvedBefore')
    BY <2>1, <2>2, <2>4, RootOfMap
  <2>6. PICK a : a = h.anchor
    OBVIOUS
  <2>7. Stands(a)' /\ RootAt(a)' = FullRoot(ProvedBefore')
    BY <1>1, <1>4, <2>2, <2>5, <2>6 DEF Stands, RootAt
  <2>8. Stands(host.anchor)' /\ RootAt(host.anchor)' = FullRoot(ProvedBefore')
    BY <2>3, <2>6, <2>7 DEF Stands, RootAt
  <2> QED
    BY <1>2, <1>4, <2>3, <2>8 DEF HostInv, Stands, RootAt
<1>6. CASE ~ Acknowledged
  <2>1. host'.at = "failed"
    BY <1>1, <1>6, HostStays DEF NextEpoch
  <2> QED
    BY <2>1 DEF HostInv
<1> QED
  BY <1>5, <1>6

\* What is sent stays sent, the blocks keep saying what they said, and before the
\* run is over none is dropped.
LEMMA ChainKept ==
  ASSUME ServerInv, ChainInv, HostNext \/ EnvironmentNext
  PROVE  /\ SentStays /\ ChainInv'
         /\ ~ RunOver => Mined \in Nat /\ Mined' \in Nat /\ Mined <= Mined'
<1>0. SentInv
  BY DEF ServerInv
<1>1. ASSUME (\E tx : Send(tx)) \/ UNCHANGED sent, UNCHANGED <<chain, reorgs>>
      PROVE  SentStays /\ ChainInv' /\ Mined \in Nat /\ Mined' = Mined
  <2>1. SentStays
    BY <1>0, <1>1, Sends, SentUnchanged
  <2> QED
    BY <1>0, <1>1, <2>1, ChainStays, ChainSame
<1>2. CASE HostNext
  <2>1. UNCHANGED <<chain, reorgs>>
    BY <1>2 DEF HostNext, HostResets, ResetRequest, HostWasReset, HostProvesLeaf,
       HostEndsEpoch, HostProvesNode, HostPosts, AnchorRequest, HostHasReply, chainVars
  <2>2. (\E tx : Send(tx)) \/ UNCHANGED sent
    BY <1>2 DEF HostNext, HostResets, ResetRequest, HostWasReset, HostProvesLeaf,
       HostEndsEpoch, HostProvesNode, HostPosts, AnchorRequest, HostHasReply, chainVars
  <2> QED
    BY <1>1, <2>1, <2>2
<1>3. CASE OtherResets \/ OwnerRevokes
  <2>1. UNCHANGED <<chain, reorgs>> /\ \E tx : Send(tx)
    BY <1>3 DEF OtherResets, ResetRequest, OwnerRevokes
  <2> QED
    BY <1>1, <2>1
<1>4. CASE MineBlock
  BY <1>0, <1>4, BlockMined, SentUnchanged DEF MineBlock
<1>5. CASE RunOver /\ Reorg
  BY <1>0, <1>5, BlockDropped, SentUnchanged DEF Reorg
<1>6. CASE ServerNext
  <2>1. UNCHANGED <<chain, reorgs>>
    BY <1>6 DEF ServerNext, VerifierDeployed, AnchorDeployed, ReceiptArrives, RootAnswered,
       RootArrives, AddressArrives, chainVars
  <2>2. (\E tx : Send(tx)) \/ UNCHANGED sent
    BY <1>6 DEF ServerNext, VerifierDeployed, AnchorDeployed, ReceiptArrives, RootAnswered,
       RootArrives, AddressArrives, chainVars
  <2> QED
    BY <1>1, <2>1, <2>2
<1> QED
  BY <1>2, <1>3, <1>4, <1>5, <1>6 DEF EnvironmentNext

\* The host is in no state to move once it is done or has failed.
LEMMA HostNotOver ==
  ASSUME HostNext
  PROVE  ~ RunOver
BY DEF HostNext, HostResets, HostWasReset, HostProvesLeaf, HostEndsEpoch, HostProvesNode,
   HostPosts, HostHasReply, HostAt, RunOver

LEMMA HostKeepsStep ==
  ASSUME ServerInv, ServerInv', MapInv, ArchiveInv, StepInv, HostNext
  PROVE  DeployedInv' /\ HostInv'
<1>0. /\ SentInv /\ ChainInv /\ DeployedInv /\ HostInv /\ SentStays
      /\ ~ RunOver' => ~ RunOver
      /\ Mined \in Nat /\ Mined' \in Nat /\ Mined <= Mined'
  BY ChainKept, HostNotOver DEF ServerInv, StepInv
<1>1. CASE HostResets
  <2>1. ResetRequest(Host, MapRoot(nullifiers))
    BY <1>1 DEF HostResets
  <2>2. DeployedInv'
    BY <1>0, <2>1, ResetDeploys
  <2> QED
    BY <1>0, <1>1, <2>2, HostBeginsReset
<1>2. CASE HostWasReset
  BY <1>0, <1>2, ForgetDeploys, HostToldOfReset DEF HostWasReset, chainVars
<1>3. CASE HostProvesLeaf \/ HostEndsEpoch \/ HostProvesNode
  <2>1. UNCHANGED <<handlers, epochAnchor>>
    BY <1>3 DEF HostProvesLeaf, HostEndsEpoch, HostProvesNode, serverVars
  <2> QED
    BY <1>0, <1>3, <2>1, WorldDeploys, HostProves
<1>4. CASE HostPosts
  <2> DEFINE values == tree.root[1]
  <2>1. AnchorRequest(Host, host.epoch, values.old, values)
    BY <1>4 DEF HostPosts
  <2>2. DeployedInv'
    <3> HIDE DEF values
    <3> QED
      BY <1>0, <2>1, RequestDeploys
  <2> QED
    BY <1>0, <1>4, <2>2, HostSends
<1>5. CASE HostHasReply
  BY <1>0, <1>5, ForgetDeploys, HostToldOfEpoch DEF HostHasReply, chainVars
<1> QED
  BY <1>1, <1>2, <1>3, <1>4, <1>5 DEF HostNext

\* Another client's reset and its handler.
LEMMA OthersKeepStep ==
  ASSUME ServerInv, ServerInv', StepInv, ChainInv', SentStays,
         UNCHANGED <<archiveVars, host>>,
         \/ OtherResets
         \/ \E c \in Clients \ {Host} : VerifierDeployed(c) \/ AnchorDeployed(c)
  PROVE  HostInv'
<1>0. SentInv /\ ChainInv /\ HostInv /\ Host \in Clients
  BY ClientsAssumption DEF ServerInv, StepInv
<1>1. UNCHANGED chain
  BY DEF OtherResets, ResetRequest, VerifierDeployed, AnchorDeployed, chainVars
<1>2. /\ Mined' = Mined /\ Mined \in Nat /\ Mined' \in Nat /\ Mined <= Mined'
      /\ Latest.contracts \subseteq Latest'.contracts
  BY <1>0, <1>1, ChainSame
<1>3. CASE OtherResets
  <2>1. ResetRequest(Other, MapRoot(EmptyMap)) /\ UNCHANGED epochAnchor
    BY <1>3 DEF OtherResets, ResetRequest
  <2>2. \A i \in DOMAIN sent' \ DOMAIN sent : sent'[i].kind = "deploy"
    <3>1. ~ RunOver' => ~ RunOver
      BY DEF RunOver
    <3>2. DeployedInv
      BY DEF StepInv
    <3> QED
      BY <1>0, <2>1, <3>1, <3>2, ResetDeploys
  <2>3. handlers'[Host] = handlers[Host]
    <3>1. PICK h : Reply(Other, h)
      BY <2>1 DEF ResetRequest, Reply
    <3> QED
      BY <1>0, <3>1, Replies, ClientsAssumption
  <2> QED
    BY <1>0, <1>2, <2>1, <2>2, <2>3, HostWaits
<1>4. ASSUME NEW c \in Clients \ {Host}, VerifierDeployed(c)
      PROVE  HostInv'
  <2> DEFINE tx == DeployAnchor(handlers[c].root, handlers[c].tx)
  <2>1. Send(tx) /\ tx.kind = "deploy" /\ UNCHANGED epochAnchor
    BY <1>4 DEF VerifierDeployed, DeployAnchor, Deploy
  <2> HIDE DEF tx
  <2>2. \A i \in DOMAIN sent' \ DOMAIN sent : sent'[i].kind # "anchor"
    <3>1. sent' = Append(sent, tx) /\ Len(sent) \in Nat /\ DOMAIN sent = 1 .. Len(sent)
      BY <1>0, <2>1, SentFacts DEF Send
    <3>2. DOMAIN sent' = 1 .. Len(sent) + 1 /\ sent'[Len(sent) + 1] = tx
      BY <1>0, <3>1, Follows DEF SentInv, IsSeq
    <3> QED
      BY <2>1, <3>1, <3>2
  <2>3. PICK h : Reply(c, h)
    BY <1>4 DEF VerifierDeployed
  <2>4. handlers'[Host] = handlers[Host]
    BY <1>0, <1>4, <2>3, Replies
  <2> QED
    BY <1>0, <1>2, <2>1, <2>2, <2>4, HostWaits
<1>5. ASSUME NEW c \in Clients \ {Host}, AnchorDeployed(c)
      PROVE  HostInv'
  <2>1. epochAnchor' \in Awaited /\ UNCHANGED sent
    BY <1>5 DEF AnchorDeployed, chainVars, Awaited
  <2>2. PICK h : Reply(c, h)
    BY <1>5 DEF AnchorDeployed
  <2>3. handlers'[Host] = handlers[Host]
    BY <1>0, <1>5, <2>2, Replies
  <2> QED
    BY <1>0, <1>2, <2>1, <2>3, HostWaits
<1> QED
  BY <1>3, <1>4, <1>5

LEMMA EnvironmentKeepsStep ==
  ASSUME ServerInv, ServerInv', StepInv, EnvironmentNext
  PROVE  DeployedInv' /\ HostInv'
<1>0. /\ SentInv /\ ChainInv /\ DeployedInv /\ HostInv /\ SentStays /\ ChainInv'
      /\ ~ RunOver => Mined \in Nat /\ Mined' \in Nat /\ Mined <= Mined'
  BY ChainKept DEF ServerInv, StepInv
<1>1. UNCHANGED <<archiveVars, host>> /\ RunOver' = RunOver
  BY DEF EnvironmentNext, OtherResets, OwnerRevokes, RunOver
<1>2. CASE OtherResets
  <2>1. ResetRequest(Other, MapRoot(EmptyMap))
    BY <1>2 DEF OtherResets
  <2>2. DeployedInv'
    BY <1>0, <1>1, <2>1, ResetDeploys
  <2> QED
    BY <1>0, <1>1, <1>2, <2>2, OthersKeepStep
<1>3. CASE OwnerRevokes
  <2> DEFINE tx == SetPolicy(ThePolicy, FALSE)
  <2>1. /\ Send(tx) /\ tx.kind = "policy"
        /\ UNCHANGED <<chain, handlers, epochAnchor>>
    BY <1>3 DEF OwnerRevokes, SetPolicy, serverVars
  <2> HIDE DEF tx
  <2>2. \A i \in DOMAIN sent' \ DOMAIN sent : sent'[i].kind # "anchor"
    <3>1. sent' = Append(sent, tx) /\ Len(sent) \in Nat /\ DOMAIN sent = 1 .. Len(sent)
      BY <1>0, <2>1, SentFacts DEF Send
    <3>2. DOMAIN sent' = 1 .. Len(sent) + 1 /\ sent'[Len(sent) + 1] = tx
      BY <1>0, <3>1, Follows DEF SentInv, IsSeq
    <3> QED
      BY <2>1, <3>1, <3>2
  <2>3. Latest.contracts \subseteq Latest'.contracts
    BY <1>0, <2>1, ChainSame
  <2>4. HostInv'
    BY <1>0, <1>1, <2>1, <2>2, <2>3, HostWaits
  <2> QED
    BY <1>0, <1>1, <2>1, <2>4, WorldDeploys
<1>4. CASE MineBlock /\ UNCHANGED serverVars
  <2>1. /\ UNCHANGED <<sent, handlers, epochAnchor>>
        /\ AnchorsMined => Latest.contracts \subseteq Latest'.contracts
    BY <1>0, <1>4, BlockMined DEF MineBlock, serverVars, AnchorsMined
  <2>2. HostInv'
    BY <1>0, <1>1, <2>1, HostWaits
  <2> QED
    BY <1>0, <1>1, <2>1, <2>2, WorldDeploys
<1>5. CASE RunOver /\ Reorg /\ UNCHANGED serverVars
  <2>1. UNCHANGED <<sent, handlers, epochAnchor>>
    BY <1>5 DEF Reorg, serverVars
  <2>2. HostInv'
    BY <1>0, <1>1, <1>5, <2>1, HostWaits
  <2> QED
    BY <1>0, <1>1, <1>5, <2>1, <2>2, WorldDeploys
<1>6. CASE ServerNext
  <2>1. DeployedInv'
    BY <1>0, <1>1, <1>6, ServerDeploys
  <2>2. PICK client \in Clients :
          \/ VerifierDeployed(client) \/ AnchorDeployed(client)
          \/ ReceiptArrives(client) \/ RootAnswered(client)
          \/ RootArrives(client) \/ AddressArrives(client)
    BY <1>6 DEF ServerNext
  <2>3. CASE client = Host
    BY <1>0, <1>1, <2>1, <2>2, <2>3, ResetAnswered, EpochAnswered
  <2>4. CASE client # Host
    <3>1. handlers[client].at \notin Anchoring
      BY <1>0, <2>4 DEF DeployedInv
    <3>2. VerifierDeployed(client) \/ AnchorDeployed(client)
      BY <2>2, <3>1 DEF ReceiptArrives, RootAnswered, RootArrives, AddressArrives, Anchoring
    <3> QED
      BY <1>0, <1>1, <2>1, <2>4, <3>2, OthersKeepStep
  <2> QED
    BY <2>1, <2>3, <2>4
<1> QED
  BY <1>1, <1>2, <1>3, <1>4, <1>5, <1>6 DEF EnvironmentNext

LEMMA StepStarts ==
  ASSUME Init
  PROVE  StepInv
<1>1. /\ sent = <<>> /\ chain = <<>> /\ reorgs = 0 /\ epochAnchor = None
      /\ handlers = [c \in Clients |-> Idle]
      /\ witnesses = <<>> /\ leaves = <<>> /\ host.at = "start"
  BY DEF Init, RunInit, ArchiveInit, ChainInit, ServerInit
<1>2. IsSeq(chain) /\ DOMAIN chain = {} /\ DOMAIN sent = {}
  <2>1. <<>> \in Seq({}) /\ DOMAIN <<>> = {}
    OBVIOUS
  <2> QED
    BY <1>1, <2>1 DEF IsSeq
<1>3. ChainInv
  BY <1>1, <1>2 DEF ChainInv
<1>4. DeployedInv
  BY <1>1 DEF DeployedInv, Idle, Deploying, Anchoring
<1>5. HostInv
  BY <1>1, <1>2, ClientsAssumption DEF HostInv
<1> QED
  BY <1>3, <1>4, <1>5 DEF StepInv

LEMMA StepKept ==
  ASSUME ServerInv, ServerInv', MapInv, ArchiveInv, StepInv, [Next]_vars
  PROVE  StepInv'
<1>0. ServerInv /\ ChainInv /\ DeployedInv /\ HostInv
  BY DEF StepInv
<1>1. CASE HostNext
  BY <1>0, <1>1, ChainKept, HostKeepsStep DEF StepInv
<1>2. CASE EnvironmentNext
  BY <1>0, <1>2, ChainKept, EnvironmentKeepsStep DEF StepInv
<1>3. CASE UNCHANGED runVars
  <2>1. UNCHANGED <<witnesses, leaves, nullifiers, sent, chain, reorgs, epochAnchor, handlers, host>>
    BY <1>3 DEF runVars, archiveVars, chainVars, serverVars
  <2>2. Latest' = Latest /\ Mined' = Mined
    BY <2>1 DEF Latest, Mined
  <2>3. ChainInv' /\ DeployedInv'
    BY <1>0, <2>1, <2>2 DEF ChainInv, DeployedInv, RunOver
  <2>4. PICK h : h = handlers[Host] /\ h = handlers'[Host]
    BY <2>1
  <2>5. Posted(h) => Posted(h)'
    BY <2>1, <2>2 DEF Posted, Held, Stands, RootAt, Target
  <2>6. Resetting(h) => Resetting(h)'
    BY <2>1, <2>2 DEF Resetting, Stands, MapRoot
  <2>7. AnchorsMined' = AnchorsMined /\ ProvedBefore' = ProvedBefore
    BY <2>1, <2>2 DEF AnchorsMined, ProvedBefore
  <2>8. PICK a : a = host.anchor /\ a = host'.anchor
    BY <2>1
  <2>9. Stands(a)' = Stands(a) /\ RootAt(a)' = RootAt(a)
    BY <2>1, <2>2 DEF Stands, RootAt
  <2>10. HostInv'
    BY <1>0, <2>1, <2>4, <2>5, <2>6, <2>7, <2>8, <2>9 DEF HostInv
  <2> QED
    BY <2>3, <2>10 DEF StepInv
<1>4. CASE ViewNext
  <2>1. UNCHANGED runVars
    BY <1>4 DEF ViewNext, StartView, ReadReceipt, ReadBlock, ReadTx, ReadAnchor, ReadPolicy
  <2> QED
    BY <1>3, <2>1
<1> QED
  BY <1>1, <1>2, <1>3, <1>4 DEF Next, vars

\* The host, its handler, the server's variable and the chain are always in step.
THEOREM StepInductive == Spec => []StepInv
<1>1. Init => StepInv
  BY StepStarts
<1>2. ServerInv /\ ServerInv' /\ MapInv /\ ArchiveInv /\ StepInv /\ [Next]_vars => StepInv'
  BY StepKept
<1> QED
  BY <1>1, <1>2, Inductive, MapInductive, ArchiveInductive, PTL DEF Spec

\* The sparse map never gets ahead of the contract by an epoch that failed:
\* while the host works on the lots of an epoch, the contract that the last reply
\* named stands at the root of what the epochs before used, although another run
\* may have reset the server and a handler reads the server's variable at
\* different times (disclosure and e4_real_cell's archived run).
THEOREM StaysInStep == Spec => []HostInStep
<1>1. StepInv => HostInStep
  BY DEF StepInv, HostInv, HostInStep, ProvedBefore, RootAt
<1> QED
  BY <1>1, StepInductive, PTL

-----------------------------------------------------------------------------
(* What view-open makes of an archived lot verifies.                         *)

\* At each height the index is less, until it is zero.
LEMMA AboveSinks ==
  ASSUME NEW index \in Nat, NEW k \in Nat
  PROVE  Above(index)[k] = 0 \/ Above(index)[k] + k <= index
<1> DEFINE at(n) == Above(index)[n]
           T == {n \in Nat : at(n) = 0 \/ at(n) + n <= index}
<1>1. 0 \in T
  <2>1. at(0) = index
    BY ONLY AboveDef
  <2> HIDE DEF at
  <2> QED
    BY <2>1
<1>2. ASSUME NEW n \in T
      PROVE  n + 1 \in T
  <2>1. n \in Nat /\ (at(n) = 0 \/ at(n) + n <= index)
    OBVIOUS
  <2>2. at(n) \in Nat /\ at(n + 1) = at(n) \div 2
    BY <2>1, AboveNat, AboveNext
  <2> HIDE DEF at
  <2>3. PICK x \in Nat, y \in Nat : x = at(n) /\ y = at(n + 1) /\ y = x \div 2
    BY <2>2
  <2>4. x = 0 => y = 0
    BY <2>3
  <2>5. x # 0 => y + 1 <= x /\ y \in Nat
    BY <2>3
  <2> QED
    BY <2>1, <2>3, <2>4, <2>5
<1>3. k \in T
  <2> HIDE DEF T
  <2> QED
    BY <1>1, <1>2, Induction, T \subseteq Nat DEF T
<1> QED
  BY <1>3

\* A smaller place is never above to the right of a larger one.
LEMMA AboveInOrder ==
  ASSUME NEW i \in Nat, NEW j \in Nat, i <= j, NEW k \in Nat
  PROVE  Above(i)[k] <= Above(j)[k]
<1> DEFINE T == {n \in Nat : Above(i)[n] <= Above(j)[n]}
<1>1. 0 \in T
  BY AboveDef
<1>2. ASSUME NEW n \in T
      PROVE  n + 1 \in T
  <2>1. /\ n \in Nat /\ Above(i)[n] <= Above(j)[n]
        /\ Above(i)[n] \in Nat /\ Above(j)[n] \in Nat
        /\ Above(i)[n + 1] = Above(i)[n] \div 2 /\ Above(j)[n + 1] = Above(j)[n] \div 2
    BY AboveNat, AboveNext
  <2>2. \A x, y \in Nat : x <= y => x \div 2 <= y \div 2
    OBVIOUS
  <2> QED
    BY <2>1, <2>2
<1>3. k \in T
  <2> HIDE DEF T
  <2> QED
    BY <1>1, <1>2, Induction, T \subseteq Nat DEF T
<1> QED
  BY <1>3

\* The tree over some leaves has a height, and one node that is above them all.
LEMMA DepthOk ==
  ASSUME NEW count \in Nat \ {0}
  PROVE  /\ Depth(count) \in Nat
         /\ \A index \in 0 .. count - 1 : Above(index)[Depth(count)] = 0
<1> DEFINE n == count - 1
           at(k) == Above(n)[k]
           Fits(d) == at(d) = 0 /\ (d = 0 \/ at(d - 1) # 0)
           T == {k \in Nat : k <= n => at(k) # 0}
<1>1. n \in Nat
  OBVIOUS
<1>2. at(n) = 0
  <2> HIDE DEF n
  <2>1. at(n) = 0 \/ at(n) + n <= n
    BY <1>1, AboveSinks
  <2>2. at(n) \in Nat
    BY <1>1, AboveNat
  <2> HIDE DEF at
  <2> QED
    BY <1>1, <2>1, <2>2
<1> HIDE DEF at
<1>3. \E d \in 0 .. count : Fits(d)
  <2> SUFFICES ASSUME \A d \in 0 .. count : ~ Fits(d)
               PROVE  FALSE
    OBVIOUS
  <2>1. 0 \in T
    <3>1. 0 \in 0 .. count
      OBVIOUS
    <3> QED
      BY <3>1
  <2>2. ASSUME NEW k \in T
        PROVE  k + 1 \in T
    <3>1. ASSUME k + 1 <= n
          PROVE  at(k + 1) # 0
      <4>1. at(k) # 0 /\ k + 1 \in 0 .. count /\ k + 1 - 1 = k
        BY <3>1
      <4> QED
        BY <4>1
    <3> QED
      BY <3>1
  <2>3. n \in T
    <3> HIDE DEF T
    <3> QED
      BY <1>1, <2>1, <2>2, Induction, T \subseteq Nat DEF T
  <2> QED
    BY <1>1, <1>2, <2>3
<1>4. Depth(count) \in 0 .. count /\ at(Depth(count)) = 0
  <2>1. Depth(count) = CHOOSE d \in 0 .. count : Fits(d)
    BY DEF Depth, at
  <2> QED
    BY <1>3, <2>1
<1>5. ASSUME NEW index \in 0 .. count - 1
      PROVE  Above(index)[Depth(count)] = 0
  <2>1. index \in Nat /\ index <= n /\ Depth(count) \in Nat
    BY <1>4
  <2>2. Above(index)[Depth(count)] <= at(Depth(count)) /\ Above(index)[Depth(count)] \in Nat
    <3> HIDE DEF n
    <3> QED
      BY <1>1, <2>1, AboveInOrder, AboveNat DEF at
  <2> QED
    BY <1>4, <2>2
<1> QED
  BY <1>4, <1>5

\* The path on the way up from an event leads to the commitment to all of them.
LEMMA EventOpens ==
  ASSUME NEW events, NEW nonce, Len(events) \in MinLotEvents .. MaxLotEvents,
         NEW index \in Nat, index < Len(events)
  PROVE  VerifyEventOpening(Len(events), index, EventSalt(nonce, index),
                            events[index + 1].bytes, EventPath(events, nonce, index),
                            EventBatchCommitment(events, nonce))
<1> DEFINE count == Len(events)
           depth == Depth(count)
           below == [i \in Nat |-> IF i < count
                                     THEN EventLeaf(i, EventSalt(nonce, i), events[i + 1].bytes)
                                     ELSE EventPadding(i)]
           levels == Levels(EventNode, depth, below)
           path == EventPath(events, nonce, index)
<1>1. /\ count \in Nat \ {0} /\ index \in 0 .. count - 1
      /\ count \in MinLotEvents .. MaxLotEvents
  BY TreeAssumption
<1>2. depth \in Nat /\ Above(index)[depth] = 0
  BY <1>1, DepthOk
<1>3. EventLevels(events, nonce) = levels
  BY DEF EventLevels
<1>4. below[index] = EventLeaf(index, EventSalt(nonce, index), events[index + 1].bytes)
  OBVIOUS
<1> HIDE DEF count, depth, below
<1>5. path = [k \in 1 .. depth |-> levels[k - 1][Sibling(Above(index)[k - 1])]]
  BY <1>3 DEF EventPath, Siblings, depth, count
<1> HIDE DEF levels, path
<1>6. Len(path) = depth /\ OfSiblings(path, levels, index)
  <2>1. path = [k \in 1 .. depth |-> path[k]]
    BY <1>5
  <2>2. Len(path) = depth /\ DOMAIN path = 1 .. depth
    BY <1>2, <2>1, Listed
  <2> QED
    BY <1>5, <2>2 DEF OfSiblings
<1>7. Folded(EventNode, below[index], index, path) = levels[depth][0]
  <2>1. Len(path) \in 0 .. depth
    BY <1>2, <1>6
  <2> QED
    BY <1>2, <1>6, <2>1, PathLeads DEF levels
<1>8. EventBatchCommitment(events, nonce) = BatchCommitment(count, levels[depth][0])
  BY <1>3 DEF EventBatchCommitment, depth, count
<1>9. VerifyEventOpening(count, index, EventSalt(nonce, index), events[index + 1].bytes,
                         path, EventBatchCommitment(events, nonce))
  BY <1>1, <1>4, <1>6, <1>7, <1>8 DEF VerifyEventOpening, depth
<1> QED
  BY <1>9 DEF count, path

\* What is selected is in order, without repetition, and all of it there.
LEMMA AscendingOk ==
  ASSUME NEW set, NEW bound \in Nat
  PROVE  LET s == Ascending(set, bound)
         IN /\ IsSeq(s) /\ Len(s) <= bound
            /\ \A i \in DOMAIN s : s[i] \in set /\ s[i] \in Nat /\ s[i] < bound
            /\ \A i, j \in DOMAIN s : i # j => s[i] # s[j]
            /\ \A n \in Nat : n < bound /\ n \in set => s # <<>>
<1> DEFINE Over(s, k) == IF k - 1 \in set THEN Append(s, k - 1) ELSE s
           Fits(g, n) == g = [k \in 0 .. n |-> IF k = 0 THEN <<>> ELSE Over(g[k - 1], k)]
           U == {n \in Nat : \E g : Fits(g, n)}
           upto == CHOOSE g : Fits(g, bound)
<1>1. Ascending(set, bound) = upto[bound]
  BY DEF Ascending
<1> HIDE DEF Over
<1>2. 0 \in U
  <2> DEFINE g == [k \in 0 .. 0 |-> <<>>]
  <2>1. Fits(g, 0)
    OBVIOUS
  <2> HIDE DEF g, Fits
  <2> QED
    BY <2>1
<1>3. ASSUME NEW n \in U
      PROVE  n + 1 \in U
  <2>1. PICK g : Fits(g, n)
    OBVIOUS
  <2> DEFINE h == [k \in 0 .. n + 1 |-> IF k = n + 1 THEN Over(g[n], k) ELSE g[k]]
  <2>2. n \in Nat /\ \A k \in 0 .. n : g[k] = IF k = 0 THEN <<>> ELSE Over(g[k - 1], k)
    BY <2>1
  <2>3. \A k \in 0 .. n + 1 : h[k] = IF k = 0 THEN <<>> ELSE Over(h[k - 1], k)
    BY <2>2
  <2>4. Fits(h, n + 1)
    <3>1. h = [k \in 0 .. n + 1 |-> h[k]]
      OBVIOUS
    <3> HIDE DEF h
    <3> QED
      BY <2>3, <3>1
  <2> HIDE DEF h, Fits
  <2> QED
    BY <2>2, <2>4
<1>4. bound \in U
  <2> HIDE DEF U
  <2> QED
    BY <1>2, <1>3, Induction, U \subseteq Nat DEF U
<1>5. Fits(upto, bound)
  <2> HIDE DEF Fits
  <2> QED
    BY <1>4
<1> HIDE DEF upto, U
<1>6. \A k \in 0 .. bound : upto[k] = IF k = 0 THEN <<>> ELSE Over(upto[k - 1], k)
  BY <1>5
<1> HIDE DEF Fits
<1> DEFINE Good(s, k) ==
             /\ IsSeq(s) /\ Len(s) <= k
             /\ \A i \in DOMAIN s : s[i] \in set /\ s[i] \in Nat /\ s[i] < k
             /\ \A i, j \in DOMAIN s : i # j => s[i] # s[j]
             /\ \A n \in Nat : n < k /\ n \in set => s # <<>>
           T == {k \in Nat : k <= bound => Good(upto[k], k)}
<1>7. 0 \in T
  <2>1. Good(<<>>, 0)
    <3>1. IsSeq(<<>>) /\ Len(<<>>) = 0 /\ DOMAIN <<>> = {}
      BY DEF IsSeq
    <3> QED
      BY <3>1
  <2>2. upto[0] = <<>>
    BY <1>6
  <2> HIDE DEF Good
  <2> QED
    BY <2>1, <2>2
<1>8. ASSUME NEW k \in T, k + 1 <= bound
      PROVE  Good(upto[k + 1], k + 1)
  <2>1. k \in Nat /\ k + 1 \in 0 .. bound /\ k + 1 # 0 /\ k + 1 - 1 = k
    BY <1>8
  <2>2. Good(upto[k], k)
    BY <1>8, <2>1
  <2>3. upto[k + 1] = IF k \in set THEN Append(upto[k], k) ELSE upto[k]
    BY <1>6, <2>1 DEF Over
  <2>4. PICK s : s = upto[k]
    OBVIOUS
  <2>5. Good(s, k)
    BY <2>2, <2>4
  <2>6. PICK m : m = k + 1 /\ m \in Nat /\ k < m /\ \A n \in Nat : n < m <=> n < k \/ n = k
    BY <2>1
  <2>7. CASE k \notin set
    <3>1. Good(s, m)
      BY <2>1, <2>5, <2>6, <2>7, Lengths
    <3> QED
      BY <2>3, <2>4, <2>6, <2>7, <3>1
  <2>8. CASE k \in set
    <3>1. PICK t : t = Append(s, k)
      OBVIOUS
    <3>2. /\ IsSeq(t) /\ Len(s) \in Nat /\ DOMAIN s = 1 .. Len(s)
          /\ Len(t) = Len(s) + 1 /\ DOMAIN t = 1 .. Len(s) + 1
          /\ \A i \in 1 .. Len(s) : t[i] = s[i]
          /\ t[Len(s) + 1] = k
      BY <2>5, <3>1, Follows
    <3>3. \A i \in DOMAIN t : t[i] \in set /\ t[i] \in Nat /\ t[i] < m
      BY <2>1, <2>5, <2>6, <2>8, <3>2
    <3>4. \A i, j \in DOMAIN t : i # j => t[i] # t[j]
      BY <2>1, <2>5, <3>2
    <3>5. t # <<>> /\ Len(t) <= m
      BY <2>1, <2>5, <2>6, <3>2, Lengths
    <3>6. Good(t, m)
      BY <3>2, <3>3, <3>4, <3>5
    <3> HIDE DEF Good
    <3> QED
      BY <2>3, <2>4, <2>6, <2>8, <3>1, <3>6
  <2> QED
    BY <2>7, <2>8
<1>9. bound \in T
  <2>1. ASSUME NEW k \in T
        PROVE  k + 1 \in T
    <3>1. k \in Nat /\ k + 1 \in Nat
      OBVIOUS
    <3> HIDE DEF Good
    <3> QED
      BY <1>8, <3>1
  <2>2. T \subseteq Nat /\ 0 \in T
    BY <1>7
  <2> HIDE DEF T
  <2> QED
    BY <2>1, <2>2, Induction
<1>10. Good(upto[bound], bound)
  BY <1>9
<1> QED
  BY <1>1, <1>10

\* What the host proves evaluates under the issuer's root, and its certificate paths
\* have all the levels.
WitnessOk(input) ==
  /\ LeafEvaluates(input) /\ input.certificateRoot = CertificateRoot
  /\ DOMAIN input.events = 1 .. Len(input.events)
  /\ \A i \in DOMAIN input.events :
       Len(input.events[i].certificatePath) = CertificateDepth

LEMMA WitnessProved ==
  ASSUME MapInv, HostProvesLeaf
  PROVE  \E input : WitnessOk(input) /\ witnesses' = Append(witnesses, input)
<1> DEFINE lot == Tasks[host.epoch][Len(leaves) + 1]
           input == NextInput(lot)
<1>1. /\ LeafEvaluates(input) /\ witnesses' = Append(witnesses, input)
      /\ input.certificateRoot = CertificateRoot
  BY DEF HostProvesLeaf, ProveLeaf, LeafProvable, NextInput, PolicyInput
<1>2. Len(lot.events) \in Nat /\ DOMAIN lot.events = 1 .. Len(lot.events)
  <2>1. host.epoch \in DOMAIN Tasks /\ Len(leaves) \in Nat
    BY Lengths DEF MapInv
  <2>2. Len(leaves) + 1 \in DOMAIN Tasks[host.epoch]
    BY <2>1, TasksAssumption DEF HostProvesLeaf
  <2> QED
    BY <2>1, <2>2, TasksAssumption
<1> DEFINE slot(i) == CHOOSE s \in SlotsFor(lot.events[i], lot.owner, lot.key) : TRUE
<1>3. input.events = [i \in DOMAIN lot.events |->
                        [bytes |-> lot.events[i], credentialIndex |-> slot(i),
                         certificatePath |-> CertificatePath(slot(i))]]
  BY DEF NextInput, PolicyInput
<1> HIDE DEF input, lot, slot
<1>4. input.events = [i \in 1 .. Len(lot.events) |-> input.events[i]]
  BY <1>2, <1>3
<1>5. DOMAIN input.events = 1 .. Len(input.events)
  BY <1>2, <1>4, Listed
<1>6. ASSUME NEW i \in DOMAIN input.events
      PROVE  Len(input.events[i].certificatePath) = CertificateDepth
  <2>1. input.events[i].certificatePath = CertificatePath(slot(i))
    BY <1>3
  <2>2. PICK path : path = CertificatePath(slot(i))
    OBVIOUS
  <2>3. path = [k \in 1 .. CertificateDepth |-> path[k]]
    BY <2>2 DEF CertificatePath, Siblings
  <2> QED
    BY <2>1, <2>2, <2>3, Listed, TreeAssumption
<1> QED
  BY <1>1, <1>5, <1>6 DEF WitnessOk

\* Whatever a preset selects of a lot opens under a path that authenticates it.
LEMMA ViewOpens ==
  ASSUME NEW input, WitnessOk(input),
         NEW authentication, IsSeq(authentication.levels),
         AuthenticationOk(LeafPublicValues(input), authentication.levels,
                          LeafKey, AggregateKey),
         NEW fields, fields.ranges \subseteq Nat \X Nat,
         FieldsOk(fields, Len(input.events))
  PROVE  OpenOk(input, input.lot, Selection(fields, Len(input.events)), authentication)
<1> DEFINE count == Len(input.events)
           selection == Selection(fields, count)
           set == UNION {r[1] .. r[2] : r \in fields.ranges}
           bundle == Bundle(input, input.lot, selection, authentication)
           leaf == LeafPublicValues(input)
<1>1. /\ count \in MinLotEvents .. MaxLotEvents /\ count \in Nat \ {0}
      /\ LeafEvaluates(input)
      /\ DOMAIN input.events = 1 .. count
  BY TreeAssumption DEF WitnessOk, LeafEvaluates
<1>2. /\ leaf.epoch = input.epoch /\ leaf.count = count
      /\ leaf.batch = EventBatchCommitment(input.events, input.batchNonce)
      /\ leaf.certificateRoot = input.certificateRoot
      /\ leaf.polygonCommitment = PolygonCommitment(input.polygon, input.polygonNonce)
  BY DEF LeafPublicValues
<1>3. selection.events = Ascending(set, count)
  BY DEF Selection
<1>4. /\ bundle.lot = input.lot /\ bundle.leaf = leaf
      /\ bundle.authentication = authentication
      /\ bundle.polygon = IF selection.polygon
           THEN <<[nonce |-> input.polygonNonce, vertices |-> input.polygon]>> ELSE <<>>
      /\ bundle.events = [i \in DOMAIN selection.events |->
                            EventOpening(input, selection.events[i])]
      /\ bundle.credential = IF selection.credential
           THEN <<CredentialOpening(input, selection.events[1])>> ELSE <<>>
  BY DEF Bundle
<1>5. \E n \in Nat : n < count /\ n \in set
  <2>1. PICK r \in fields.ranges : r[1] <= r[2] /\ r[2] < count
    BY DEF FieldsOk
  <2>2. r[1] \in Nat /\ r[2] \in Nat
    OBVIOUS
  <2>3. r[1] \in r[1] .. r[2] /\ r[1] < count
    BY <1>1, <2>1, <2>2
  <2> QED
    BY <2>1, <2>2, <2>3
<1> HIDE DEF count, selection, set, leaf, bundle
<1> DEFINE chosen == selection.events
           n == Len(chosen)
<1>6. /\ IsSeq(chosen) /\ n \in 1 .. count /\ DOMAIN chosen = 1 .. n
      /\ \A i \in 1 .. n : chosen[i] \in Nat /\ chosen[i] < count
      /\ \A i, j \in 1 .. n : i # j => chosen[i] # chosen[j]
  <2>1. PICK s : s = Ascending(set, count)
    OBVIOUS
  <2>2. /\ IsSeq(s) /\ Len(s) <= count
        /\ \A i \in DOMAIN s : s[i] \in Nat /\ s[i] < count
        /\ \A i, j \in DOMAIN s : i # j => s[i] # s[j]
        /\ s # <<>>
    <3>1. count \in Nat
      BY <1>1
    <3> QED
      BY <1>5, <2>1, <3>1, AscendingOk
  <2>3. Len(s) \in Nat /\ DOMAIN s = 1 .. Len(s) /\ Len(s) # 0
    BY <2>2, Lengths
  <2>4. Len(s) \in 1 .. count
    BY <1>1, <2>2, <2>3
  <2> QED
    BY <1>3, <2>1, <2>2, <2>3, <2>4
<1> HIDE DEF chosen
<1>7. /\ DOMAIN bundle.events = 1 .. n /\ Len(bundle.events) = n
      /\ \A i \in 1 .. n : bundle.events[i] = EventOpening(input, chosen[i])
  <2>1. bundle.events = [i \in 1 .. n |-> EventOpening(input, chosen[i])]
    BY <1>4, <1>6 DEF chosen
  <2>2. bundle.events = [i \in 1 .. n |-> bundle.events[i]] /\ n \in Nat
    BY <1>6, <2>1
  <2> QED
    BY <2>1, <2>2, Listed
<1>8. ASSUME NEW i \in 1 .. n
      PROVE  /\ bundle.events[i].index = chosen[i]
             /\ bundle.events[i].bytes = input.events[chosen[i] + 1].bytes
             /\ EventOpeningOk(bundle, bundle.events[i])
  <2> DEFINE opening == bundle.events[i]
             index == chosen[i]
  <2>1. /\ opening.index = index
        /\ opening.bytes = input.events[index + 1].bytes
        /\ opening.salt = EventSalt(input.batchNonce, index)
        /\ opening.path = EventPath(input.events, input.batchNonce, index)
    <3>1. opening = EventOpening(input, index)
      BY <1>7
    <3> HIDE DEF opening, index
    <3> QED
      BY <3>1 DEF EventOpening
  <2>2. index \in Nat /\ index < count
    BY <1>6
  <2> HIDE DEF opening, index
  <2>3. VerifyEventOpening(count, index, EventSalt(input.batchNonce, index),
                           input.events[index + 1].bytes,
                           EventPath(input.events, input.batchNonce, index),
                           EventBatchCommitment(input.events, input.batchNonce))
    BY <1>1, <2>2, EventOpens DEF count
  <2>4. index + 1 \in DOMAIN input.events
    BY <1>1, <2>2
  <2>5. /\ input.events[index + 1].bytes.lot = input.lot
        /\ input.events[index + 1].bytes.epoch = input.epoch
    BY <1>1, <2>4 DEF LeafEvaluates
  <2>6. EventOpeningOk(bundle, opening)
    BY <1>2, <1>4, <2>1, <2>3, <2>5 DEF EventOpeningOk
  <2> QED
    BY <2>1, <2>6 DEF opening, index
<1>9. \A i \in DOMAIN bundle.credential : CredentialOk(bundle, bundle.credential[i])
  <2> SUFFICES ASSUME NEW c \in DOMAIN bundle.credential
               PROVE  CredentialOk(bundle, bundle.credential[c])
    OBVIOUS
  <2> DEFINE credential == bundle.credential[c]
             index == chosen[1]
             witness == input.events[index + 1]
  <2>1. credential = CredentialOpening(input, index)
    BY <1>4 DEF chosen
  <2>2. /\ credential.eventIndex = index /\ credential.slot = witness.credentialIndex
        /\ credential.owner = input.owner
        /\ credential.keyCommitment = KeyCommitment(input.key)
        /\ credential.lot = witness.bytes.lot
        /\ credential.certificate = witness.bytes.certificate
        /\ credential.actor = witness.bytes.actor /\ credential.role = witness.bytes.role
        /\ credential.path = witness.certificatePath
    BY <2>1 DEF CredentialOpening
  <2>3. 1 \in 1 .. n /\ index + 1 \in DOMAIN input.events
    BY <1>1, <1>6
  <2>4. /\ bundle.events[1].index = index
        /\ bundle.events[1].bytes = witness.bytes
        /\ 1 \in DOMAIN bundle.events
    BY <1>7, <1>8, <2>3
  <2>5. /\ Len(witness.certificatePath) = CertificateDepth
        /\ CredentialRoot(witness.credentialIndex, witness.bytes, input.owner,
                          KeyCommitment(input.key), witness.certificatePath)
             = input.certificateRoot
    BY <1>1, <2>3 DEF WitnessOk, LeafEvaluates
  <2> HIDE DEF credential, index, witness
  <2>6. CredentialOk(bundle, credential)
    BY <1>2, <1>4, <2>2, <2>4, <2>5 DEF CredentialOk
  <2> QED
    BY <2>6 DEF credential
<1>10. \A i \in DOMAIN bundle.polygon :
         PolygonCommitment(bundle.polygon[i].vertices, bundle.polygon[i].nonce)
           = bundle.leaf.polygonCommitment
  BY <1>2, <1>4
<1> DEFINE levels == authentication.levels
<1>11. /\ levels # <<>> /\ levels[1].leafKey = LeafKey
       /\ levels[1].aggregateKey = AggregateKey
       /\ AuthenticationOk(bundle.leaf, bundle.authentication.levels, LeafKey, AggregateKey)
  <2>1. AuthenticationOk(leaf, levels, LeafKey, AggregateKey)
    BY DEF leaf
  <2>2. Len(levels) # 0 /\ 1 \in DOMAIN levels
    BY <2>1, Lengths DEF AuthenticationOk
  <2>3. levels # <<>>
    BY <2>2, Lengths
  <2> QED
    BY <1>4, <2>1, <2>2, <2>3 DEF AuthenticationOk
<1>12. OpeningsOk(bundle, LeafKey, AggregateKey)
  <2>1. Len(bundle.events) \in 1 .. MaxLotEvents
    BY <1>1, <1>6, <1>7, TreeAssumption
  <2>2. \A i, j \in DOMAIN bundle.events :
          i # j => bundle.events[i].index # bundle.events[j].index
    BY <1>6, <1>7, <1>8
  <2>3. \A i \in DOMAIN bundle.events : EventOpeningOk(bundle, bundle.events[i])
    BY <1>7, <1>8
  <2> QED
    BY <1>9, <1>10, <1>11, <2>1, <2>2, <2>3 DEF OpeningsOk
<1>13. \A i \in DOMAIN selection.events : selection.events[i] < count
  BY <1>6 DEF chosen
<1> QED
  BY <1>1, <1>11, <1>12, <1>13 DEF OpenOk, count, selection, bundle

-----------------------------------------------------------------------------
(* What is archived is anchored, and a view of it is accepted.               *)

\* Everything is deployed with the keys of the server's start.
KeysInv ==
  \A i \in DOMAIN sent : sent[i].kind = "deploy" =>
    sent[i].leafKey = TrustedLeafKey /\ sent[i].aggregateKey = TrustedAggregateKey

\* Each mined transaction is in one block.
CoverInv ==
  /\ \A id \in 1 .. Mined : \E b \in DOMAIN chain : id \in chain[b].first .. chain[b].last
  /\ \A a, b \in DOMAIN chain : a < b => chain[a].last < chain[b].first

\* The transaction of the host's handler carries the root it waits for, and the
\* one that is archived the root that the path leads to.
Carries(h) ==
  h.at \in Anchoring \/ Reports(h) =>
    sent[h.tx].kind = "anchor" /\ sent[h.tx].values = tree.root[1]

AnchoredInv ==
  /\ \A i \in DOMAIN witnesses : WitnessOk(witnesses[i])
  /\ host.at = "done" => leaves = <<>>
  /\ \A i \in DOMAIN archive :
       /\ IsSeq(archive[i].levels)
       /\ archive[i].tx \in DOMAIN sent /\ sent[archive[i].tx].kind = "anchor"
       /\ sent[archive[i].tx].values
            = AuthenticatedRoot(archive[i].levels, LeafKey, AggregateKey)
  /\ host.at = "posted" => Carries(handlers[Host])

LEMMA KeysSent ==
  ASSUME SentInv, KeysInv, NEW tx, Send(tx),
         tx.kind = "deploy" =>
           tx.leafKey = TrustedLeafKey /\ tx.aggregateKey = TrustedAggregateKey
  PROVE  KeysInv'
<1>1. sent' = Append(sent, tx) /\ Len(sent) \in Nat /\ DOMAIN sent = 1 .. Len(sent)
  BY SentFacts DEF Send
<1>2. /\ DOMAIN sent' = 1 .. Len(sent) + 1 /\ sent'[Len(sent) + 1] = tx
      /\ \A i \in 1 .. Len(sent) : sent'[i] = sent[i]
  BY <1>1, Follows DEF SentInv, IsSeq
<1>3. \A i \in DOMAIN sent' : i \in 1 .. Len(sent) \/ i = Len(sent) + 1
  BY <1>1, <1>2
<1> QED
  BY <1>1, <1>2, <1>3 DEF KeysInv

LEMMA KeysKept ==
  ASSUME ServerInv, KeysInv, HostNext \/ EnvironmentNext
  PROVE  KeysInv'
<1>0. SentInv
  BY DEF ServerInv
<1>1. ASSUME NEW client, NEW root, ResetRequest(client, root)
      PROVE  KeysInv'
  <2> DEFINE tx == IF verifier = None THEN DeployVerifier ELSE DeployAnchor(root, verifier)
  <2>1. Send(tx)
    BY <1>1 DEF ResetRequest
  <2>2. tx.leafKey = TrustedLeafKey /\ tx.aggregateKey = TrustedAggregateKey
    BY DEF DeployVerifier, DeployAnchor, Deploy
  <2> HIDE DEF tx
  <2> QED
    BY <1>0, <2>1, <2>2, KeysSent
<1>2. ASSUME UNCHANGED sent
      PROVE  KeysInv'
  BY <1>2 DEF KeysInv
<1>3. CASE HostNext
  <2>1. CASE HostResets
    BY <1>1, <2>1 DEF HostResets
  <2>2. CASE HostPosts
    <3> DEFINE tx == VerifyAndAnchor(epochAnchor, host.epoch, tree.root[1].old, tree.root[1])
    <3>1. Send(tx) \/ UNCHANGED sent
      BY <2>2 DEF HostPosts, AnchorRequest
    <3>2. tx.kind = "anchor"
      BY DEF VerifyAndAnchor
    <3> HIDE DEF tx
    <3> QED
      BY <1>0, <1>2, <3>1, <3>2, KeysSent
  <2>3. CASE HostNext /\ ~ HostResets /\ ~ HostPosts
    <3>1. UNCHANGED sent
      BY <2>3 DEF HostNext, HostWasReset, HostProvesLeaf, HostEndsEpoch, HostProvesNode,
         HostHasReply, chainVars
    <3> QED
      BY <1>2, <3>1
  <2> QED
    BY <1>3, <2>1, <2>2, <2>3
<1>4. CASE OtherResets
  BY <1>1, <1>4 DEF OtherResets
<1>5. CASE OwnerRevokes
  <2> DEFINE tx == SetPolicy(ThePolicy, FALSE)
  <2>1. Send(tx) /\ tx.kind = "policy"
    BY <1>5 DEF OwnerRevokes, SetPolicy
  <2> HIDE DEF tx
  <2> QED
    BY <1>0, <2>1, KeysSent
<1>6. CASE MineBlock \/ Reorg
  BY <1>2, <1>6 DEF MineBlock, Reorg
<1>7. CASE ServerNext
  <2>1. PICK client \in Clients :
          \/ VerifierDeployed(client) \/ AnchorDeployed(client)
          \/ ReceiptArrives(client) \/ RootAnswered(client)
          \/ RootArrives(client) \/ AddressArrives(client)
    BY <1>7 DEF ServerNext
  <2>2. CASE VerifierDeployed(client)
    <3> DEFINE tx == DeployAnchor(handlers[client].root, handlers[client].tx)
    <3>1. Send(tx)
      BY <2>2 DEF VerifierDeployed
    <3>2. tx.leafKey = TrustedLeafKey /\ tx.aggregateKey = TrustedAggregateKey
      BY DEF DeployAnchor, Deploy
    <3> HIDE DEF tx
    <3> QED
      BY <1>0, <3>1, <3>2, KeysSent
  <2>3. CASE ~ VerifierDeployed(client)
    <3>1. UNCHANGED sent
      BY <2>1, <2>3 DEF AnchorDeployed, ReceiptArrives, RootAnswered, RootArrives,
         AddressArrives, chainVars
    <3> QED
      BY <1>2, <3>1
  <2> QED
    BY <2>2, <2>3
<1> QED
  BY <1>3, <1>4, <1>5, <1>6, <1>7 DEF EnvironmentNext

\* The blocks cover what is mined when one follows, and when the last is dropped.
LEMMA CoverMined ==
  ASSUME SentInv, ChainInv, CoverInv, MineBlock
  PROVE  CoverInv'
<1>1. PICK count \in 1 .. MaxInBlock :
        /\ Mined + count <= Len(sent)
        /\ chain' = Append(chain, NewBlock(count))
  BY DEF MineBlock
<1>2. count \in Nat \ {0} /\ Mined \in Nat
  BY LatestOk, SentFacts, ChainAssumption
<1>3. PICK block : block = NewBlock(count)
  OBVIOUS
<1>4. block.first = Mined + 1 /\ block.last = Mined + count
  BY <1>3 DEF NewBlock
<1> DEFINE n == Len(chain)
<1>5. /\ n \in Nat /\ DOMAIN chain = 1 .. n
      /\ Len(chain') = n + 1 /\ DOMAIN chain' = 1 .. n + 1
      /\ \A b \in 1 .. n : chain'[b] = chain[b]
      /\ chain'[n + 1] = block
      /\ chain' # <<>>
  <2>1. IsSeq(chain) /\ chain' = Append(chain, block)
    BY <1>1, <1>3 DEF ChainInv
  <2>2. Len(chain') # 0 /\ IsSeq(chain')
    BY <2>1, Follows
  <2> QED
    BY <2>1, <2>2, Follows, Lengths
<1>6. Mined' = Mined + count
  BY <1>4, <1>5 DEF Mined
<1>7. \A b \in 1 .. n : chain[b].last \in Nat /\ chain[b].last <= Mined
  <2> SUFFICES ASSUME NEW b \in 1 .. n
               PROVE  chain[b].last \in Nat /\ chain[b].last <= Mined
    OBVIOUS
  <2>1. BlockOk(sent, chain, b) /\ BlockOk(sent, chain, n) /\ n \in DOMAIN chain
    BY <1>5 DEF ChainInv
  <2>2. /\ chain[b].last \in Nat /\ chain[n].last \in Nat /\ chain[n].first \in Nat
        /\ chain[n].first <= chain[n].last
    BY <2>1, SentFacts DEF BlockOk
  <2>3. Mined = chain[n].last
    <3>1. chain # <<>>
      BY <1>5, <2>1
    <3> QED
      BY <3>1 DEF Mined
  <2>4. b < n => chain[b].last < chain[n].first
    BY <1>5 DEF CoverInv
  <2>5. b = n \/ b < n
    <3>1. PICK m \in Nat : m = n /\ b \in 1 .. m
      BY <1>5
    <3> QED
      BY <3>1
  <2> QED
    BY <2>2, <2>3, <2>4, <2>5
<1>8. ASSUME NEW id \in 1 .. Mined'
      PROVE  \E b \in DOMAIN chain' : id \in chain'[b].first .. chain'[b].last
  <2>1. CASE id <= Mined
    <3>1. PICK b \in DOMAIN chain : id \in chain[b].first .. chain[b].last
      BY <1>2, <2>1 DEF CoverInv
    <3> QED
      BY <1>5, <3>1
  <2>2. CASE ~ (id <= Mined)
    <3>1. id \in block.first .. block.last
      BY <1>2, <1>4, <1>6, <2>2
    <3> QED
      BY <1>5, <3>1
  <2> QED
    BY <2>1, <2>2
<1>9. ASSUME NEW a \in DOMAIN chain', NEW b \in DOMAIN chain', a < b
      PROVE  chain'[a].last < chain'[b].first
  <2>1. a \in 1 .. n
    BY <1>5, <1>9
  <2>2. CASE b \in 1 .. n
    BY <1>5, <1>9, <2>1, <2>2 DEF CoverInv
  <2>3. CASE b = n + 1
    BY <1>2, <1>4, <1>5, <1>7, <2>1, <2>3
  <2> QED
    BY <1>5, <2>2, <2>3
<1> QED
  BY <1>8, <1>9 DEF CoverInv

LEMMA CoverDropped ==
  ASSUME SentInv, ChainInv, CoverInv, Reorg
  PROVE  CoverInv'
<1> DEFINE n == Len(chain)
           m == n - 1
<1>1. /\ n \in Nat \ {0} /\ DOMAIN chain = 1 .. n /\ m \in 0 .. n
      /\ IsSeq(chain) /\ chain # <<>> /\ chain' = SubSeq(chain, 1, m)
  BY Lengths DEF Reorg, ChainInv
<1>2. /\ IsSeq(chain') /\ Len(chain') = m
      /\ \A b \in 1 .. m : chain'[b] = chain[b]
  <2> HIDE DEF m
  <2> QED
    BY <1>1, Parts
<1>3. DOMAIN chain' = 1 .. m /\ (m = 0 => chain' = <<>>) /\ (m # 0 => chain' # <<>>)
  BY <1>2, Lengths
<1>4. m # 0 => /\ chain[m].last \in Nat /\ Mined' = chain[m].last
               /\ chain[n].first = chain[m].last + 1
               /\ Mined = chain[n].last /\ chain[n].last \in Nat
               /\ chain[n].first <= chain[n].last
  <2> SUFFICES ASSUME m # 0
               PROVE  /\ chain[m].last \in Nat /\ Mined' = chain[m].last
                      /\ chain[n].first = chain[m].last + 1
                      /\ Mined = chain[n].last /\ chain[n].last \in Nat
                      /\ chain[n].first <= chain[n].last
    OBVIOUS
  <2>1. m \in DOMAIN chain /\ n \in DOMAIN chain /\ m \in 1 .. m /\ n # 1
    BY <1>1
  <2>2. BlockOk(sent, chain, m) /\ BlockOk(sent, chain, n)
    BY <2>1 DEF ChainInv
  <2>3. Mined' = chain[m].last /\ Mined = chain[n].last
    BY <1>1, <1>2, <1>3, <2>1 DEF Mined
  <2>4. chain[n].first = chain[m].last + 1
    BY <2>1, <2>2 DEF BlockOk
  <2> QED
    BY <2>2, <2>3, <2>4, SentFacts DEF BlockOk
<1>5. ASSUME NEW id \in 1 .. Mined'
      PROVE  \E b \in DOMAIN chain' : id \in chain'[b].first .. chain'[b].last
  <2>1. m # 0
    BY <1>3, <1>5 DEF Mined
  <2>2. id \in Nat /\ id <= chain[m].last /\ id \in 1 .. Mined
    BY <1>4, <2>1
  <2>3. PICK b \in DOMAIN chain : id \in chain[b].first .. chain[b].last
    BY <2>2 DEF CoverInv
  <2>4. b # n
    BY <1>4, <2>1, <2>2, <2>3
  <2>5. b \in 1 .. m
    BY <1>1, <2>4
  <2> QED
    BY <1>2, <1>3, <2>3, <2>5
<1>6. ASSUME NEW a \in DOMAIN chain', NEW b \in DOMAIN chain', a < b
      PROVE  chain'[a].last < chain'[b].first
  <2>1. a \in 1 .. m /\ b \in 1 .. m /\ a \in DOMAIN chain /\ b \in DOMAIN chain
    BY <1>1, <1>3
  <2> QED
    BY <1>2, <1>6, <2>1 DEF CoverInv
<1> QED
  BY <1>5, <1>6 DEF CoverInv

\* So each has its block.
Blocked ==
  \A id \in 1 .. Mined :
    /\ BlockOf(id) \in DOMAIN chain
    /\ id \in chain[BlockOf(id)].first .. chain[BlockOf(id)].last
    /\ \A b \in DOMAIN chain : id \in chain[b].first .. chain[b].last => b = BlockOf(id)

LEMMA BlockFound ==
  ASSUME CoverInv, ChainInv, SentInv
  PROVE  Blocked
<1> SUFFICES ASSUME NEW id \in 1 .. Mined
             PROVE  /\ BlockOf(id) \in DOMAIN chain
                    /\ id \in chain[BlockOf(id)].first .. chain[BlockOf(id)].last
                    /\ \A b \in DOMAIN chain :
                         id \in chain[b].first .. chain[b].last => b = BlockOf(id)
  BY DEF Blocked
<1> DEFINE Has(b) == id \in chain[b].first .. chain[b].last
<1>1. \E b \in DOMAIN chain : Has(b)
  BY DEF CoverInv
<1>2. BlockOf(id) = CHOOSE b \in DOMAIN chain : Has(b)
  BY DEF BlockOf
<1>3. BlockOf(id) \in DOMAIN chain /\ Has(BlockOf(id))
  BY <1>1, <1>2
<1>4. ASSUME NEW a \in DOMAIN chain, NEW b \in DOMAIN chain, Has(a), Has(b), a < b
      PROVE  FALSE
  <2>1. chain[a].last < chain[b].first
    BY <1>4 DEF CoverInv
  <2>2. /\ chain[a].last \in Nat /\ chain[b].first \in Nat
    BY SentFacts DEF ChainInv, BlockOk
  <2> QED
    BY <1>4, <2>1, <2>2
<1>5. \A a, b \in DOMAIN chain : a = b \/ a < b \/ b < a
  BY Lengths DEF ChainInv
<1> HIDE DEF Has
<1>6. \A b \in DOMAIN chain : Has(b) => b = BlockOf(id)
  BY <1>3, <1>4, <1>5
<1> QED
  BY <1>3, <1>6 DEF Has

LEMMA AnchoredSame ==
  ASSUME ServerInv, AnchoredInv, SentStays,
         UNCHANGED <<witnesses, leaves, tree, archive>>,
         host'.at = "done" => host.at = "done",
         host'.at = "posted" => Carries(handlers[Host])'
  PROVE  AnchoredInv'
<1>1. \A i \in DOMAIN archive :
        archive[i].tx \in DOMAIN sent' /\ sent'[archive[i].tx] = sent[archive[i].tx]
  BY DEF AnchoredInv, SentStays
<1> QED
  BY <1>1 DEF AnchoredInv

\* The transaction that a handler keeps still carries its root.
LEMMA StillCarries ==
  ASSUME ServerInv, SentStays, UNCHANGED tree, Carries(handlers[Host]),
         NEW h, handlers'[Host] = h,
         h.at \in Anchoring \/ Reports(h) =>
           /\ handlers[Host].at \in Anchoring \/ Reports(handlers[Host])
           /\ h.tx = handlers[Host].tx
  PROVE  Carries(handlers[Host])'
<1>1. handlers[Host].at \in Anchoring \/ Reports(handlers[Host]) =>
        handlers[Host].tx \in DOMAIN sent
  BY ClientsAssumption DEF ServerInv, SentInv, RepliesInv
<1> QED
  BY <1>1 DEF Carries, SentStays, Reports

LEMMA HostKeepsAnchored ==
  ASSUME ServerInv, MapInv, ArchiveInv, ChainInv, HostInv, AnchoredInv, HostNext
  PROVE  AnchoredInv'
<1>0. SentStays /\ SentInv /\ Host \in Clients
  BY ChainKept, ClientsAssumption DEF ServerInv
<1>1. CASE HostResets \/ HostWasReset \/ HostEndsEpoch \/ HostProvesNode
  <2>1. host'.at \notin {"done", "posted"} /\ UNCHANGED <<witnesses, archive>>
    <3>1. CASE HostResets
      BY <3>1, HostStays DEF HostResets, archiveVars
    <3>2. CASE HostWasReset
      BY <3>2 DEF HostWasReset, MapInv, archiveVars
    <3>3. CASE HostEndsEpoch
      BY <3>3, HostStays DEF HostEndsEpoch, StartTree
    <3>4. CASE HostProvesNode
      BY <3>4 DEF HostProvesNode, HostAt, ProveNode
    <3> QED
      BY <1>1, <3>1, <3>2, <3>3, <3>4
  <2>2. \A i \in DOMAIN archive :
          archive[i].tx \in DOMAIN sent' /\ sent'[archive[i].tx] = sent[archive[i].tx]
    BY <1>0 DEF AnchoredInv, SentStays
  <2> QED
    BY <2>1, <2>2 DEF AnchoredInv
<1>2. CASE HostProvesLeaf
  <2>1. PICK input : WitnessOk(input) /\ witnesses' = Append(witnesses, input)
    BY <1>2, WitnessProved
  <2>2. host'.at \notin {"done", "posted"} /\ UNCHANGED <<archive, sent>>
    BY <1>2 DEF HostProvesLeaf, HostAt, chainVars
  <2>3. \A i \in DOMAIN witnesses' : WitnessOk(witnesses'[i])
    <3>1. /\ DOMAIN witnesses' = 1 .. Len(witnesses) + 1 /\ Len(witnesses) \in Nat
          /\ DOMAIN witnesses = 1 .. Len(witnesses)
          /\ \A i \in 1 .. Len(witnesses) : witnesses'[i] = witnesses[i]
          /\ witnesses'[Len(witnesses) + 1] = input
      BY <2>1, Follows DEF MapInv
    <3>2. \A i \in DOMAIN witnesses' : i \in DOMAIN witnesses \/ i = Len(witnesses) + 1
      BY <3>1
    <3> QED
      BY <2>1, <3>1, <3>2 DEF AnchoredInv
  <2> QED
    BY <2>2, <2>3 DEF AnchoredInv
<1>3. CASE HostPosts
  <2> DEFINE values == tree.root[1]
             tx == VerifyAndAnchor(epochAnchor, host.epoch, values.old, values)
  <2>1. /\ host'.at = "posted" /\ UNCHANGED <<witnesses, leaves, tree, archive>>
        /\ AnchorRequest(Host, host.epoch, values.old, values)
    BY <1>3, HostStays DEF HostPosts, HostAt, archiveVars
  <2>2. tx.kind = "anchor" /\ tx.values = values
    BY DEF VerifyAndAnchor
  <2>3. CASE Send(tx) /\ Reply(Host, [at |-> "sent", tx |-> Len(sent) + 1])
    <3> HIDE DEF tx, values
    <3>1. sent'[Len(sent) + 1] = tx
      BY <1>0, <2>3, Sends
    <3>2. PICK h : h = [at |-> "sent", tx |-> Len(sent) + 1]
      OBVIOUS
    <3>3. handlers'[Host] = h /\ h.at = "sent" /\ h.tx = Len(sent) + 1
      BY <1>0, <2>3, <3>2, Replies
    <3>4. Carries(handlers[Host])'
      BY <2>1, <2>2, <3>1, <3>3 DEF Carries, values
    <3> QED
      BY <1>0, <2>1, <3>4, AnchoredSame
  <2>4. CASE Refuse(Host)
    <3>1. PICK h : h = [at |-> "replied", status |-> 422]
      OBVIOUS
    <3>2. handlers'[Host] = h /\ h.at = "replied" /\ h.status = 422
      BY <1>0, <2>4, <3>1, Replies DEF Refuse
    <3>3. Carries(handlers[Host])'
      BY <3>2 DEF Carries, Anchoring, Reports
    <3> QED
      BY <1>0, <2>1, <3>3, AnchoredSame
  <2> QED
    BY <2>1, <2>3, <2>4 DEF AnchorRequest
<1>4. CASE HostHasReply
  <2>1. /\ host.at = "posted" /\ NextEpoch
        /\ UNCHANGED <<witnesses, leaves, sent>>
    BY <1>4 DEF HostHasReply, HostAt, chainVars
  <2>2. leaves = <<>> /\ tree.root # <<>> /\ TreeOver(tree, LotValues)
    BY <2>1 DEF ArchiveInv
  <2>3. CASE ~ Acknowledged
    <3>1. host'.at = "failed" /\ UNCHANGED archive
      BY <2>1, <2>3, HostStays DEF NextEpoch
    <3> QED
      BY <2>1, <3>1 DEF AnchoredInv
  <2>4. CASE Acknowledged
    <3> DEFINE h == handlers[Host]
               new == [i \in DOMAIN tree.paths |-> [tx |-> h.tx, levels |-> tree.paths[i]]]
    <3>1. /\ h.status = 201 /\ EpochDone(h.anchor) /\ archive' = archive \o new
      BY <2>1, <2>4 DEF Acknowledged, NextEpoch
    <3>2. host'.at # "posted"
      BY <3>1, NextEpochInTurn
    <3>3. Reports(h) /\ h.tx \in DOMAIN sent
      BY <1>0, <1>4, <2>1, <3>1 DEF HostInv, Posted, HostHasReply, Reports, ServerInv, RepliesInv
    <3>4. sent[h.tx].kind = "anchor" /\ sent[h.tx].values = tree.root[1]
      BY <2>1, <3>3 DEF AnchoredInv, Carries
    <3>5. IsSeq(tree.paths) /\ \A l \in DOMAIN tree.paths : IsSeq(tree.paths[l])
      BY <2>2 DEF TreeOver, Leads
    <3> HIDE DEF h
    <3>6. /\ IsSeq(new) /\ DOMAIN new = DOMAIN tree.paths
          /\ \A i \in DOMAIN tree.paths : new[i].tx = h.tx /\ new[i].levels = tree.paths[i]
      <4>1. Len(tree.paths) \in Nat /\ DOMAIN tree.paths = 1 .. Len(tree.paths)
        BY <3>5, Lengths
      <4>2. PICK some : some = new
        OBVIOUS
      <4>3. some = [i \in 1 .. Len(tree.paths) |-> some[i]]
        BY <4>1, <4>2
      <4>4. IsSeq(some)
        BY <4>1, <4>3, Listed
      <4> QED
        BY <4>2, <4>4
    <3>7. \A i \in DOMAIN archive' :
            \/ i \in DOMAIN archive /\ archive'[i] = archive[i]
            \/ \E l \in DOMAIN tree.paths : archive'[i] = new[l]
      <4> HIDE DEF new
      <4>1. /\ IsSeq(archive') /\ Len(archive') = Len(archive) + Len(new)
            /\ \A i \in 1 .. Len(archive) : archive'[i] = archive[i]
            /\ \A i \in 1 .. Len(new) : archive'[Len(archive) + i] = new[i]
        BY <3>1, <3>6, Joined DEF ArchiveInv
      <4>2. /\ Len(archive) \in Nat /\ DOMAIN archive = 1 .. Len(archive)
            /\ Len(new) \in Nat /\ DOMAIN new = 1 .. Len(new)
            /\ DOMAIN archive' = 1 .. Len(archive')
        BY <3>6, <4>1, Lengths DEF ArchiveInv
      <4> SUFFICES ASSUME NEW i \in DOMAIN archive', i \notin DOMAIN archive
                   PROVE  \E l \in DOMAIN tree.paths : archive'[i] = new[l]
        BY <4>1, <4>2
      <4>3. PICK l : l = i - Len(archive)
        OBVIOUS
      <4>4. l \in 1 .. Len(new) /\ i = Len(archive) + l
        BY <4>1, <4>2, <4>3
      <4> QED
        BY <3>6, <4>1, <4>2, <4>4
    <3>8. \A l \in DOMAIN tree.paths :
            AuthenticatedRoot(tree.paths[l], LeafKey, AggregateKey) = tree.root[1]
      BY <2>2, PathsOfRoot
    <3>9. ASSUME NEW i \in DOMAIN archive'
          PROVE  /\ IsSeq(archive'[i].levels)
                 /\ archive'[i].tx \in DOMAIN sent /\ sent[archive'[i].tx].kind = "anchor"
                 /\ sent[archive'[i].tx].values
                      = AuthenticatedRoot(archive'[i].levels, LeafKey, AggregateKey)
      <4>1. CASE i \in DOMAIN archive /\ archive'[i] = archive[i]
        BY <4>1 DEF AnchoredInv
      <4>2. ASSUME NEW l \in DOMAIN tree.paths, archive'[i] = new[l]
            PROVE  /\ IsSeq(archive'[i].levels)
                   /\ archive'[i].tx \in DOMAIN sent /\ sent[archive'[i].tx].kind = "anchor"
                   /\ sent[archive'[i].tx].values
                        = AuthenticatedRoot(archive'[i].levels, LeafKey, AggregateKey)
        <5>1. archive'[i].tx = h.tx /\ archive'[i].levels = tree.paths[l]
          BY <3>6, <4>2
        <5> QED
          BY <3>3, <3>4, <3>5, <3>8, <5>1
      <4> QED
        BY <3>7, <4>1, <4>2
    <3> QED
      BY <2>1, <2>2, <3>2, <3>9 DEF AnchoredInv
  <2> QED
    BY <2>3, <2>4
<1> QED
  BY <1>1, <1>2, <1>3, <1>4 DEF HostNext

LEMMA EnvironmentKeepsAnchored ==
  ASSUME ServerInv, ChainInv, HostInv, AnchoredInv, EnvironmentNext
  PROVE  AnchoredInv'
<1>0. /\ SentStays /\ SentInv /\ Host \in Clients /\ HostInv
      /\ UNCHANGED <<witnesses, leaves, tree, archive, host>>
  BY ChainKept, ClientsAssumption
     DEF ServerInv, EnvironmentNext, OtherResets, OwnerRevokes, archiveVars
<1>1. ASSUME host.at = "posted"
      PROVE  Carries(handlers[Host])'
  <2>1. Carries(handlers[Host]) /\ handlers[Host].at \in Anchoring \cup {"replied"}
    BY <1>1 DEF AnchoredInv, HostInv, Posted
  <2>2. CASE handlers'[Host] = handlers[Host]
    BY <1>0, <2>1, <2>2, StillCarries
  <2>3. CASE OtherResets
    <3>1. PICK h : Reply(Other, h)
      BY <2>3 DEF OtherResets, ResetRequest, Reply
    <3> QED
      BY <1>0, <2>2, <3>1, Replies, ClientsAssumption
  <2>4. CASE ServerNext /\ handlers'[Host] # handlers[Host]
    <3>1. PICK client \in Clients :
            \/ VerifierDeployed(client) \/ AnchorDeployed(client)
            \/ ReceiptArrives(client) \/ RootAnswered(client)
            \/ RootArrives(client) \/ AddressArrives(client)
      BY <2>4 DEF ServerNext
    <3>2. \E h : Reply(client, h)
      BY <3>1 DEF VerifierDeployed, AnchorDeployed, ReceiptArrives, RootAnswered,
         RootArrives, AddressArrives, Refuse
    <3>3. client = Host
      BY <1>0, <2>4, <3>2, Replies
    <3>4. \/ ReceiptArrives(Host) \/ RootAnswered(Host)
          \/ RootArrives(Host) \/ AddressArrives(Host)
      BY <2>1, <3>1, <3>3 DEF VerifierDeployed, AnchorDeployed, Anchoring
    <3>5. handlers[Host].at \in Anchoring
      BY <3>4 DEF ReceiptArrives, RootAnswered, RootArrives, AddressArrives, Anchoring
    <3>6. PICK h : Reply(Host, h) /\ (h.at \in Anchoring \/ Reports(h) => h.tx = handlers[Host].tx)
      BY <3>4 DEF ReceiptArrives, RootAnswered, RootArrives, AddressArrives, Refuse, Reports,
         Anchoring
    <3>7. handlers'[Host] = h
      BY <1>0, <3>6, Replies
    <3> QED
      BY <1>0, <2>1, <3>5, <3>6, <3>7, StillCarries
  <2>5. CASE OwnerRevokes \/ ((MineBlock \/ Reorg) /\ UNCHANGED serverVars)
    BY <2>2, <2>5 DEF OwnerRevokes, serverVars
  <2> QED
    BY <2>2, <2>3, <2>4, <2>5 DEF EnvironmentNext
<1> QED
  BY <1>0, <1>1, AnchoredSame

\* What a view reads when it should verify and no block is replaced meanwhile.
Sound ==
  LET tx == view.bundle.authentication.tx
      block == chain[BlockOf(tx)]
  IN /\ tx \in 1 .. Mined /\ tx \in block.successes
     /\ sent[tx].kind = "anchor" /\ sent[tx].to = view.anchor
     /\ sent[tx].values = RootOf(view.bundle)
     /\ HasCode(block.state, view.anchor)
     /\ Contract(block.state, view.anchor).leafKey = TrustedLeafKey
     /\ Contract(block.state, view.anchor).aggregateKey = TrustedAggregateKey
     /\ Contract(block.state, view.anchor).verifier = view.verifier
     /\ ThePolicy \in block.state.allowed
     /\ view.at # "receipt" => view.block = BlockOf(tx) /\ view.hash = block.hash

ViewInv ==
  view.at # "none" =>
    /\ {"at", "block", "hash"} \subseteq DOMAIN view
    /\ view.reorgs \in Nat /\ view.reorgs <= reorgs
    /\ view.expected /\ reorgs = view.reorgs => view.at # "rejected" /\ Sound

\* Blocks follow, and the view does nothing.
LEMMA ViewWaits ==
  ASSUME SentInv, SentInv', ChainInv, ChainInv', CoverInv, CoverInv', ViewInv, SentStays,
         UNCHANGED view,
         \/ UNCHANGED <<chain, reorgs>>
         \/ /\ UNCHANGED reorgs /\ Mined \in Nat /\ Mined' \in Nat /\ Mined <= Mined'
            /\ \A b \in DOMAIN chain : b \in DOMAIN chain' /\ chain'[b] = chain[b]
         \/ reorgs' > reorgs
  PROVE  ViewInv'
<1>1. reorgs \in Nat /\ reorgs' \in Nat /\ Mined \in Nat /\ DOMAIN sent = 1 .. Len(sent)
      /\ Len(sent) \in Nat /\ Mined <= Len(sent)
  BY LatestOk, SentFacts DEF ChainInv
<1>2. Blocked /\ Blocked'
  <2>1. Blocked
    BY BlockFound
  <2>2. (CoverInv /\ ChainInv /\ SentInv => Blocked)'
    BY BlockFound, PTL
  <2> QED
    BY <2>1, <2>2
<1>3. CASE view.at = "none" \/ reorgs' > reorgs
  BY <1>1, <1>3 DEF ViewInv
<1>4. CASE /\ view.at # "none" /\ reorgs' = reorgs
           /\ Mined' \in Nat /\ Mined <= Mined'
           /\ \A b \in DOMAIN chain : b \in DOMAIN chain' /\ chain'[b] = chain[b]
  <2>1. ASSUME Sound
        PROVE  Sound'
    <3>1. PICK tx : tx = view.bundle.authentication.tx
      OBVIOUS
    <3>2. tx \in 1 .. Mined /\ tx \in 1 .. Mined' /\ tx \in DOMAIN sent
      <4>1. tx \in 1 .. Mined
        BY <2>1, <3>1 DEF Sound
      <4> QED
        BY ONLY <1>1, <1>4, <4>1
    <3>3. /\ BlockOf(tx) \in DOMAIN chain
          /\ tx \in chain[BlockOf(tx)].first .. chain[BlockOf(tx)].last
      BY <1>2, <3>2 DEF Blocked
    <3>4. PICK b : b = BlockOf(tx)
      OBVIOUS
    <3>5. b \in DOMAIN chain' /\ chain'[b] = chain[b] /\ tx \in chain'[b].first .. chain'[b].last
      BY <1>4, <3>3, <3>4
    <3>6. BlockOf(tx)' = b
      BY <1>2, <3>2, <3>5 DEF Blocked
    <3>7. sent'[tx] = sent[tx]
      BY <3>2 DEF SentStays
    <3>8. view.bundle.authentication.tx' = tx /\ RootOf(view.bundle)' = RootOf(view.bundle)
      BY <3>1 DEF RootOf
    <3>9. BlockOf(view.bundle.authentication.tx)' = b /\ BlockOf(view.bundle.authentication.tx) = b
      BY <3>1, <3>4, <3>6
    <3> QED
      BY <2>1, <3>1, <3>2, <3>5, <3>7, <3>8, <3>9 DEF Sound
  <2> QED
    BY <1>4, <2>1 DEF ViewInv
<1>5. CASE UNCHANGED <<chain, reorgs>>
  <2>1. Mined' = Mined
    BY <1>5 DEF Mined
  <2> QED
    BY <1>1, <1>3, <1>4, <1>5, <2>1
<1> QED
  BY <1>3, <1>4, <1>5

LEMMA ViewBegins ==
  ASSUME SentInv, ChainInv, CoverInv, KeysInv, ArchiveInv, AnchoredInv, StartView
  PROVE  ViewInv'
<1>1. PICK bundle \in Presented, anchor \in Deployed("anchor"), v \in Deployed("verifier") :
        /\ OpeningsOk(bundle, TrustedLeafKey, TrustedAggregateKey)
        /\ view' = [at |-> "receipt", bundle |-> bundle, anchor |-> anchor,
                    verifier |-> v, block |-> 0, hash |-> <<>>,
                    expected |-> Expected(bundle, anchor, v), reorgs |-> reorgs]
  BY DEF StartView
<1>2. UNCHANGED <<sent, chain, reorgs>> /\ reorgs \in Nat
  BY DEF StartView, runVars, chainVars, ChainInv
<1> DEFINE tx == bundle.authentication.tx
           levels == bundle.authentication.levels
           block == chain[BlockOf(tx)]
<1>3. ASSUME Expected(bundle, anchor, v)
      PROVE  /\ tx \in 1 .. Mined /\ tx \in block.successes
             /\ sent[tx].kind = "anchor" /\ sent[tx].to = anchor
             /\ sent[tx].values = RootOf(bundle)
             /\ HasCode(block.state, anchor)
             /\ Contract(block.state, anchor).leafKey = TrustedLeafKey
             /\ Contract(block.state, anchor).aggregateKey = TrustedAggregateKey
             /\ Contract(block.state, anchor).verifier = v
             /\ ThePolicy \in block.state.allowed
  <2>1. /\ tx \in 1 .. Mined /\ tx \in block.successes /\ sent[tx].to = anchor
        /\ sent[anchor].verifier = v /\ ThePolicy \in block.state.allowed
        /\ bundle \in Honest
    BY <1>3 DEF Expected, Receipt
  <2>2. PICK i \in DOMAIN archive : bundle.authentication = archive[i]
    BY <2>1 DEF Honest, BundlesOf, Bundle
  <2>3. /\ tx \in DOMAIN sent /\ sent[tx].kind = "anchor"
        /\ sent[tx].values = AuthenticatedRoot(levels, LeafKey, AggregateKey)
        /\ IsSeq(levels)
    BY <2>2 DEF AnchoredInv
  <2>4. tx \in 1 .. Mined
    BY <2>1
  <2>5. LeafKey = TrustedLeafKey /\ AggregateKey = TrustedAggregateKey
    <3>1. AuthenticationOk(bundle.leaf, levels, TrustedLeafKey, TrustedAggregateKey)
      BY <1>1 DEF OpeningsOk
    <3>2. AuthenticationOk(LeafPublicValues(witnesses[i]), levels, LeafKey, AggregateKey)
      BY <2>2 DEF ArchiveInv
    <3>3. 1 \in DOMAIN levels
      BY <2>3, <3>1, Lengths DEF AuthenticationOk
    <3> QED
      BY <3>1, <3>2, <3>3 DEF AuthenticationOk
  <2>6. sent[tx].values = RootOf(bundle)
    BY <2>3, <2>5 DEF RootOf
  <2>7. PICK b : b = BlockOf(tx)
    OBVIOUS
  <2>8. BlockOk(sent, chain, b)
    BY <2>4, <2>7, BlockFound DEF Blocked, ChainInv
  <2>9. HasCode(block.state, anchor)
    BY <2>1, <2>3, <2>7, <2>8 DEF BlockOk
  <2>10. PICK c : c = Contract(block.state, anchor)
    OBVIOUS
  <2>11. c \in block.state.contracts /\ c.address = anchor
    BY <2>9, <2>10 DEF HasCode, Contract
  <2>12. /\ c.leafKey = sent[anchor].leafKey /\ c.aggregateKey = sent[anchor].aggregateKey
         /\ c.verifier = sent[anchor].verifier
    BY <2>7, <2>8, <2>11 DEF BlockOk, StateOk
  <2>13. /\ sent[anchor].leafKey = TrustedLeafKey
         /\ sent[anchor].aggregateKey = TrustedAggregateKey
    BY DEF Deployed, KeysInv
  <2> QED
    BY <2>1, <2>3, <2>4, <2>6, <2>9, <2>10, <2>12, <2>13
<1>4. /\ view'.at = "receipt" /\ view'.bundle = bundle /\ view'.anchor = anchor
      /\ view'.verifier = v /\ view'.reorgs = reorgs
      /\ {"at", "block", "hash"} \subseteq DOMAIN view'
  BY <1>1
<1>5. view'.expected => Expected(bundle, anchor, v)
  BY <1>1
<1>6. Mined' = Mined /\ BlockOf(tx)' = BlockOf(tx) /\ RootOf(bundle)' = RootOf(bundle)
  BY <1>2 DEF Mined, BlockOf, RootOf
<1>7. Expected(bundle, anchor, v) => Sound'
  BY <1>2, <1>3, <1>4, <1>6 DEF Sound, RootOf, BlockOf
<1> QED
  BY <1>2, <1>4, <1>5, <1>7 DEF ViewInv

\* Each read finds what it should.
LEMMA ViewReads ==
  ASSUME SentInv, ChainInv, CoverInv, ViewInv,
         ReadReceipt \/ ReadBlock \/ ReadTx \/ ReadAnchor \/ ReadPolicy
  PROVE  ViewInv'
<1>1. /\ UNCHANGED <<sent, chain, reorgs>>
      /\ view.at \in {"receipt", "block", "tx", "anchor", "policy"}
  BY DEF ReadReceipt, ReadBlock, ReadTx, ReadAnchor, ReadPolicy, runVars, chainVars
<1> DEFINE tx == view.bundle.authentication.tx
<1>2. Mined' = Mined /\ \A id : BlockOf(id)' = BlockOf(id)
  BY <1>1 DEF Mined, BlockOf
<1>3. ASSUME Sound
      PROVE  /\ BlockOf(tx) \in DOMAIN chain /\ BlockOf(tx) <= Len(chain)
             /\ tx \in 1 .. Mined
  <2>1. tx \in 1 .. Mined /\ Blocked /\ Mined \in Nat
    <3>1. tx \in 1 .. Mined
      BY <1>3 DEF Sound
    <3>2. Mined \in Nat
      BY LatestOk, SentFacts
    <3> QED
      BY <3>1, <3>2, BlockFound
  <2>2. DOMAIN chain = 1 .. Len(chain) /\ Len(chain) \in Nat
    BY Lengths DEF ChainInv
  <2> QED
    BY <2>1, <2>2 DEF Blocked
<1>4. ASSUME NEW at, at \in {"block", "tx", "anchor", "policy", "accepted", "rejected"},
             NEW block, NEW hash,
             view' = [view EXCEPT !.at = at, !.block = block, !.hash = hash],
             Sound => at # "rejected" /\ block = BlockOf(tx) /\ hash = chain[BlockOf(tx)].hash
      PROVE  ViewInv'
  <2>1. {"at", "block", "hash"} \subseteq DOMAIN view
    BY <1>1 DEF ViewInv
  <2>2. /\ view'.at = at /\ view'.block = block /\ view'.hash = hash
        /\ view'.bundle = view.bundle /\ view'.anchor = view.anchor
        /\ view'.verifier = view.verifier /\ view'.expected = view.expected
        /\ view'.reorgs = view.reorgs /\ DOMAIN view' = DOMAIN view
    BY <1>4, <2>1
  <2>3. Sound => Sound'
    BY <1>1, <1>2, <1>4, <2>2 DEF Sound, RootOf, BlockOf
  <2> QED
    BY <1>1, <1>4, <2>2, <2>3 DEF ViewInv
<1>5. ASSUME view.at # "receipt", NEW ok \in BOOLEAN, NEW next,
             next \in {"block", "tx", "anchor", "policy", "accepted"},
             GoesOn(ok, next), Sound => ok
      PROVE  ViewInv'
  <2>1. PICK at : at = IF ok THEN next ELSE "rejected"
    OBVIOUS
  <2>2. {"at", "block", "hash"} \subseteq DOMAIN view
    BY <1>1 DEF ViewInv
  <2>3. view' = [view EXCEPT !.at = at, !.block = view.block, !.hash = view.hash]
    BY <1>5, <2>1, <2>2 DEF GoesOn
  <2>4. Sound => at # "rejected" /\ view.block = BlockOf(tx) /\ view.hash = chain[BlockOf(tx)].hash
    BY <1>5, <2>1 DEF Sound
  <2> QED
    BY <1>4, <1>5, <2>1, <2>3, <2>4
<1>6. CASE ReadReceipt
  <2> DEFINE ok == /\ tx \in 1 .. Mined /\ Receipt(tx).status /\ Receipt(tx).to = view.anchor
  <2>1. Sound => ok
    BY <1>3 DEF Sound, Receipt
  <2>2. Receipt(tx).block = BlockOf(tx) /\ Receipt(tx).hash = chain[BlockOf(tx)].hash
    BY DEF Receipt
  <2>3. CASE ok
    <3>1. view' = [view EXCEPT !.at = "block", !.block = BlockOf(tx),
                               !.hash = chain[BlockOf(tx)].hash]
      BY <1>6, <2>2, <2>3 DEF ReadReceipt
    <3> QED
      BY <1>4, <3>1
  <2>4. CASE ~ ok
    <3>1. view' = [view EXCEPT !.at = "rejected"]
      BY <1>6, <2>4 DEF ReadReceipt, GoesOn
    <3>2. {"at", "block", "hash"} \subseteq DOMAIN view
      BY <1>1 DEF ViewInv
    <3>3. view' = [view EXCEPT !.at = "rejected", !.block = view.block, !.hash = view.hash]
      BY <3>1, <3>2
    <3> QED
      BY <1>4, <2>1, <2>4, <3>3
  <2> QED
    BY <2>3, <2>4
<1>7. CASE ReadBlock
  <2> DEFINE ok == view.block <= Len(chain) /\ chain[view.block].hash = view.hash
  <2>1. view.at = "block" /\ GoesOn(ok, "tx")
    BY <1>7 DEF ReadBlock
  <2>2. Sound => ok
    BY <1>3, <2>1 DEF Sound
  <2>3. ok \in BOOLEAN
    OBVIOUS
  <2> HIDE DEF ok
  <2> QED
    BY <1>5, <2>1, <2>2, <2>3
<1>8. CASE ReadTx
  <2> DEFINE ok == /\ tx \in 1 .. Mined
                   /\ Receipt(tx).hash = view.hash
                   /\ sent[tx].to = view.anchor
                   /\ ValuesAreRoot(tx)
  <2>1. view.at = "tx" /\ GoesOn(ok, "anchor")
    BY <1>8 DEF ReadTx
  <2>2. Sound => ok
    BY <1>3, <2>1 DEF Sound, Receipt, ValuesAreRoot
  <2>3. ok \in BOOLEAN
    OBVIOUS
  <2> HIDE DEF ok
  <2> QED
    BY <1>5, <2>1, <2>2, <2>3
<1>9. CASE ReadAnchor
  <2> DEFINE state == StateAt(view.block)
             ok == /\ HasCode(state, view.anchor)
                   /\ Contract(state, view.anchor).leafKey = TrustedLeafKey
                   /\ Contract(state, view.anchor).aggregateKey = TrustedAggregateKey
                   /\ Contract(state, view.anchor).verifier = view.verifier
  <2>1. view.at = "anchor" /\ GoesOn(ok, "policy")
    BY <1>9 DEF ReadAnchor
  <2>2. Sound => ok
    BY <1>3, <2>1 DEF Sound, StateAt
  <2>3. ok \in BOOLEAN
    OBVIOUS
  <2> HIDE DEF ok
  <2> QED
    BY <1>5, <2>1, <2>2, <2>3
<1>10. CASE ReadPolicy
  <2>1. view.at = "policy" /\ GoesOn(PolicyAllowed, "accepted")
    BY <1>10 DEF ReadPolicy
  <2>2. Sound => PolicyAllowed
    BY <1>3, <2>1 DEF Sound, StateAt, PolicyAllowed
  <2>3. PolicyAllowed \in BOOLEAN
    BY DEF PolicyAllowed
  <2> QED
    BY <1>5, <2>1, <2>2, <2>3
<1> QED
  BY <1>6, <1>7, <1>8, <1>9, <1>10

\* The inductive invariant.
ViewsInv == KeysInv /\ CoverInv /\ AnchoredInv /\ ViewInv

LEMMA ViewsStart ==
  ASSUME Init
  PROVE  ViewsInv
<1>1. /\ sent = <<>> /\ chain = <<>> /\ witnesses = <<>> /\ archive = <<>>
      /\ host.at = "start" /\ view.at = "none"
  BY DEF Init, RunInit, ArchiveInit, ChainInit, NoView
<1>2. DOMAIN <<>> = {} /\ Mined = 0
  BY <1>1 DEF Mined
<1> QED
  BY <1>1, <1>2 DEF ViewsInv, KeysInv, CoverInv, AnchoredInv, ViewInv

\* A step is a block's, or leaves the blocks alone.
LEMMA ChainSteps ==
  ASSUME HostNext \/ EnvironmentNext
  PROVE  MineBlock \/ Reorg \/ UNCHANGED <<chain, reorgs>>
<1>1. CASE HostNext
  BY <1>1 DEF HostNext, HostResets, ResetRequest, HostWasReset, HostProvesLeaf,
     HostEndsEpoch, HostProvesNode, HostPosts, AnchorRequest, HostHasReply, chainVars
<1>2. CASE ServerNext
  BY <1>2 DEF ServerNext, VerifierDeployed, AnchorDeployed, ReceiptArrives, RootAnswered,
     RootArrives, AddressArrives, chainVars
<1>3. CASE OtherResets \/ OwnerRevokes
  BY <1>3 DEF OtherResets, ResetRequest, OwnerRevokes
<1> QED
  BY <1>1, <1>2, <1>3 DEF EnvironmentNext

LEMMA ViewsKept ==
  ASSUME ServerInv, ServerInv', MapInv, ArchiveInv, StepInv, StepInv', ViewsInv, [Next]_vars
  PROVE  ViewsInv'
<1>0. /\ SentInv /\ SentInv' /\ ChainInv /\ ChainInv' /\ HostInv
      /\ KeysInv /\ CoverInv /\ AnchoredInv /\ ViewInv
  BY DEF ServerInv, StepInv, ViewsInv
<1>1. CASE UNCHANGED runVars
  <2>1. UNCHANGED <<sent, chain, reorgs, witnesses, leaves, tree, archive, host, handlers>>
    BY <1>1 DEF runVars, archiveVars, chainVars, serverVars
  <2>2. KeysInv' /\ CoverInv' /\ AnchoredInv'
    BY <1>0, <2>1 DEF KeysInv, CoverInv, Mined, AnchoredInv, Carries
  <2>3. CASE UNCHANGED view
    <3>1. SentStays
      BY <1>0, <2>1, SentUnchanged
    <3> QED
      BY <1>0, <2>1, <2>2, <2>3, <3>1, ViewWaits DEF ViewsInv
  <2>4. CASE ViewNext
    <3>1. ViewInv'
      BY <1>0, <2>4, ViewBegins, ViewReads DEF ViewNext
    <3> QED
      BY <2>2, <3>1 DEF ViewsInv
  <2>5. CASE HostNext /\ UNCHANGED view
    BY <2>3, <2>5
  <2>6. CASE EnvironmentNext /\ UNCHANGED view
    BY <2>3, <2>6
  <2> QED
    BY <2>3, <2>4, <2>5, <2>6 DEF Next, vars
<1>2. CASE (HostNext \/ EnvironmentNext) /\ UNCHANGED view
  <2>1. SentStays /\ KeysInv'
    BY <1>0, <1>2, ChainKept, KeysKept
  <2>2. AnchoredInv'
    BY <1>0, <1>2, HostKeepsAnchored, EnvironmentKeepsAnchored
  <2>3. CASE MineBlock
    <3>1. UNCHANGED reorgs
      BY <2>3 DEF MineBlock
    <3> QED
      BY <1>0, <1>2, <2>1, <2>2, <2>3, <3>1, CoverMined, BlockMined, ViewWaits DEF ViewsInv
  <2>4. CASE Reorg
    BY <1>0, <1>2, <2>1, <2>2, <2>4, CoverDropped, BlockDropped, ViewWaits DEF ViewsInv
  <2>5. CASE UNCHANGED <<chain, reorgs>>
    <3>1. CoverInv'
      BY <1>0, <2>5 DEF CoverInv, Mined
    <3> QED
      BY <1>0, <1>2, <2>1, <2>2, <2>5, <3>1, ViewWaits DEF ViewsInv
  <2> QED
    BY <1>2, <2>3, <2>4, <2>5, ChainSteps
<1>3. CASE ViewNext
  <2>1. UNCHANGED runVars
    BY <1>3 DEF ViewNext, StartView, ReadReceipt, ReadBlock, ReadTx, ReadAnchor, ReadPolicy
  <2> QED
    BY <1>1, <2>1
<1> QED
  BY <1>1, <1>2, <1>3 DEF Next, vars

\* What is archived is anchored, and a view that should verify reads what it should.
THEOREM ViewsInductive == Spec => []ViewsInv
<1>1. Init => ViewsInv
  BY ViewsStart
<1>2. ServerInv /\ ServerInv' /\ MapInv /\ ArchiveInv /\ StepInv /\ StepInv' /\ ViewsInv
        /\ [Next]_vars => ViewsInv'
  BY ViewsKept
<1> QED
  BY <1>1, <1>2, Inductive, MapInductive, ArchiveInductive, StepInductive, PTL DEF Spec

\* view-open makes a bundle of every archived lot and preset, and view-verify
\* accepts it if its transaction is mined in the trusted contract, at whatever
\* blocks the chain stands when it reads, as long as none is replaced meanwhile.
THEOREM HonestPass == Spec => []HonestAccepted
<1>1. MapInv /\ ArchiveInv /\ ViewsInv => HonestAccepted
  <2> SUFFICES ASSUME MapInv, ArchiveInv, ViewsInv
               PROVE  HonestAccepted
    OBVIOUS
  <2>0. AnchoredInv /\ ViewInv
    BY DEF ViewsInv
  <2>1. view.at = "rejected" /\ view.expected => reorgs # view.reorgs
    BY <2>0 DEF ViewInv
  <2>2. ASSUME host.at = "done", NEW i \in DOMAIN witnesses, NEW fields \in Presets,
               FieldsOk(fields, Len(witnesses[i].events))
        PROVE  OpenOk(witnesses[i], witnesses[i].lot,
                      Selection(fields, Len(witnesses[i].events)), archive[i])
    <3>1. i \in DOMAIN archive
      <4>1. tree.paths = <<>> /\ leaves = <<>>
        BY <2>0, <2>2 DEF ArchiveInv, AnchoredInv, NoTree
      <4>2. Len(tree.paths) = 0 /\ Len(leaves) = 0
        BY <4>1
      <4>3. Len(archive) + Len(leaves) + Len(tree.paths) = Len(witnesses)
        BY <2>2 DEF ArchiveInv
      <4>4. /\ Len(archive) \in Nat /\ DOMAIN archive = 1 .. Len(archive)
            /\ Len(witnesses) \in Nat /\ DOMAIN witnesses = 1 .. Len(witnesses)
        BY Lengths DEF ArchiveInv, MapInv
      <4> QED
        BY <2>2, <4>2, <4>3, <4>4
    <3>2. PICK input : input = witnesses[i]
      OBVIOUS
    <3>3. PICK authentication : authentication = archive[i]
      OBVIOUS
    <3>4. /\ WitnessOk(input) /\ IsSeq(authentication.levels)
          /\ AuthenticationOk(LeafPublicValues(input), authentication.levels,
                              LeafKey, AggregateKey)
      BY <2>0, <3>1, <3>2, <3>3 DEF AnchoredInv, ArchiveInv
    <3>5. fields.ranges \subseteq Nat \X Nat
      BY PresetsAssumption
    <3>6. FieldsOk(fields, Len(input.events))
      BY <2>2, <3>2
    <3>7. OpenOk(input, input.lot, Selection(fields, Len(input.events)), authentication)
      BY <3>4, <3>5, <3>6, ViewOpens
    <3> QED
      BY <3>2, <3>3, <3>7
  <2> QED
    BY <2>1, <2>2 DEF HonestAccepted
<1> QED
  BY <1>1, MapInductive, ArchiveInductive, ViewsInductive, PTL

-----------------------------------------------------------------------------
(* What is opened is what was proved: digests are followed downwards.        *)

\* A path that leads to the top of a tree begins at one of its leaves.
LEMMA FoldedFrom ==
  ASSUME NEW tag, NEW depth \in Nat, NEW below, NEW leaf, NEW index, NEW path,
         Len(path) = depth,
         Folded(tag, leaf, index, path) = Levels(tag, depth, below)[depth][0]
  PROVE  \E p \in Nat : leaf = below[p]
<1> DEFINE levels == Levels(tag, depth, below)
           left(k) == Above(index)[k - 1] % 2 = 0
<1>1. PICK up : /\ Folded(tag, leaf, index, path) = up[Len(path)]
                /\ FoldsUp(up, tag, leaf, index, path)
  BY FoldedDef
<1>2. /\ up[0] = leaf /\ up[depth] = levels[depth][0]
      /\ \A k \in 1 .. depth : up[k] = IF left(k) THEN Parent(tag, up[k - 1], path[k])
                                                 ELSE Parent(tag, path[k], up[k - 1])
  BY <1>1 DEF FoldsUp
<1>3. \A k \in Nat : k + 1 <= depth => Joins(tag, levels[k], levels[k + 1])
  BY LevelAbove
<1>4. levels[0] = below
  BY LevelsDef
<1> HIDE DEF levels, left
<1> DEFINE OnTree(k) == \E p \in Nat : up[k] = levels[k][p]
           T == {n \in Nat : n <= depth => OnTree(depth - n)}
<1>5. 0 \in T
  BY <1>2
<1>6. ASSUME NEW k \in Nat, k + 1 <= depth, OnTree(k + 1)
      PROVE  OnTree(k)
  <2>1. PICK p \in Nat : up[k + 1] = levels[k + 1][p]
    BY <1>6
  <2>2. levels[k + 1][p] = Parent(tag, levels[k][2 * p], levels[k][2 * p + 1])
    BY <1>3, <1>6 DEF Joins
  <2>3. PICK n \in 1 .. depth : n = k + 1 /\ n - 1 = k
    BY <1>6
  <2>4. up[k + 1] = Parent(tag, up[k], path[k + 1]) \/ up[k + 1] = Parent(tag, path[k + 1], up[k])
    BY <1>2, <2>3
  <2>5. up[k] = levels[k][2 * p] \/ up[k] = levels[k][2 * p + 1]
    BY ONLY <2>1, <2>2, <2>4 DEF Parent
  <2>6. 2 * p \in Nat /\ 2 * p + 1 \in Nat
    OBVIOUS
  <2> QED
    BY <2>5, <2>6
<1>7. ASSUME NEW n \in T
      PROVE  n + 1 \in T
  <2>1. ASSUME n + 1 <= depth
        PROVE  OnTree(depth - (n + 1))
    <3>1. PICK k \in Nat : k = depth - (n + 1) /\ k + 1 = depth - n
      BY <2>1
    <3>2. OnTree(k + 1) /\ k + 1 <= depth
      BY <2>1, <3>1
    <3> HIDE DEF OnTree
    <3> QED
      BY <1>6, <3>1, <3>2
  <2> HIDE DEF OnTree
  <2> QED
    BY <2>1
<1>8. depth \in T
  <2>1. T \in SUBSET Nat
    OBVIOUS
  <2> HIDE DEF T, OnTree
  <2>2. T = Nat
    BY ONLY <1>5, <1>7, <2>1, Induction
  <2> QED
    BY <2>2
<1>9. OnTree(0)
  BY <1>8
<1> QED
  BY <1>2, <1>4, <1>9

\* An event that opens a batch is the one of that number in it.
LEMMA EventFrom ==
  ASSUME NEW events, NEW nonce, Len(events) \in MinLotEvents .. MaxLotEvents,
         NEW count, NEW index, NEW salt, NEW bytes, NEW path,
         VerifyEventOpening(count, index, salt, bytes, path,
                            EventBatchCommitment(events, nonce))
  PROVE  index \in Nat /\ index < Len(events) /\ bytes = events[index + 1].bytes
<1> DEFINE n == Len(events)
           depth == Depth(n)
           below == [i \in Nat |-> IF i < n
                                     THEN EventLeaf(i, EventSalt(nonce, i), events[i + 1].bytes)
                                     ELSE EventPadding(i)]
<1>1. n \in Nat \ {0} /\ depth \in Nat
  BY TreeAssumption, DepthOk
<1>2. EventBatchCommitment(events, nonce)
        = BatchCommitment(n, Levels(EventNode, depth, below)[depth][0])
  BY DEF EventBatchCommitment, EventLevels
<1>3. \A i \in Nat : below[i] = IF i < n
                       THEN EventLeaf(i, EventSalt(nonce, i), events[i + 1].bytes)
                       ELSE EventPadding(i)
  OBVIOUS
<1> HIDE DEF n, depth, below
<1>4. /\ Len(path) = Depth(count)
      /\ BatchCommitment(count, Folded(EventNode, EventLeaf(index, salt, bytes), index, path))
           = BatchCommitment(n, Levels(EventNode, depth, below)[depth][0])
  BY <1>2 DEF VerifyEventOpening
<1>5. /\ count = n
      /\ Folded(EventNode, EventLeaf(index, salt, bytes), index, path)
           = Levels(EventNode, depth, below)[depth][0]
  BY <1>4 DEF BatchCommitment
<1>6. PICK p \in Nat : EventLeaf(index, salt, bytes) = below[p]
  BY <1>1, <1>4, <1>5, FoldedFrom DEF depth
<1>7. EventLeaf(index, salt, bytes) # EventPadding(p)
  BY DEF EventLeaf, EventPadding
<1>8. p < n /\ EventLeaf(index, salt, bytes)
                 = EventLeaf(p, EventSalt(nonce, p), events[p + 1].bytes)
  BY <1>3, <1>6, <1>7
<1>9. index = p /\ bytes = events[p + 1].bytes
  BY <1>8 DEF EventLeaf
<1> QED
  BY <1>8, <1>9 DEF n

\* A credential that leads to the issuer's root is one of its credentials.
LEMMA CredentialFrom ==
  ASSUME NEW slot, NEW event, NEW owner, NEW keyCommitment, NEW path,
         Len(path) = CertificateDepth,
         CredentialRoot(slot, event, owner, keyCommitment, path) = CertificateRoot
  PROVE  /\ slot \in 0 .. Len(Credentials) - 1
         /\ LET c == Credentials[slot + 1]
            IN /\ c.event.lot = event.lot /\ c.event.actor = event.actor
               /\ c.event.certificate = event.certificate /\ c.event.role = event.role
               /\ c.owner = owner /\ c.keyCommitment = keyCommitment
<1> DEFINE leaf == CertificateLeaf(slot, event, owner, keyCommitment)
           known(i) == CertificateLeaf(i, Credentials[i + 1].event, Credentials[i + 1].owner,
                                       Credentials[i + 1].keyCommitment)
           below == [i \in Nat |-> IF i < Len(Credentials) THEN known(i)
                                                          ELSE <<"no credential", i>>]
<1>1. CertificateRoot
        = Levels(CertificateNode, CertificateDepth, below)[CertificateDepth][0]
  BY ONLY DEF CertificateRoot, CertificateLevels, below, known
<1>2. \A i \in Nat : below[i] = IF i < Len(Credentials) THEN known(i)
                                                        ELSE <<"no credential", i>>
  BY ONLY DEF below
<1> HIDE DEF below
<1>3. PICK p \in Nat : leaf = below[p]
  BY <1>1, TreeAssumption, FoldedFrom DEF CredentialRoot
<1>4. leaf # <<"no credential", p>>
  BY DEF CertificateLeaf
<1>5. p < Len(Credentials) /\ leaf = known(p)
  <2>1. below[p] = IF p < Len(Credentials) THEN known(p) ELSE <<"no credential", p>>
    BY ONLY <1>2, p \in Nat
  <2> QED
    BY ONLY <1>3, <1>4, <2>1
<1>6. /\ slot = p
      /\ LET c == Credentials[p + 1]
         IN /\ c.event.lot = event.lot /\ c.event.actor = event.actor
            /\ c.event.certificate = event.certificate /\ c.event.role = event.role
            /\ c.owner = owner /\ c.keyCommitment = keyCommitment
  BY <1>5 DEF CertificateLeaf
<1>7. p \in 0 .. Len(Credentials) - 1
  BY <1>5, EpochTreeAssumption
<1> QED
  BY <1>6, <1>7

\* The values of a leaf that the nodes above it commit to are those of the witness.
SameLeaf(leaf, input) ==
  \A word \in DOMAIN LeafPublicValues(input) \ {"nullifier"} :
    leaf[word] = LeafPublicValues(input)[word]

\* What opens under such a leaf is true of the witness.
LEMMA BundleTrue ==
  ASSUME NEW input, WitnessOk(input), NEW bundle, Decodes(bundle),
         OpeningsOk(bundle, TrustedLeafKey, TrustedAggregateKey),
         SameLeaf(bundle.leaf, input)
  PROVE  TrueOf(bundle, input)
<1> DEFINE leaf == bundle.leaf
           events == bundle.events
<1>1. /\ Len(input.events) \in MinLotEvents .. MaxLotEvents
      /\ DOMAIN input.events = 1 .. Len(input.events) /\ Len(input.events) \in Nat \ {0}
      /\ input.certificateRoot = CertificateRoot /\ LeafEvaluates(input)
  BY TreeAssumption DEF WitnessOk, LeafEvaluates
<1>2. /\ leaf.epoch = input.epoch /\ leaf.count = Len(input.events)
      /\ leaf.batch = EventBatchCommitment(input.events, input.batchNonce)
      /\ leaf.certificateRoot = input.certificateRoot
      /\ leaf.polygonCommitment = PolygonCommitment(input.polygon, input.polygonNonce)
  BY DEF SameLeaf, LeafPublicValues
<1>3. \A i \in DOMAIN input.events :
        LET event == input.events[i]
        IN /\ event.bytes.lot = input.lot
           /\ Len(event.certificatePath) = CertificateDepth
           /\ CredentialRoot(event.credentialIndex, event.bytes, input.owner,
                             KeyCommitment(input.key), event.certificatePath)
                = CertificateRoot
  BY <1>1 DEF LeafEvaluates, WitnessOk
<1>4. ASSUME NEW i \in DOMAIN events
      PROVE  /\ events[i].index \in Nat /\ events[i].index < Len(input.events)
             /\ events[i].index + 1 \in DOMAIN input.events
             /\ events[i].bytes = input.events[events[i].index + 1].bytes
             /\ bundle.lot = input.lot
  <2> DEFINE opening == events[i]
  <2>1. /\ VerifyEventOpening(leaf.count, opening.index, opening.salt, opening.bytes,
                              opening.path, leaf.batch)
        /\ opening.bytes.lot = bundle.lot
    BY DEF OpeningsOk, EventOpeningOk
  <2> HIDE DEF opening, leaf
  <2>2. /\ opening.index \in Nat /\ opening.index < Len(input.events)
        /\ opening.bytes = input.events[opening.index + 1].bytes
    BY <1>1, <1>2, <2>1, EventFrom
  <2>3. opening.index + 1 \in DOMAIN input.events
    BY <1>1, <2>2
  <2>4. bundle.lot = input.lot
    BY <1>3, <2>1, <2>2, <2>3
  <2> QED
    BY <2>2, <2>3, <2>4 DEF opening
<1>5. bundle.lot = input.lot
  <2>1. 1 \in DOMAIN events
    <3>1. Len(events) \in 1 .. MaxLotEvents /\ DOMAIN events = 1 .. Len(events)
      BY DEF OpeningsOk, Decodes, IsList
    <3>2. MaxLotEvents \in Nat
      BY TreeAssumption
    <3> QED
      BY <3>1, <3>2
  <2> QED
    BY <1>4, <2>1
<1>6. \A i \in DOMAIN bundle.polygon : bundle.polygon[i].vertices = input.polygon
  BY <1>2 DEF OpeningsOk, PolygonCommitment
<1>7. ASSUME NEW c \in DOMAIN bundle.credential
      PROVE  LET credential == bundle.credential[c]
                 event == input.events[credential.eventIndex + 1]
             IN /\ credential.owner = input.owner
                /\ credential.actor = event.bytes.actor
                /\ credential.slot \in SlotsFor(event.bytes, input.owner, input.key)
  <2> DEFINE credential == bundle.credential[c]
  <2>1. PICK i \in DOMAIN events :
          LET event == events[i].bytes
          IN /\ events[i].index = credential.eventIndex
             /\ credential.actor = event.actor
             /\ Len(credential.path) = CertificateDepth
             /\ CredentialRoot(credential.slot, event, credential.owner,
                               credential.keyCommitment, credential.path)
                  = leaf.certificateRoot
    BY DEF OpeningsOk, CredentialOk
  <2>2. PICK witness : witness = input.events[credential.eventIndex + 1]
    OBVIOUS
  <2>3. /\ events[i].bytes = witness.bytes
        /\ Len(witness.certificatePath) = CertificateDepth
        /\ CredentialRoot(witness.credentialIndex, witness.bytes, input.owner,
                          KeyCommitment(input.key), witness.certificatePath)
             = CertificateRoot
    BY <1>3, <1>4, <2>1, <2>2
  <2> HIDE DEF credential, leaf, events
  <2>4. /\ witness.credentialIndex \in 0 .. Len(Credentials) - 1
        /\ LET own == Credentials[witness.credentialIndex + 1]
           IN /\ own.event.lot = witness.bytes.lot
              /\ own.owner = input.owner /\ own.keyCommitment = KeyCommitment(input.key)
    BY <2>3, CredentialFrom
  <2>5. /\ credential.slot \in 0 .. Len(Credentials) - 1
        /\ LET shown == Credentials[credential.slot + 1]
           IN /\ shown.event.lot = witness.bytes.lot
              /\ shown.event.actor = witness.bytes.actor
              /\ shown.event.certificate = witness.bytes.certificate
              /\ shown.event.role = witness.bytes.role
              /\ shown.owner = credential.owner
              /\ shown.keyCommitment = credential.keyCommitment
    <3>1. /\ Len(credential.path) = CertificateDepth
          /\ CredentialRoot(credential.slot, witness.bytes, credential.owner,
                            credential.keyCommitment, credential.path) = CertificateRoot
      BY <1>1, <1>2, <2>1, <2>3
    <3> QED
      BY <3>1, CredentialFrom
  <2>6. /\ credential.owner = input.owner
        /\ credential.keyCommitment = KeyCommitment(input.key)
    <3>1. /\ witness.credentialIndex + 1 \in 1 .. Len(Credentials)
          /\ credential.slot + 1 \in 1 .. Len(Credentials)
      <4>1. Len(Credentials) \in Nat
        BY ONLY EpochTreeAssumption DEF EpochTreeAssumption
      <4> QED
        BY ONLY <2>4, <2>5, <4>1
    <3> QED
      BY ONLY <2>4, <2>5, <3>1, OwnershipAssumption
  <2>7. credential.slot \in SlotsFor(witness.bytes, input.owner, input.key)
    BY <2>5, <2>6 DEF SlotsFor
  <2> QED
    BY <2>1, <2>2, <2>3, <2>6, <2>7 DEF credential
<1> QED
  BY <1>4, <1>5, <1>6, <1>7 DEF TrueOf, SameLeaf

-----------------------------------------------------------------------------
(* What is anchored was proved: each node is made of nodes made before it,    *)
(* down to the leaves of witnesses.                                          *)

Grounded(n, known) ==
  \/ \E i \in DOMAIN witnesses : n = Child("leaf", LeafPublicValues(witnesses[i]))
  \/ \E c : /\ EvaluateOk(LeafKey, AggregateKey, c)
            /\ \A i \in DOMAIN c : c[i] \in known
            /\ n = Child("aggregate", EpochPublicValues(LeafKey, AggregateKey, c))

Proved(known) == \A n \in known : Grounded(n, known)

Made(n) == \E known : Proved(known) /\ n \in known

\* The leaf of a witness is made.
LEMMA LeafMade ==
  ASSUME NEW i \in DOMAIN witnesses
  PROVE  Made(Child("leaf", LeafPublicValues(witnesses[i])))
<1> DEFINE n == Child("leaf", LeafPublicValues(witnesses[i]))
           known == {n}
<1>1. \A m \in known : Grounded(m, known)
  BY DEF Grounded
<1> HIDE DEF n
<1> QED
  BY <1>1 DEF Made, Proved, n

\* A node put together from made ones is made.
LEMMA NodeMade ==
  ASSUME NEW c, EvaluateOk(LeafKey, AggregateKey, c), \A i \in DOMAIN c : Made(c[i])
  PROVE  Made(Child("aggregate", EpochPublicValues(LeafKey, AggregateKey, c)))
<1> DEFINE n == Child("aggregate", EpochPublicValues(LeafKey, AggregateKey, c))
           under(i) == CHOOSE known : Proved(known) /\ c[i] \in known
           all == {n} \cup UNION {under(i) : i \in DOMAIN c}
<1>1. \A i \in DOMAIN c : Proved(under(i)) /\ c[i] \in under(i)
  BY DEF Made
<1> HIDE DEF under
<1>2. \A i \in DOMAIN c : under(i) \subseteq all
  OBVIOUS
<1>3. Grounded(n, all)
  BY <1>1, <1>2 DEF Grounded
<1>4. ASSUME NEW m \in all, m # n
      PROVE  Grounded(m, all)
  <2>1. PICK i \in DOMAIN c : m \in under(i)
    BY <1>4
  <2>2. Grounded(m, under(i))
    BY <1>1, <2>1 DEF Proved
  <2> HIDE DEF all
  <2> QED
    BY <1>2, <2>2 DEF Grounded
<1>5. Proved(all) /\ n \in all
  BY <1>3, <1>4 DEF Proved
<1> HIDE DEF all, n
<1> QED
  BY <1>5 DEF Made, n

\* What is made stays made when more is proved.
LEMMA StaysMade ==
  ASSUME \A i \in DOMAIN witnesses :
           i \in DOMAIN witnesses' /\ witnesses'[i] = witnesses[i],
         NEW n, Made(n)
  PROVE  Made(n)'
<1>1. PICK known : Proved(known) /\ n \in known
  BY DEF Made
<1>2. ASSUME NEW m \in known
      PROVE  Grounded(m, known)'
  <2>1. Grounded(m, known)
    BY <1>1 DEF Proved
  <2>2. CASE \E i \in DOMAIN witnesses : m = Child("leaf", LeafPublicValues(witnesses[i]))
    BY <2>2 DEF Grounded
  <2>3. CASE ~ \E i \in DOMAIN witnesses : m = Child("leaf", LeafPublicValues(witnesses[i]))
    BY <2>1, <2>3 DEF Grounded
  <2> QED
    BY <2>2, <2>3
<1>3. Proved(known)'
  BY <1>2 DEF Proved
<1> QED
  BY <1>1, <1>3 DEF Made

\* Two nodes with one commitment, their children in one epoch.
Agree(d, c, epoch) ==
  /\ EpochPublicValues(TrustedLeafKey, TrustedAggregateKey, d).commitment
       = EpochPublicValues(LeafKey, AggregateKey, c).commitment
  /\ d[1].values.epoch = epoch /\ c[1].values.epoch = epoch
  /\ EvaluateOk(TrustedLeafKey, TrustedAggregateKey, d)
  /\ EvaluateOk(LeafKey, AggregateKey, c)

\* Their children agree in all that a node commits to of a child.
LEMMA ChildrenAgree ==
  ASSUME NEW d, NEW c, NEW epoch, Agree(d, c, epoch), NEW m \in DOMAIN d
  PROVE  /\ m \in DOMAIN c
         /\ c[m].kind = d[m].kind /\ CommitmentOf(c[m]) = CommitmentOf(d[m])
         /\ EventsOf(c[m]) = EventsOf(d[m])
         /\ \A word \in {"old", "new", "certificateRoot", "polygonCommitment"} :
              c[m].values[word] = d[m].values[word]
         /\ c[m].values.epoch = epoch /\ d[m].values.epoch = epoch
<1> DEFINE Entry(child) == <<child.kind, CommitmentOf(child), child.values.old,
                             child.values.new, LotsOf(child), EventsOf(child)>>
           Entries(children) == [i \in DOMAIN children |-> Entry(children[i])]
<1>1. /\ Entries(d) = Entries(c)
      /\ d[1].values.certificateRoot = c[1].values.certificateRoot
      /\ d[1].values.polygonCommitment = c[1].values.polygonCommitment
  <2>1. <<"epoch", TrustedLeafKey, TrustedAggregateKey, d[1].values.certificateRoot,
          d[1].values.polygonCommitment, Entries(d)>>
          = <<"epoch", LeafKey, AggregateKey, c[1].values.certificateRoot,
              c[1].values.polygonCommitment, Entries(c)>>
    BY DEF Agree, EpochPublicValues
  <2> HIDE DEF Entries
  <2> QED
    BY <2>1
<1>2. DOMAIN d = DOMAIN c /\ Entry(d[m]) = Entry(c[m])
  <2>1. /\ DOMAIN Entries(d) = DOMAIN d /\ DOMAIN Entries(c) = DOMAIN c
        /\ \A i \in DOMAIN d : Entries(d)[i] = Entry(d[i])
        /\ \A i \in DOMAIN c : Entries(c)[i] = Entry(c[i])
    OBVIOUS
  <2> HIDE DEF Entries, Entry
  <2> QED
    BY <1>1, <2>1
<1>3. /\ c[m].kind = d[m].kind /\ CommitmentOf(c[m]) = CommitmentOf(d[m])
      /\ c[m].values.old = d[m].values.old /\ c[m].values.new = d[m].values.new
      /\ EventsOf(c[m]) = EventsOf(d[m])
  BY <1>2
<1>4. SameEpochAndPolicy(d[m], d[1]) /\ SameEpochAndPolicy(c[m], c[1])
  BY <1>2 DEF Agree, EvaluateOk
<1> QED
  BY <1>1, <1>2, <1>3, <1>4 DEF SameEpochAndPolicy, Agree

\* One level down, a node that is made agrees with what the bundle has there.
LEMMA NodeBelow ==
  ASSUME NEW known, Proved(known), NEW d, NEW c, NEW epoch, Agree(d, c, epoch),
         \A i \in DOMAIN c : c[i] \in known,
         NEW m \in DOMAIN d, NEW below,
         d[m] = Child("aggregate",
                      EpochPublicValues(TrustedLeafKey, TrustedAggregateKey, below)),
         EvaluateOk(TrustedLeafKey, TrustedAggregateKey, below)
  PROVE  \E b : Agree(below, b, epoch) /\ \A i \in DOMAIN b : b[i] \in known
<1>1. /\ m \in DOMAIN c /\ c[m].kind = "aggregate"
      /\ CommitmentOf(c[m]) = CommitmentOf(d[m])
      /\ c[m].values.epoch = epoch /\ d[m].values.epoch = epoch
  BY ChildrenAgree DEF Child
<1>2. Grounded(c[m], known)
  BY <1>1 DEF Proved
<1>3. PICK b : /\ EvaluateOk(LeafKey, AggregateKey, b)
               /\ \A i \in DOMAIN b : b[i] \in known
               /\ c[m] = Child("aggregate", EpochPublicValues(LeafKey, AggregateKey, b))
  BY <1>1, <1>2 DEF Grounded, Child
<1>4. EpochPublicValues(TrustedLeafKey, TrustedAggregateKey, below).commitment
        = EpochPublicValues(LeafKey, AggregateKey, b).commitment
  BY <1>1, <1>3 DEF CommitmentOf, Child
<1>5. b[1].values.epoch = epoch /\ below[1].values.epoch = epoch
  <2>1. /\ c[m].values.epoch = EpochPublicValues(LeafKey, AggregateKey, b).epoch
        /\ d[m].values.epoch
             = EpochPublicValues(TrustedLeafKey, TrustedAggregateKey, below).epoch
    BY <1>3 DEF Child
  <2>2. c[m].values.epoch = b[1].values.epoch /\ d[m].values.epoch = below[1].values.epoch
    BY ONLY <2>1 DEF EpochPublicValues
  <2> QED
    BY ONLY <1>1, <2>2
<1> QED
  BY <1>3, <1>4, <1>5 DEF Agree

\* At the end there is the leaf of a witness.
LEMMA LeafBelow ==
  ASSUME NEW known, Proved(known), NEW d, NEW c, NEW epoch, Agree(d, c, epoch),
         \A i \in DOMAIN c : c[i] \in known,
         NEW m \in DOMAIN d, NEW leaf, d[m] = Child("leaf", leaf)
  PROVE  \E i \in DOMAIN witnesses :
           SameLeaf(leaf, witnesses[i]) /\ witnesses[i].epoch = epoch
<1>1. /\ m \in DOMAIN c /\ c[m].kind = d[m].kind
      /\ CommitmentOf(c[m]) = CommitmentOf(d[m]) /\ EventsOf(c[m]) = EventsOf(d[m])
      /\ \A word \in {"old", "new", "certificateRoot", "polygonCommitment"} :
           c[m].values[word] = d[m].values[word]
      /\ c[m].values.epoch = epoch /\ d[m].values.epoch = epoch
  BY ChildrenAgree
<1>2. d[m].kind = "leaf" /\ d[m].values = leaf /\ c[m].kind = "leaf"
  BY <1>1 DEF Child
<1>3. Grounded(c[m], known)
  BY <1>1 DEF Proved
<1>4. PICK i \in DOMAIN witnesses : c[m] = Child("leaf", LeafPublicValues(witnesses[i]))
  <2>1. \A values : c[m] # Child("aggregate", values)
    BY <1>2 DEF Child
  <2> QED
    BY <1>3, <2>1 DEF Grounded
<1>5. PICK values : values = LeafPublicValues(witnesses[i])
  OBVIOUS
<1>6. c[m].values = values
  BY <1>4, <1>5 DEF Child
<1>7. /\ leaf.batch = values.batch /\ leaf.count = values.count
      /\ leaf.old = values.old /\ leaf.new = values.new
      /\ leaf.certificateRoot = values.certificateRoot
      /\ leaf.polygonCommitment = values.polygonCommitment
      /\ leaf.epoch = values.epoch /\ values.epoch = epoch
  BY <1>1, <1>2, <1>6 DEF CommitmentOf, EventsOf
<1>8. /\ DOMAIN values = {"epoch", "old", "new", "batch", "certificateRoot",
                          "polygonCommitment", "nullifier", "count"}
      /\ values.epoch = witnesses[i].epoch
  BY <1>5 DEF LeafPublicValues
<1> QED
  BY <1>5, <1>7, <1>8 DEF SameLeaf

\* A path that leads to a root that was made begins at the leaf of a witness.
LEMMA LeafFound ==
  ASSUME NEW leaf, NEW levels, IsList(levels),
         AuthenticationOk(leaf, levels, TrustedLeafKey, TrustedAggregateKey),
         NEW values,
         values = AuthenticatedRoot(levels, TrustedLeafKey, TrustedAggregateKey),
         Made(Child("aggregate", values))
  PROVE  \E i \in DOMAIN witnesses :
           SameLeaf(leaf, witnesses[i]) /\ values.epoch = witnesses[i].epoch
<1> DEFINE n == Len(levels)
           d(k) == levels[k].children
           m(k) == levels[k].index
<1>1. n \in Nat \ {0} /\ DOMAIN levels = 1 .. n
  BY PathsAssumption DEF AuthenticationOk, IsList
<1>2. \A k \in 1 .. n :
        /\ m(k) \in DOMAIN d(k)
        /\ d(k)[m(k)] = Reached(leaf, levels, TrustedLeafKey, TrustedAggregateKey, k)
        /\ EvaluateOk(TrustedLeafKey, TrustedAggregateKey, d(k))
  BY <1>1 DEF AuthenticationOk
<1>3. /\ d(1)[m(1)] = Child("leaf", leaf)
      /\ \A k \in 1 .. n : k # 1 => d(k)[m(k)] =
           Child("aggregate", EpochPublicValues(TrustedLeafKey, TrustedAggregateKey, d(k - 1)))
  BY <1>1, <1>2 DEF Reached
<1>4. values = EpochPublicValues(TrustedLeafKey, TrustedAggregateKey, d(n))
  BY DEF AuthenticatedRoot
<1>5. PICK known : Proved(known) /\ Child("aggregate", values) \in known
  BY DEF Made
<1> HIDE DEF d, m, n
<1> DEFINE AgreesAt(k) == \E c : /\ Agree(d(k), c, values.epoch)
                                /\ \A i \in DOMAIN c : c[i] \in known
           T == {j \in Nat : j < n => AgreesAt(n - j)}
<1>6. 0 \in T
  <2>1. Grounded(Child("aggregate", values), known)
    BY <1>5 DEF Proved
  <2>2. PICK c : /\ EvaluateOk(LeafKey, AggregateKey, c)
                 /\ \A i \in DOMAIN c : c[i] \in known
                 /\ values = EpochPublicValues(LeafKey, AggregateKey, c)
    BY <2>1 DEF Grounded, Child
  <2>3. /\ values.epoch = d(n)[1].values.epoch
        /\ values.epoch = c[1].values.epoch
    <3>1. values.epoch = d(n)[1].values.epoch
      BY <1>4 DEF EpochPublicValues
    <3>2. values.epoch = c[1].values.epoch
      BY <2>2 DEF EpochPublicValues
    <3> QED
      BY <3>1, <3>2
  <2>4. Agree(d(n), c, values.epoch)
    BY <1>1, <1>2, <1>4, <2>2, <2>3 DEF Agree
  <2> QED
    BY <1>1, <2>2, <2>4
<1>7. ASSUME NEW k \in 1 .. n, k # 1, AgreesAt(k)
      PROVE  AgreesAt(k - 1)
  <2>1. PICK c : Agree(d(k), c, values.epoch) /\ \A i \in DOMAIN c : c[i] \in known
    BY <1>7
  <2>2. k - 1 \in 1 .. n
    BY <1>1, <1>7
  <2>3. /\ m(k) \in DOMAIN d(k)
        /\ d(k)[m(k)] =
             Child("aggregate", EpochPublicValues(TrustedLeafKey, TrustedAggregateKey, d(k - 1)))
        /\ EvaluateOk(TrustedLeafKey, TrustedAggregateKey, d(k - 1))
    BY <1>2, <1>3, <1>7, <2>2
  <2> QED
    BY <1>5, <2>1, <2>3, NodeBelow
<1>8. ASSUME NEW j \in T
      PROVE  j + 1 \in T
  <2>1. ASSUME j + 1 < n
        PROVE  AgreesAt(n - (j + 1))
    <3>1. PICK k \in 1 .. n : k = n - j /\ k - 1 = n - (j + 1) /\ k # 1
      BY <1>1, <2>1
    <3>2. AgreesAt(k)
      BY <1>1, <2>1, <3>1
    <3> HIDE DEF AgreesAt
    <3> QED
      BY <1>7, <3>1, <3>2
  <2> HIDE DEF AgreesAt
  <2> QED
    BY <2>1
<1>9. AgreesAt(1)
  <2>1. T \in SUBSET Nat
    OBVIOUS
  <2>2. T = Nat
    <3> HIDE DEF T, AgreesAt
    <3> QED
      BY ONLY <1>6, <1>8, <2>1, Induction
  <2>3. PICK j \in Nat : j = n - 1 /\ j < n /\ n - j = 1
    BY <1>1
  <2> HIDE DEF AgreesAt
  <2> QED
    BY <2>2, <2>3
<1>10. PICK c : Agree(d(1), c, values.epoch) /\ \A i \in DOMAIN c : c[i] \in known
  BY <1>9
<1>11. 1 \in 1 .. n
  BY <1>1
<1> QED
  BY <1>2, <1>3, <1>5, <1>10, <1>11, LeafBelow

NodesMade(nodes) ==
  \A i \in DOMAIN nodes : Made(Child(nodes[i].kind, nodes[i].values))

\* The nodes of the tree are made, and so is what a transaction for a contract
\* carries.
MadeInv ==
  /\ NodesMade(tree.nodes) /\ NodesMade(tree.next)
  /\ tree.root # <<>> => Made(Child("aggregate", tree.root[1]))
  /\ \A i \in DOMAIN sent : sent[i].to = None \/ Made(Child("aggregate", sent[i].values))

WitnessesStay ==
  \A i \in DOMAIN witnesses : i \in DOMAIN witnesses' /\ witnesses'[i] = witnesses[i]

\* While no witness goes, the nodes of the tree and what was sent stay made.
LEMMA TreeStaysMade ==
  ASSUME MadeInv, WitnessesStay, UNCHANGED <<tree, sent>>
  PROVE  MadeInv'
<1>1. \A n : Made(n) => Made(n)'
  BY StaysMade DEF WitnessesStay
<1>2. PICK t, s : t = tree /\ s = sent /\ t = tree' /\ s = sent'
  OBVIOUS
<1>3. /\ \A i \in DOMAIN t.nodes : Made(Child(t.nodes[i].kind, t.nodes[i].values))
      /\ \A i \in DOMAIN t.next : Made(Child(t.next[i].kind, t.next[i].values))
      /\ t.root # <<>> => Made(Child("aggregate", t.root[1]))
      /\ \A i \in DOMAIN s : s[i].to = None \/ Made(Child("aggregate", s[i].values))
  BY <1>2 DEF MadeInv, NodesMade
<1>4. /\ \A i \in DOMAIN t.nodes : Made(Child(t.nodes[i].kind, t.nodes[i].values))'
      /\ \A i \in DOMAIN t.next : Made(Child(t.next[i].kind, t.next[i].values))'
      /\ t.root # <<>> => Made(Child("aggregate", t.root[1]))'
      /\ \A i \in DOMAIN s : s[i].to = None \/ Made(Child("aggregate", s[i].values))'
  BY <1>1, <1>3
<1> QED
  BY <1>2, <1>4 DEF MadeInv, NodesMade

\* A tree that is new, with what was sent unchanged, is made if its nodes are.
LEMMA NewTreeMade ==
  ASSUME MadeInv, UNCHANGED <<witnesses, sent>>,
         NEW t, t = tree', NodesMade(t.nodes), NodesMade(t.next),
         t.root # <<>> => Made(Child("aggregate", t.root[1]))
  PROVE  MadeInv'
<1>1. \A n : Made(n) <=> Made(n)'
  BY DEF Made, Proved, Grounded
<1>2. \A nodes : NodesMade(nodes) => NodesMade(nodes)'
  BY <1>1 DEF NodesMade
<1>3. NodesMade(t.nodes)' /\ NodesMade(t.next)'
  BY <1>2
<1> QED
  BY <1>1, <1>3 DEF MadeInv

\* The tree begins with the leaves of witnesses.
LEMMA LeavesMade ==
  ASSUME MapInv, ArchiveInv, MadeInv, HostEndsEpoch
  PROVE  MadeInv'
<1>1. PICK t : t = [nodes |-> [i \in DOMAIN leaves |->
                                 [kind |-> "leaf", values |-> leaves[i], leaves |-> {i}]],
                    next |-> <<>>, paths |-> [i \in DOMAIN leaves |-> <<>>], root |-> <<>>]
  OBVIOUS
<1>2. t = tree' /\ UNCHANGED <<witnesses, sent>>
  BY <1>1 DEF HostEndsEpoch, StartTree, chainVars
<1>3. ASSUME NEW i \in DOMAIN leaves
      PROVE  Made(Child("leaf", leaves[i]))
  <2>1. PICK n, m : /\ n = Len(witnesses) /\ m = Len(leaves) /\ n \in Nat /\ m \in Nat
                    /\ DOMAIN witnesses = 1 .. n /\ DOMAIN leaves = 1 .. m /\ m <= n
    BY Lengths DEF MapInv, ArchiveInv
  <2>2. leaves[i] = LeafPublicValues(witnesses[n - m + i])
    BY <2>1 DEF ArchiveInv
  <2>3. n - m + i \in DOMAIN witnesses
    BY <2>1
  <2> QED
    BY <2>2, <2>3, LeafMade
<1>4. NodesMade(t.nodes) /\ NodesMade(t.next) /\ t.root = <<>>
  BY <1>1, <1>3 DEF NodesMade
<1> QED
  BY <1>2, <1>4, NewTreeMade

\* A node is made of a group.
LEMMA GroupMade ==
  ASSUME ArchiveInv, MadeInv, HostProvesNode
  PROVE  MadeInv'
<1>1. /\ tree.nodes # <<>> /\ EvaluateOk(LeafKey, AggregateKey, GroupChildren)
      /\ IsSeq(tree.nodes) /\ IsSeq(tree.next) /\ UNCHANGED <<witnesses, sent>>
  BY DEF HostProvesNode, HostAt, ProveNode, NodeProvable, ArchiveInv, TreeOver, chainVars
<1>2. Made(Child("aggregate", GroupValues))
  <2>1. \A i \in DOMAIN GroupChildren : Made(GroupChildren[i])
    <3>1. /\ DOMAIN GroupChildren = 1 .. GroupSize /\ GroupSize \in 1 .. Len(tree.nodes)
          /\ DOMAIN tree.nodes = 1 .. Len(tree.nodes)
          /\ \A i \in 1 .. GroupSize :
               GroupChildren[i] = Child(tree.nodes[i].kind, tree.nodes[i].values)
      BY <1>1, GroupFacts
    <3>2. 1 .. GroupSize \subseteq DOMAIN tree.nodes
      BY <1>1, <3>1, Lengths
    <3> QED
      BY <3>1, <3>2 DEF MadeInv, NodesMade
  <2> QED
    BY <1>1, <2>1, NodeMade DEF GroupValues
<1>3. NodesMade(Rest)
  <2>1. PICK n, g : /\ n = Len(tree.nodes) /\ g = GroupSize /\ n \in Nat /\ g \in 1 .. n
                    /\ DOMAIN tree.nodes = 1 .. n /\ DOMAIN Rest = 1 .. n - g
                    /\ \A i \in 1 .. n - g : Rest[i] = tree.nodes[g + i]
    BY <1>1, GroupFacts, Lengths
  <2>2. \A i \in 1 .. n - g : g + i \in DOMAIN tree.nodes
    BY <2>1
  <2> QED
    BY <2>1, <2>2 DEF MadeInv, NodesMade
<1>4. NodesMade(NextNodes)
  <2>1. /\ NextNodes = Append(tree.next, GroupNode) /\ GroupNode.kind = "aggregate"
        /\ GroupNode.values = GroupValues
    BY DEF NextNodes, GroupNode
  <2>2. \A i \in DOMAIN NextNodes :
          \/ i \in DOMAIN tree.next /\ NextNodes[i] = tree.next[i]
          \/ NextNodes[i] = GroupNode
    BY <1>1, <2>1, Follows
  <2> QED
    BY <1>2, <2>1, <2>2 DEF MadeInv, NodesMade
<1>5. DOMAIN <<>> = {} /\ NodesMade(<<>>) /\ <<GroupValues>>[1] = GroupValues
  BY DEF NodesMade
<1>6. \E nodes, next, paths, root :
        /\ tree' = [nodes |-> nodes, next |-> next, paths |-> paths, root |-> root]
        /\ NodesMade(nodes) /\ NodesMade(next)
        /\ root = <<>> \/ root = <<GroupValues>>
  <2>1. Len(Group) = GroupSize
    BY <1>1, GroupFacts
  <2>2. \E paths :
          \/ tree' = [nodes |-> <<>>, next |-> <<>>, paths |-> paths, root |-> <<GroupValues>>]
          \/ tree' = [nodes |-> Rest, next |-> NextNodes, paths |-> paths, root |-> <<>>]
          \/ tree' = [nodes |-> NextNodes, next |-> <<>>, paths |-> paths, root |-> <<>>]
    BY <2>1 DEF HostProvesNode, ProveNode, Rest, NextNodes, GroupNode, GroupValues
  <2> QED
    BY <1>3, <1>4, <1>5, <2>2
<1>7. PICK t : /\ t = tree' /\ NodesMade(t.nodes) /\ NodesMade(t.next)
               /\ t.root = <<>> \/ t.root = <<GroupValues>>
  BY <1>6
<1> QED
  BY <1>1, <1>2, <1>5, <1>7, NewTreeMade

\* A transaction for a contract carries the root.
LEMMA SentMade ==
  ASSUME SentInv, MadeInv, NEW tx, Send(tx), UNCHANGED <<witnesses, tree>>,
         tx.to = None \/ Made(Child("aggregate", tx.values))
  PROVE  MadeInv'
<1>1. sent' = Append(sent, tx) /\ Len(sent) \in Nat /\ DOMAIN sent = 1 .. Len(sent)
  BY SentFacts DEF Send
<1>2. \A i \in DOMAIN sent' : \/ i \in DOMAIN sent /\ sent'[i] = sent[i]
                              \/ sent'[i] = tx
  BY <1>1, Follows DEF SentInv, IsSeq
<1>3. \A n : Made(n) <=> Made(n)'
  BY DEF Made, Proved, Grounded
<1>4. PICK t, s : t = tree /\ t = tree' /\ s = sent'
  OBVIOUS
<1>5. /\ NodesMade(t.nodes) /\ NodesMade(t.next)
      /\ t.root # <<>> => Made(Child("aggregate", t.root[1]))
      /\ \A i \in DOMAIN s : s[i].to = None \/ Made(Child("aggregate", s[i].values))
  BY <1>2, <1>4 DEF MadeInv
<1>6. \A nodes : NodesMade(nodes) => NodesMade(nodes)'
  BY <1>3 DEF NodesMade
<1>7. NodesMade(t.nodes)' /\ NodesMade(t.next)'
  BY <1>5, <1>6
<1> QED
  BY <1>3, <1>4, <1>5, <1>7 DEF MadeInv

\* The anchor server sends deployments only: no root and no node is new.
LEMMA ServerKeepsMade ==
  ASSUME SentInv, MadeInv, UNCHANGED <<witnesses, tree>>,
         \/ ServerNext
         \/ \E client, root : ResetRequest(client, root)
  PROVE  MadeInv'
<1>1. ASSUME UNCHANGED sent
      PROVE  MadeInv'
  BY <1>1, TreeStaysMade DEF WitnessesStay
<1>2. \A root, v : DeployVerifier.to = None /\ DeployAnchor(root, v).to = None
  BY DEF DeployVerifier, DeployAnchor, Deploy
<1>3. (\E tx : Send(tx) /\ tx.to = None) \/ UNCHANGED sent
  <2>1. CASE \E client, root : ResetRequest(client, root)
    <3>1. PICK client, root :
            \/ Send(DeployVerifier)
            \/ Send(DeployAnchor(root, verifier))
      BY <2>1 DEF ResetRequest
    <3> QED
      BY <1>2, <3>1
  <2>2. CASE ServerNext
    <3>1. CASE \E client \in Clients : VerifierDeployed(client)
      <4>1. PICK root, v : Send(DeployAnchor(root, v)) \/ UNCHANGED sent
        BY <3>1 DEF VerifierDeployed, chainVars
      <4> QED
        BY <1>2, <4>1
    <3>2. CASE ~ \E client \in Clients : VerifierDeployed(client)
      BY <2>2, <3>2 DEF ServerNext, AnchorDeployed, ReceiptArrives, RootAnswered,
         RootArrives, AddressArrives, chainVars
    <3> QED
      BY <3>1, <3>2
  <2> QED
    BY <2>1, <2>2
<1> QED
  BY <1>1, <1>3, SentMade

\* A step keeps all that is anchored made.
LEMMA MadeKept ==
  ASSUME SentInv, MapInv, ArchiveInv, MadeInv, [Next]_vars
  PROVE  MadeInv'
<1>1. ASSUME UNCHANGED <<tree, witnesses, sent>>
      PROVE  MadeInv'
  BY <1>1, TreeStaysMade DEF WitnessesStay
<1>2. CASE HostNext
  <2>1. CASE HostResets
    BY <2>1, ServerKeepsMade DEF HostResets, archiveVars
  <2>2. CASE HostWasReset
    BY <1>1, <2>2 DEF HostWasReset, archiveVars, chainVars
  <2>3. CASE HostProvesLeaf
    <3>1. PICK input : witnesses' = Append(witnesses, input)
      BY <2>3 DEF HostProvesLeaf, ProveLeaf
    <3>2. WitnessesStay
      BY <3>1, Follows DEF WitnessesStay, MapInv
    <3> QED
      BY <2>3, <3>2, TreeStaysMade DEF HostProvesLeaf, ProveLeaf, chainVars
  <2>4. CASE HostEndsEpoch
    BY <2>4, LeavesMade
  <2>5. CASE HostProvesNode
    BY <2>5, GroupMade
  <2>6. CASE HostPosts
    <3> DEFINE tx == VerifyAndAnchor(epochAnchor, host.epoch, tree.root[1].old, tree.root[1])
    <3>1. /\ Send(tx) \/ UNCHANGED sent
          /\ tree.root # <<>> /\ UNCHANGED <<witnesses, tree>>
      BY <2>6 DEF HostPosts, AnchorRequest, archiveVars
    <3>2. tx.values = tree.root[1]
      BY DEF VerifyAndAnchor
    <3> HIDE DEF tx
    <3>3. Made(Child("aggregate", tx.values))
      BY <3>1, <3>2 DEF MadeInv
    <3> QED
      BY <1>1, <3>1, <3>3, SentMade
  <2>7. CASE HostHasReply
    <3>1. tree' = NoTree /\ UNCHANGED <<witnesses, sent>>
      BY <2>7 DEF HostHasReply, chainVars
    <3>2. PICK t : t = tree' /\ t = NoTree
      BY <3>1
    <3>3. NodesMade(t.nodes) /\ NodesMade(t.next) /\ t.root = <<>>
      BY <3>2 DEF NoTree, NodesMade
    <3> QED
      BY <3>1, <3>2, <3>3, NewTreeMade
  <2> QED
    BY <1>2, <2>1, <2>2, <2>3, <2>4, <2>5, <2>6, <2>7 DEF HostNext
<1>3. CASE EnvironmentNext
  <2>1. UNCHANGED <<witnesses, tree>>
    BY <1>3 DEF EnvironmentNext, OtherResets, OwnerRevokes, archiveVars
  <2>2. CASE OtherResets
    BY <2>1, <2>2, ServerKeepsMade DEF OtherResets
  <2>3. CASE OwnerRevokes
    <3>1. PICK tx : Send(tx) /\ tx.to = None
      BY <2>3 DEF OwnerRevokes, SetPolicy
    <3> QED
      BY <2>1, <3>1, SentMade
  <2>4. CASE MineBlock \/ Reorg
    BY <1>1, <2>1, <2>4 DEF MineBlock, Reorg
  <2>5. CASE ServerNext
    BY <2>1, <2>5, ServerKeepsMade
  <2> QED
    BY <1>3, <2>2, <2>3, <2>4, <2>5 DEF EnvironmentNext
<1>4. CASE UNCHANGED runVars
  BY <1>1, <1>4 DEF runVars, archiveVars, chainVars
<1>5. CASE ViewNext
  BY <1>4, <1>5 DEF ViewNext, StartView, ReadReceipt, ReadBlock, ReadTx, ReadAnchor, ReadPolicy
<1> QED
  BY <1>2, <1>3, <1>4, <1>5 DEF Next, vars

-----------------------------------------------------------------------------
(* A view that is accepted.                                                  *)

\* The call that the view compared carries the root its path leads to.
Called(tx) ==
  /\ tx \in DOMAIN sent /\ sent[tx].to = view.anchor
  /\ sent[tx].values = RootOf(view.bundle)

Successful(tx) == tx \in 1 .. Mined /\ tx \in chain[BlockOf(tx)].successes

\* What a view has checked holds from then on, the receipt until a block is replaced.
AcceptInv ==
  LET tx == view.bundle.authentication.tx
  IN view.at # "none" =>
       /\ Decodes(view.bundle)
       /\ OpeningsOk(view.bundle, TrustedLeafKey, TrustedAggregateKey)
       /\ view.anchor \in DOMAIN sent
       /\ view.at \in {"anchor", "policy", "accepted"} => Called(tx)
       /\ view.at \notin {"receipt", "rejected"} /\ reorgs = 0 => Successful(tx)

\* A step that is not of a view keeps what the view has checked.
LEMMA AcceptWaits ==
  ASSUME SentInv, SentInv', ChainInv, ChainInv', CoverInv, CoverInv', AcceptInv, SentStays,
         UNCHANGED view,
         \/ UNCHANGED <<chain, reorgs>>
         \/ /\ UNCHANGED reorgs /\ Mined \in Nat /\ Mined' \in Nat /\ Mined <= Mined'
            /\ \A b \in DOMAIN chain : b \in DOMAIN chain' /\ chain'[b] = chain[b]
         \/ reorgs' > reorgs
  PROVE  AcceptInv'
<1>1. reorgs \in Nat /\ reorgs' \in Nat /\ Mined \in Nat
  BY LatestOk, SentFacts DEF ChainInv
<1>2. Blocked /\ Blocked'
  <2>1. Blocked
    BY BlockFound
  <2>2. (CoverInv /\ ChainInv /\ SentInv => Blocked)'
    BY BlockFound, PTL
  <2> QED
    BY <2>1, <2>2
<1>3. PICK v, tx : v = view /\ v = view' /\ tx = v.bundle.authentication.tx
  OBVIOUS
<1>4. v.anchor \in DOMAIN sent => v.anchor \in DOMAIN sent'
  BY DEF SentStays
<1>5. Called(tx) => Called(tx)'
  BY <1>3 DEF Called, SentStays, RootOf
<1>6. ASSUME Successful(tx), reorgs' = 0
      PROVE  Successful(tx)'
  <2>1. CASE UNCHANGED <<chain, reorgs>>
    BY <1>6, <2>1 DEF Successful, Mined, BlockOf
  <2>2. CASE /\ Mined' \in Nat /\ Mined <= Mined'
             /\ \A b \in DOMAIN chain : b \in DOMAIN chain' /\ chain'[b] = chain[b]
    <3>1. tx \in 1 .. Mined /\ tx \in 1 .. Mined'
      BY <1>1, <1>6, <2>2 DEF Successful
    <3>2. PICK b : b = BlockOf(tx)
      OBVIOUS
    <3>3. b \in DOMAIN chain /\ tx \in chain[b].first .. chain[b].last
      BY <1>2, <3>1, <3>2 DEF Blocked
    <3>4. b \in DOMAIN chain' /\ chain'[b] = chain[b]
      BY <2>2, <3>3
    <3>5. BlockOf(tx)' = b
      BY <1>2, <3>1, <3>3, <3>4 DEF Blocked
    <3> QED
      BY <1>6, <3>1, <3>2, <3>4, <3>5 DEF Successful
  <2>3. ~ (reorgs' > reorgs)
    BY <1>1, <1>6
  <2> QED
    BY <2>1, <2>2, <2>3
<1>7. reorgs' = 0 => reorgs = 0
  BY <1>1
<1>8. v.at # "none" =>
        /\ Decodes(v.bundle) /\ OpeningsOk(v.bundle, TrustedLeafKey, TrustedAggregateKey)
        /\ v.anchor \in DOMAIN sent'
        /\ v.at \in {"anchor", "policy", "accepted"} => Called(tx)'
        /\ v.at \notin {"receipt", "rejected"} /\ reorgs' = 0 => Successful(tx)'
  BY <1>3, <1>4, <1>5, <1>6, <1>7 DEF AcceptInv
<1> QED
  BY <1>3, <1>8 DEF AcceptInv

\* A view that starts has checked nothing.
LEMMA AcceptBegins ==
  ASSUME StartView
  PROVE  AcceptInv'
<1>1. PICK bundle \in Presented, anchor \in Deployed("anchor"), v \in Deployed("verifier") :
        /\ Decodes(bundle)
        /\ OpeningsOk(bundle, TrustedLeafKey, TrustedAggregateKey)
        /\ view' = [at |-> "receipt", bundle |-> bundle, anchor |-> anchor,
                    verifier |-> v, block |-> 0, hash |-> <<>>,
                    expected |-> Expected(bundle, anchor, v), reorgs |-> reorgs]
  BY DEF StartView
<1>2. anchor \in DOMAIN sent /\ UNCHANGED sent
  BY DEF Deployed, StartView, runVars, chainVars
<1>3. view'.at = "receipt" /\ view'.bundle = bundle /\ view'.anchor = anchor
  BY <1>1
<1>4. PICK w : w = view' /\ w.at = "receipt" /\ w.bundle = bundle /\ w.anchor = anchor
  BY <1>3
<1> QED
  BY <1>1, <1>2, <1>4 DEF AcceptInv

\* Each read of the verifier establishes what the next stage has checked.
LEMMA AcceptReads ==
  ASSUME SentInv, ChainInv, ViewInv, AcceptInv,
         ReadReceipt \/ ReadBlock \/ ReadTx \/ ReadAnchor \/ ReadPolicy
  PROVE  AcceptInv'
<1>1. /\ UNCHANGED <<sent, chain, reorgs>>
      /\ view.at \in {"receipt", "block", "tx", "anchor", "policy"}
  BY DEF ReadReceipt, ReadBlock, ReadTx, ReadAnchor, ReadPolicy, runVars, chainVars
<1> DEFINE tx == view.bundle.authentication.tx
<1>2. /\ Decodes(view.bundle) /\ view.anchor \in DOMAIN sent
      /\ OpeningsOk(view.bundle, TrustedLeafKey, TrustedAggregateKey)
      /\ view.at \in {"anchor", "policy", "accepted"} => Called(tx)
      /\ view.at \notin {"receipt", "rejected"} /\ reorgs = 0 => Successful(tx)
  BY <1>1 DEF AcceptInv
<1>3. ASSUME NEW at, view'.at = at, view'.bundle = view.bundle, view'.anchor = view.anchor,
             at \in {"anchor", "policy", "accepted"} => Called(tx),
             at # "rejected" /\ reorgs = 0 => Successful(tx)
      PROVE  AcceptInv'
  <2>1. PICK w, t : w = view' /\ t = tx /\ t = w.bundle.authentication.tx
    BY <1>3
  <2>2. Called(t) => Called(t)'
    BY <1>1, <1>3 DEF Called, RootOf
  <2>3. Successful(t) => Successful(t)'
    BY <1>1 DEF Successful, Mined, BlockOf
  <2> QED
    BY <1>1, <1>2, <1>3, <2>1, <2>2, <2>3 DEF AcceptInv
<1>4. "at" \in DOMAIN view
  BY <1>1 DEF ViewInv
<1>5. ASSUME NEW ok \in BOOLEAN, NEW next, GoesOn(ok, next), view.at # "receipt",
             ok /\ next \in {"anchor", "policy", "accepted"} => Called(tx)
      PROVE  AcceptInv'
  <2>1. PICK at : at = IF ok THEN next ELSE "rejected"
    OBVIOUS
  <2>2. view'.at = at /\ view'.bundle = view.bundle /\ view'.anchor = view.anchor
    BY <1>4, <1>5, <2>1 DEF GoesOn
  <2>3. reorgs = 0 => Successful(tx)
    BY <1>1, <1>2, <1>5
  <2> HIDE DEF tx
  <2> QED
    BY <1>3, <1>5, <2>1, <2>2, <2>3
<1>6. CASE ReadReceipt
  <2> DEFINE ok == /\ tx \in 1 .. Mined /\ Receipt(tx).status
                   /\ Receipt(tx).to = view.anchor
  <2>1. /\ view.at = "receipt"
        /\ IF ok THEN view' = [view EXCEPT !.at = "block", !.block = Receipt(tx).block,
                                           !.hash = Receipt(tx).hash]
                 ELSE view' = [view EXCEPT !.at = "rejected"]
    BY <1>6 DEF ReadReceipt, GoesOn
  <2>2. ok => Successful(tx)
    BY DEF Successful, Receipt
  <2> HIDE DEF ok, tx
  <2>3. PICK at : /\ view'.at = at /\ view'.bundle = view.bundle /\ view'.anchor = view.anchor
                  /\ at = IF ok THEN "block" ELSE "rejected"
    <3>1. CASE ok
      <4>1. PICK block, hash :
              view' = [view EXCEPT !.at = "block", !.block = block, !.hash = hash]
        <5>1. view' = [view EXCEPT !.at = "block", !.block = Receipt(tx).block,
                                   !.hash = Receipt(tx).hash]
          BY ONLY <2>1, <3>1
        <5> QED
          BY ONLY <5>1
      <4>2. /\ view'.at = "block" /\ view'.bundle = view.bundle
            /\ view'.anchor = view.anchor
        BY <1>4, <4>1
      <4> QED
        BY <3>1, <4>2
    <3>2. CASE ~ ok
      <4>1. view' = [view EXCEPT !.at = "rejected"]
        BY <2>1, <3>2
      <4>2. /\ view'.at = "rejected" /\ view'.bundle = view.bundle
            /\ view'.anchor = view.anchor
        BY <1>4, <4>1
      <4> QED
        BY <3>2, <4>2
    <3> QED
      BY <3>1, <3>2
  <2> QED
    BY <1>3, <2>2, <2>3
<1>7. CASE ReadBlock
  BY <1>5, <1>7 DEF ReadBlock
<1>8. CASE ReadTx
  <2> DEFINE ok == /\ tx \in 1 .. Mined
                   /\ Receipt(tx).hash = view.hash
                   /\ sent[tx].to = view.anchor
                   /\ ValuesAreRoot(tx)
  <2>1. view.at = "tx" /\ GoesOn(ok, "anchor") /\ ok \in BOOLEAN
    BY <1>8 DEF ReadTx
  <2>2. ok => Called(tx)
    <3>1. Mined \in Nat /\ Mined <= Len(sent) /\ Len(sent) \in Nat /\ DOMAIN sent = 1 .. Len(sent)
      BY LatestOk, SentFacts
    <3>2. tx \in 1 .. Mined => tx \in DOMAIN sent
      BY <3>1
    <3> QED
      BY <3>2 DEF Called, ValuesAreRoot
  <2> HIDE DEF ok
  <2> QED
    BY <1>5, <2>1, <2>2
<1>9. CASE ReadAnchor \/ ReadPolicy
  <2>1. PICK ok \in BOOLEAN, next \in {"policy", "accepted"} :
          GoesOn(ok, next) /\ view.at \in {"anchor", "policy"}
    <3>1. CASE ReadAnchor
      BY <3>1 DEF ReadAnchor
    <3>2. CASE ReadPolicy
      <4>1. PolicyAllowed \in BOOLEAN /\ GoesOn(PolicyAllowed, "accepted") /\ view.at = "policy"
        BY <3>2 DEF ReadPolicy, PolicyAllowed
      <4> QED
        BY <4>1
    <3> QED
      BY <1>9, <3>1, <3>2
  <2>2. Called(tx)
    BY <1>2, <2>1
  <2> QED
    BY <1>5, <2>1, <2>2
<1> QED
  BY <1>6, <1>7, <1>8, <1>9

\* The inductive invariant.
TrueInv == MadeInv /\ AcceptInv

\* A step keeps the inductive invariant.
LEMMA TrueKept ==
  ASSUME ServerInv, ServerInv', MapInv, ArchiveInv, StepInv, StepInv', ViewsInv, ViewsInv',
         TrueInv, [Next]_vars
  PROVE  TrueInv'
<1>0. /\ SentInv /\ SentInv' /\ ChainInv /\ ChainInv' /\ CoverInv /\ CoverInv' /\ ViewInv
      /\ MadeInv /\ AcceptInv
  BY DEF ServerInv, StepInv, ViewsInv, TrueInv
<1>1. MadeInv'
  BY <1>0, MadeKept
<1>2. CASE ViewNext
  <2>1. AcceptInv'
    BY <1>0, <1>2, AcceptBegins, AcceptReads DEF ViewNext
  <2> QED
    BY <1>1, <2>1 DEF TrueInv
<1>3. CASE UNCHANGED <<sent, chain, reorgs, view>>
  <2>1. SentStays
    BY <1>0, <1>3, SentUnchanged
  <2> QED
    BY <1>0, <1>1, <1>3, <2>1, AcceptWaits DEF TrueInv
<1>4. CASE (HostNext \/ EnvironmentNext) /\ UNCHANGED view
  <2>1. SentStays
    BY <1>0, <1>4, ChainKept
  <2>2. CASE MineBlock
    <3>1. UNCHANGED reorgs
      BY <2>2 DEF MineBlock
    <3> QED
      BY <1>0, <1>1, <1>4, <2>1, <2>2, <3>1, BlockMined, AcceptWaits DEF TrueInv
  <2>3. CASE Reorg
    BY <1>0, <1>1, <1>4, <2>1, <2>3, BlockDropped, AcceptWaits DEF TrueInv
  <2>4. CASE UNCHANGED <<chain, reorgs>>
    BY <1>0, <1>1, <1>4, <2>1, <2>4, AcceptWaits DEF TrueInv
  <2> QED
    BY <1>4, <2>2, <2>3, <2>4, ChainSteps
<1>5. CASE UNCHANGED vars
  BY <1>3, <1>5 DEF vars, runVars, chainVars
<1> QED
  BY <1>2, <1>4, <1>5 DEF Next

\* It holds at the start.
LEMMA TrueStarts ==
  ASSUME Init
  PROVE  TrueInv
<1>1. tree = NoTree /\ sent = <<>> /\ view.at = "none"
  BY DEF Init, RunInit, ArchiveInit, ChainInit, NoView
<1>2. /\ DOMAIN <<>> = {} /\ DOMAIN sent = {}
      /\ tree.nodes = <<>> /\ tree.next = <<>> /\ tree.root = <<>>
  BY <1>1 DEF NoTree
<1> QED
  BY <1>1, <1>2 DEF TrueInv, MadeInv, NodesMade, AcceptInv

\* What is anchored was proved leaf by leaf, and what a view has checked stays so.
THEOREM AcceptInductive == Spec => []TrueInv
<1>1. Init => TrueInv
  BY TrueStarts
<1>2. /\ ServerInv /\ ServerInv' /\ MapInv /\ ArchiveInv /\ StepInv /\ StepInv'
      /\ ViewsInv /\ ViewsInv' /\ TrueInv /\ [Next]_vars
      => TrueInv'
  BY TrueKept
<1> QED
  BY <1>1, <1>2, Inductive, MapInductive, ArchiveInductive, StepInductive, ViewsInductive,
     PTL DEF Spec

\* A view that is accepted tells the truth about one proved lot of the epoch that
\* its transaction anchored in the trusted contract, however the bundle was changed
\* or put together on its way.
THEOREM OnlyTruth == Spec => []AcceptedIsTrue
<1>1. ServerInv /\ ViewsInv /\ TrueInv => AcceptedIsTrue
  <2> SUFFICES ASSUME ServerInv, ViewsInv, TrueInv, view.at = "accepted"
               PROVE  LET tx == view.bundle.authentication.tx
                      IN /\ \E i \in DOMAIN witnesses :
                              /\ TrueOf(view.bundle, witnesses[i])
                              /\ sent[tx].values.epoch = witnesses[i].epoch
                         /\ sent[tx].to = view.anchor
                         /\ reorgs = 0 => tx \in chain[BlockOf(tx)].successes
    BY DEF AcceptedIsTrue
  <2> DEFINE tx == view.bundle.authentication.tx
             levels == view.bundle.authentication.levels
  <2>1. /\ Decodes(view.bundle)
        /\ OpeningsOk(view.bundle, TrustedLeafKey, TrustedAggregateKey)
        /\ view.anchor \in DOMAIN sent
        /\ Called(tx) /\ (reorgs = 0 => Successful(tx))
    BY DEF TrueInv, AcceptInv
  <2>2. sent[tx].to = view.anchor /\ sent[tx].to # None
    <3>1. 0 \notin DOMAIN sent
      BY SentFacts DEF ServerInv
    <3> QED
      BY <2>1, <3>1 DEF Called, None
  <2>3. /\ sent[tx].values = AuthenticatedRoot(levels, TrustedLeafKey, TrustedAggregateKey)
        /\ Made(Child("aggregate", sent[tx].values))
    BY <2>1, <2>2 DEF Called, RootOf, TrueInv, MadeInv
  <2>4. /\ IsList(levels)
        /\ AuthenticationOk(view.bundle.leaf, levels, TrustedLeafKey, TrustedAggregateKey)
    BY <2>1 DEF Decodes, OpeningsOk
  <2>5. PICK i \in DOMAIN witnesses :
          /\ SameLeaf(view.bundle.leaf, witnesses[i])
          /\ sent[tx].values.epoch = witnesses[i].epoch
    <3> HIDE DEF tx, levels
    <3> QED
      BY <2>3, <2>4, LeafFound
  <2>6. TrueOf(view.bundle, witnesses[i])
    BY <2>1, <2>5, BundleTrue DEF ViewsInv, AnchoredInv
  <2> QED
    BY <2>1, <2>2, <2>5, <2>6 DEF Successful
<1> QED
  BY <1>1, Inductive, ViewsInductive, AcceptInductive, PTL

=============================================================================
