---------------------------- MODULE FabricLedger ----------------------------
(***************************************************************************)
(* POST /events and GET /events/{id}: the chaincode (infra/fabric/         *)
(* chaincode/e2epcis), the gateway's handlers (infra/fabric/gateway) and   *)
(* the client of crates/sp1-e2e/script/src/http.rs that posts an event and *)
(* reads it back.  A request is one post; any number run at once, so a     *)
(* second request may be another client, a retry or a restarted run.       *)
(*                                                                         *)
(* Fabric itself is external and modelled by what the code relies on:      *)
(* peers endorse on their own copy of the ledger, ordering puts            *)
(* transactions in one chain (or loses them), and a transaction is valid   *)
(* if the keys it read have not been written since.  The version of a key  *)
(* is the set of the transactions that wrote it.  A digest that commits to *)
(* an event is the event.                                                  *)
(***************************************************************************)
EXTENDS Integers, Sequences

CONSTANTS
  Requests,     \* posts over the whole life of the ledger
  Ids,          \* event ids
  Events,       \* canonical events, [id |-> ...] and what else they hold
  Submissions,  \* the bodies that are posted
  Peers,        \* the endorsing peers, one of each organisation
  GatewayPeer   \* the peer the gateway is connected to

ASSUME EventsAssumption == \A event \in Events : event.id \in Ids
ASSUME SubmissionsAssumption == Submissions \subseteq [event : Events, digest : Events]
ASSUME PeersAssumption == GatewayPeer \in Peers

VARIABLES
  client,    \* request -> what its client does
  sent,      \* request -> {its body}, {} before it is posted
  handler,   \* request -> what the gateway's handler does
  status,    \* request -> the status answered, 0 before
  readSets,  \* request -> peer -> {the version read there}, {} before
  inFlight,  \* requests whose transaction was broadcast and not yet ordered
  chain,     \* the ordered transactions, with the outcome of validation
  height     \* peer -> how many of them it has committed

ledgerVars == <<inFlight, chain, height>>
handlerVars == <<handler, status, readSets>>
vars == <<client, sent, handler, status, readSets, inFlight, chain, height>>

TransactionType ==
  [request : Requests, event : Events, digest : Events, valid : BOOLEAN]

\* The version of the key of id after the first n transactions.
Version(id, n) == {i \in 1 .. n : chain[i].valid /\ chain[i].event.id = id}

\* The record ReadEvent finds after the first n transactions.
Latest(id, n) ==
  chain[CHOOSE i \in Version(id, n) : \A j \in Version(id, n) : j <= i]

Body(r) == CHOOSE body \in Submissions : body \in sent[r]
Key(r) == Body(r).event.id

Init ==
  /\ client = [r \in Requests |-> "idle"]
  /\ sent = [r \in Requests |-> {}]
  /\ handler = [r \in Requests |-> "idle"]
  /\ status = [r \in Requests |-> 0]
  /\ readSets = [r \in Requests |-> [peer \in Peers |-> {}]]
  /\ inFlight = {}
  /\ chain = <<>>
  /\ height = [peer \in Peers |-> 0]

Answer(r, code) ==
  /\ handler' = [handler EXCEPT ![r] = "answered"]
  /\ status' = [status EXCEPT ![r] = code]
  /\ UNCHANGED readSets

-----------------------------------------------------------------------------
(***************************************************************************)
(* The client: post_event, then read_committed_event.                      *)
(***************************************************************************)

Post(r, body) ==
  /\ client[r] = "idle"
  /\ client' = [client EXCEPT ![r] = "waiting"]
  /\ sent' = [sent EXCEPT ![r] = {body}]
  /\ handler' = [handler EXCEPT ![r] = "posted"]
  /\ UNCHANGED <<status, readSets, ledgerVars>>

Receive(r) ==
  /\ client[r] = "waiting"
  /\ handler[r] = "answered"
  /\ client' = [client EXCEPT ![r] = IF status[r] = 201 THEN "reading" ELSE "failed"]
  /\ UNCHANGED <<sent, handlerVars, ledgerVars>>

\* The connection breaks, the read timeout passes or the client is killed.
\* A handler that still runs does not notice: Submit is not given the
\* request's context.
GiveUp(r) ==
  /\ client[r] \in {"waiting", "reading"}
  /\ client' = [client EXCEPT ![r] = "failed"]
  /\ UNCHANGED <<sent, handlerVars, ledgerVars>>

\* parse_committed_event.
Accepts(r, record) ==
  record.event = Body(r).event /\ record.digest = Body(r).event

\* EvaluateTransaction runs ReadEvent on some peer, which may be behind.
ReadBack(r, peer) ==
  /\ client[r] = "reading"
  /\ client' = [client EXCEPT ![r] =
       IF /\ Version(Key(r), height[peer]) # {}
          /\ Accepts(r, Latest(Key(r), height[peer]))
       THEN "ok" ELSE "failed"]
  /\ UNCHANGED <<sent, handlerVars, ledgerVars>>

-----------------------------------------------------------------------------
(***************************************************************************)
(* The gateway's createEvent: checks, then Submit, which endorses on both  *)
(* peers, broadcasts and waits for the commit status.  Every error of      *)
(* Submit, timeouts included, is answered with 409.                        *)
(***************************************************************************)

Check(r) ==
  /\ handler[r] = "posted"
  /\ IF Body(r).digest = Body(r).event
     THEN /\ handler' = [handler EXCEPT ![r] = "endorsing"]
          /\ UNCHANGED <<status, readSets>>
     ELSE Answer(r, 400)
  /\ UNCHANGED <<client, sent, ledgerVars>>

\* CreateEvent's answer to what GetState returned; its validateEvent repeats
\* the gateway's check, which the body has passed.
CreateEvent(version) == version = {}

\* peer simulates CreateEvent.
Endorse(r, peer) ==
  /\ handler[r] = "endorsing"
  /\ readSets[r][peer] = {}
  /\ LET version == Version(Key(r), height[peer])
     IN IF CreateEvent(version)
        THEN /\ readSets' = [readSets EXCEPT ![r][peer] = {version}]
             /\ UNCHANGED <<handler, status>>
        ELSE Answer(r, 409)
  /\ UNCHANGED <<client, sent, ledgerVars>>

\* The gateway has both endorsements; they must agree.
Broadcast(r) ==
  /\ handler[r] = "endorsing"
  /\ \A peer \in Peers : readSets[r][peer] # {}
  /\ IF \A peer \in Peers : readSets[r][peer] = readSets[r][GatewayPeer]
     THEN /\ handler' = [handler EXCEPT ![r] = "submitted"]
          /\ inFlight' = inFlight \cup {r}
          /\ UNCHANGED <<status, readSets>>
     ELSE Answer(r, 409) /\ UNCHANGED inFlight
  /\ UNCHANGED <<client, sent, chain, height>>

\* Mutant: any commit status is a success.
StatusOfAnyCommit(transaction) == 201
\* Submit returns an error for a transaction that is not valid.
StatusOf(transaction) == IF transaction.valid THEN 201 ELSE 409

\* Mutant: the status is that of the chain, not of the gateway's peer.
AnswerOnceOrdered(r) ==
  /\ handler[r] = "submitted"
  /\ \E i \in 1 .. Len(chain) :
       chain[i].request = r /\ Answer(r, StatusOf(chain[i]))
  /\ UNCHANGED <<client, sent, ledgerVars>>
\* The commit status: the gateway's peer has committed the transaction.
CommitStatus(r) ==
  /\ handler[r] = "submitted"
  /\ \E i \in 1 .. height[GatewayPeer] :
       chain[i].request = r /\ Answer(r, StatusOf(chain[i]))
  /\ UNCHANGED <<client, sent, ledgerVars>>

\* Mutant: no WithCommitStatusTimeout.
TimedWithoutCommitStatus == {"endorsing"}
\* What Submit does under a timeout.
Timed == {"endorsing", "submitted"}

\* The endorse, submit or commit status timeout, or another failure of a
\* call.  A transaction that was broadcast goes on without its handler.
Timeout(r) ==
  /\ handler[r] \in Timed
  /\ Answer(r, 409)
  /\ UNCHANGED <<client, sent, ledgerVars>>

\* The handler dies without an answer: the gateway stops, or net/http drops
\* the connection.
Break(r) ==
  /\ handler[r] \in {"posted", "endorsing", "submitted"}
  /\ handler' = [handler EXCEPT ![r] = "gone"]
  /\ UNCHANGED <<client, sent, status, readSets, ledgerVars>>

-----------------------------------------------------------------------------
(***************************************************************************)
(* Fabric, external.                                                       *)
(***************************************************************************)

\* The transaction gets its place.  Validation depends on nothing but the
\* transactions before it, so all peers come to the same outcome.
Order(r) ==
  /\ r \in inFlight
  /\ inFlight' = inFlight \ {r}
  /\ chain' = Append(chain,
       [request |-> r, event |-> Body(r).event, digest |-> Body(r).digest,
        valid |-> readSets[r][GatewayPeer] = {Version(Key(r), Len(chain))}])
  /\ UNCHANGED <<client, sent, handlerVars, height>>

Commit(peer) ==
  /\ height[peer] < Len(chain)
  /\ height' = [height EXCEPT ![peer] = @ + 1]
  /\ UNCHANGED <<client, sent, handlerVars, inFlight, chain>>

-----------------------------------------------------------------------------

Client(r) ==
  \/ Receive(r)
  \/ GiveUp(r)
  \/ \E peer \in Peers : ReadBack(r, peer)

Handler(r) ==
  \/ Check(r)
  \/ \E peer \in Peers : Endorse(r, peer)
  \/ Broadcast(r)
  \/ CommitStatus(r)
  \/ Timeout(r)

Next ==
  \/ \E r \in Requests :
       \/ \E body \in Submissions : Post(r, body)
       \/ Client(r)
       \/ Handler(r)
       \/ Break(r)
       \/ Order(r)
  \/ \E peer \in Peers : Commit(peer)

Spec == Init /\ [][Next]_vars

\* Clients and handlers go on, as each of their waits has a timeout.  Of
\* Fabric nothing is assumed: a transaction need not ever be ordered, and a
\* peer need not catch up.
FairSpec ==
  /\ Spec
  /\ \A r \in Requests : WF_vars(Client(r)) /\ WF_vars(Handler(r))

-----------------------------------------------------------------------------

\* Requests, transactions and peers have the types of the source, and no
\* peer is ahead of the chain.
TypeOK ==
  /\ client \in [Requests -> {"idle", "waiting", "reading", "ok", "failed"}]
  /\ sent \in [Requests -> SUBSET Submissions]
  /\ handler \in
       [Requests -> {"idle", "posted", "endorsing", "submitted", "answered", "gone"}]
  /\ status \in [Requests -> {0, 201, 400, 409}]
  /\ readSets \in [Requests -> [Peers -> SUBSET SUBSET Nat]]
  /\ inFlight \subseteq Requests
  /\ chain \in Seq(TransactionType)
  /\ height \in [Peers -> 0 .. Len(chain)]

\* peer answers ReadEvent with the record of request r.
Serves(peer, r) ==
  /\ Version(Key(r), height[peer]) # {}
  /\ Latest(Key(r), height[peer]).request = r

Acknowledged == {r \in Requests : status[r] = 201}

\* Of all posts of an event id, by whoever and however often, at most one is
\* acknowledged, also when two are endorsed before either is ordered.
AcksOnce ==
  \A r1, r2 \in Acknowledged : Key(r1) = Key(r2) => r1 = r2

\* What was acknowledged stays: the gateway's peer has the very record of
\* that request, no peer ever has another one under its id, and its digest
\* is right.  So a client can only fail its read-back on a peer that is
\* behind or on a call that fails.
AckedStays ==
  \A r \in Acknowledged :
    /\ Serves(GatewayPeer, r)
    /\ \A peer \in Peers :
         Version(Key(r), height[peer]) # {} =>
           Serves(peer, r) /\ Accepts(r, Latest(Key(r), height[peer]))

\* A client that waits comes to an end, and so does the handler of its
\* request, whatever becomes of the transaction.
PostsEnd ==
  \A r \in Requests :
    client[r] = "waiting" ~>
      client[r] \in {"ok", "failed"} /\ handler[r] \in {"answered", "gone"}

\* The request whose transaction holds an id.
Holder(id) ==
  {chain[i].request : i \in Version(id, Len(chain))}

\* The ledger as a map that is written once per id.
Store == INSTANCE EventStore WITH
  holder <- [id \in Ids |-> Holder(id)], acked <- Acknowledged

\* The ledger implements the map: the first transaction of an id keeps it,
\* and only its request is acknowledged, after it has got it.
ImplementsStore == Store!Spec

=============================================================================
