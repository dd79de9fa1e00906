------------------------- MODULE FabricLedgerProofs -------------------------
(***************************************************************************)
(* Proofs about FabricLedger, for all requests, events and peers: one      *)
(* acknowledged post per event id, whose record stays, and the refinement  *)
(* of EventStore.                                                          *)
(***************************************************************************)
EXTENDS FabricLedger, TLAPS

\* A request has a body once its handler runs; one that is endorsed or
\* broadcast has passed the gateway's check.
Bodies ==
  \A r \in Requests :
    /\ client[r] = "idle" => handler[r] = "idle"
    /\ handler[r] # "idle" => \E body \in Submissions : sent[r] = {body}
    /\ handler[r] \in {"endorsing", "submitted"} => Body(r).digest = Body(r).event
    /\ r \in inFlight => handler[r] # "idle" /\ Body(r).digest = Body(r).event

\* Endorsers have read that there is no record.
ReadAbsent == \A r \in Requests, peer \in Peers : readSets[r][peer] \subseteq {{}}

\* A transaction in the chain carries the body of its request.
ChainTrue ==
  \A i \in DOMAIN chain :
    /\ handler[chain[i].request] # "idle"
    /\ chain[i].event = Body(chain[i].request).event
    /\ chain[i].digest = chain[i].event

\* An id is written by one transaction only.
OneWriter ==
  \A i, j \in DOMAIN chain :
    chain[i].valid /\ chain[j].valid /\ chain[i].event.id = chain[j].event.id => i = j

\* Transaction i is that of r, and the gateway's peer has committed it.
CommittedAs(i, r) ==
  i \in 1 .. height[GatewayPeer] /\ chain[i].valid /\ chain[i].request = r

\* An acknowledgement is final and rests on a committed transaction.
AcksBacked ==
  \A r \in Requests :
    status[r] = 201 => handler[r] = "answered" /\ \E i \in Nat : CommittedAs(i, r)

\* The inductive invariant.
IInv == TypeOK /\ Bodies /\ ReadAbsent /\ ChainTrue /\ OneWriter /\ AcksBacked

LEMMA IInvInit == Init => IInv
<1> SUFFICES ASSUME Init PROVE IInv
  OBVIOUS
<1>1. TypeOK
  BY DEF Init, TypeOK
<1>2. Bodies /\ ReadAbsent
  BY DEF Init, Bodies, ReadAbsent
<1>3. ChainTrue /\ OneWriter
  BY DEF Init, ChainTrue, OneWriter
<1>4. AcksBacked
  BY DEF Init, AcksBacked
<1> QED
  BY <1>1, <1>2, <1>3, <1>4 DEF IInv

\* The body of a request whose handler runs.
LEMMA BodyFacts ==
  ASSUME Bodies, NEW r \in Requests, handler[r] # "idle"
  PROVE  /\ sent[r] = {Body(r)}
         /\ Body(r).event \in Events
         /\ Body(r).digest \in Events
         /\ Key(r) \in Ids
<1>1. PICK body \in Submissions : sent[r] = {body}
  BY DEF Bodies
<1>2. Body(r) = body
  BY <1>1 DEF Body
<1> QED
  BY <1>1, <1>2, EventsAssumption, SubmissionsAssumption DEF Key

\* The transactions of the chain.
LEMMA ChainFacts ==
  ASSUME TypeOK
  PROVE  /\ Len(chain) \in Nat
         /\ DOMAIN chain = 1 .. Len(chain)
         /\ \A i \in DOMAIN chain :
              chain[i].request \in Requests /\ chain[i].valid \in BOOLEAN
<1>1. chain \in Seq(TransactionType)
  BY DEF TypeOK
<1>2. \A i \in DOMAIN chain : chain[i] \in TransactionType
  BY <1>1
<1> QED
  BY <1>1, <1>2 DEF TransactionType

\* The bodies of requests that run do not change, so what the chain says of
\* them stays true as long as it is not extended.
LEMMA ChainKept ==
  ASSUME IInv, UNCHANGED chain,
         \A r \in Requests :
           handler[r] # "idle" => handler'[r] # "idle" /\ sent'[r] = sent[r]
  PROVE  ChainTrue' /\ OneWriter'
<1>1. \A i \in DOMAIN chain : chain[i].request \in Requests
  BY ChainFacts DEF IInv
<1>2. ASSUME NEW i \in DOMAIN chain
      PROVE  /\ handler'[chain[i].request] # "idle"
             /\ Body(chain[i].request)' = Body(chain[i].request)
  BY <1>1 DEF IInv, ChainTrue, Body
<1> QED
  BY <1>2 DEF IInv, ChainTrue, OneWriter

\* A client's step changes nothing that the invariant says of the ledger.
LEMMA ClientKeeps ==
  ASSUME IInv, NEW r \in Requests, Client(r)
  PROVE  IInv'
<1>1. /\ UNCHANGED <<sent, handlerVars, ledgerVars>>
      /\ client[r] # "idle"
      /\ \E next \in {"reading", "ok", "failed"} : client' = [client EXCEPT ![r] = next]
  BY DEF Client, Receive, GiveUp, ReadBack
<1>2. TypeOK'
  BY <1>1 DEF IInv, TypeOK, handlerVars, ledgerVars
<1>3. Bodies'
  <2>1. \A q \in Requests : client'[q] = "idle" => client[q] = "idle"
    BY <1>1 DEF IInv, TypeOK
  <2>2. \A q \in Requests : Body(q)' = Body(q)
    BY <1>1 DEF Body
  <2> QED
    BY <1>1, <2>1, <2>2 DEF IInv, Bodies, handlerVars, ledgerVars
<1>4. ReadAbsent' /\ ChainTrue' /\ OneWriter'
  BY <1>1, ChainKept DEF IInv, ReadAbsent, handlerVars, ledgerVars
<1>5. AcksBacked'
  BY <1>1 DEF IInv, AcksBacked, CommittedAs, handlerVars, ledgerVars
<1> QED
  BY <1>2, <1>3, <1>4, <1>5 DEF IInv

LEMMA PostKeeps ==
  ASSUME IInv, NEW r \in Requests, NEW body \in Submissions, Post(r, body)
  PROVE  IInv'
<1>1. /\ client[r] = "idle" /\ handler[r] = "idle"
      /\ client' = [client EXCEPT ![r] = "waiting"]
      /\ sent' = [sent EXCEPT ![r] = {body}]
      /\ handler' = [handler EXCEPT ![r] = "posted"]
      /\ UNCHANGED <<status, readSets, inFlight, chain, height>>
  BY DEF Post, ledgerVars, IInv, Bodies
<1>2. TypeOK'
  BY <1>1 DEF IInv, TypeOK
<1>3. Bodies'
  <2> SUFFICES ASSUME NEW q \in Requests
               PROVE  /\ client'[q] = "idle" => handler'[q] = "idle"
                      /\ handler'[q] # "idle" => \E b \in Submissions : sent'[q] = {b}
                      /\ handler'[q] \in {"endorsing", "submitted"} =>
                           Body(q)'.digest = Body(q)'.event
                      /\ q \in inFlight =>
                           handler'[q] # "idle" /\ Body(q)'.digest = Body(q)'.event
    BY <1>1 DEF Bodies
  <2>1. CASE q = r
    BY <1>1, <2>1 DEF IInv, TypeOK, Bodies
  <2>2. CASE q # r
    <3>1. Body(q)' = Body(q)
      BY <1>1, <2>2 DEF Body, IInv, TypeOK
    <3> QED
      BY <1>1, <2>2, <3>1 DEF IInv, TypeOK, Bodies
  <2> QED
    BY <2>1, <2>2
<1>4. ReadAbsent'
  BY <1>1 DEF IInv, ReadAbsent
<1>5. ChainTrue' /\ OneWriter'
  <2>1. \A q \in Requests :
          handler[q] # "idle" => handler'[q] # "idle" /\ sent'[q] = sent[q]
    BY <1>1 DEF IInv, TypeOK
  <2> QED
    BY <1>1, <2>1, ChainKept
<1>6. AcksBacked'
  BY <1>1 DEF IInv, TypeOK, AcksBacked, CommittedAs
<1> QED
  BY <1>2, <1>3, <1>4, <1>5, <1>6 DEF IInv

\* A handler moves on, to another wait only with a body that passed.
LEMMA HandlerMoves ==
  ASSUME IInv, NEW r \in Requests,
         handler[r] \in {"posted", "endorsing", "submitted"},
         handler'[r] \in {"endorsing", "submitted", "answered", "gone"},
         \A q \in Requests \ {r} : handler'[q] = handler[q],
         handler'[r] \in {"endorsing", "submitted"} => Body(r).digest = Body(r).event,
         \/ inFlight' = inFlight
         \/ handler'[r] = "submitted" /\ inFlight' = inFlight \cup {r},
         UNCHANGED <<client, sent, chain>>
  PROVE  Bodies' /\ ChainTrue' /\ OneWriter'
<1>1. \A q \in Requests : q = r \/ handler'[q] = handler[q]
  OBVIOUS
<1>2. \A q \in Requests : handler[q] # "idle" => handler'[q] # "idle" /\ sent'[q] = sent[q]
  BY <1>1
<1>3. \A q \in Requests : Body(q)' = Body(q)
  BY DEF Body
<1>4. Bodies'
  <2> SUFFICES ASSUME NEW q \in Requests
               PROVE  /\ client'[q] = "idle" => handler'[q] = "idle"
                      /\ handler'[q] # "idle" => \E b \in Submissions : sent'[q] = {b}
                      /\ handler'[q] \in {"endorsing", "submitted"} =>
                           Body(q)'.digest = Body(q)'.event
                      /\ q \in inFlight' =>
                           handler'[q] # "idle" /\ Body(q)'.digest = Body(q)'.event
    BY DEF Bodies
  <2> QED
    BY <1>1, <1>3 DEF IInv, Bodies
<1>5. ChainTrue' /\ OneWriter'
  BY <1>2, ChainKept
<1> QED
  BY <1>4, <1>5

\* A handler that does not acknowledge leaves the acknowledgements alone.
LEMMA NoAck ==
  ASSUME IInv, NEW r \in Requests, status'[r] # 201,
         \A q \in Requests \ {r} : handler'[q] = handler[q] /\ status'[q] = status[q],
         UNCHANGED <<chain, height>>
  PROVE  AcksBacked'
<1>1. \A q \in Requests : status'[q] = 201 =>
        q # r /\ status[q] = 201 /\ handler'[q] = handler[q]
  OBVIOUS
<1> QED
  BY <1>1 DEF IInv, AcksBacked, CommittedAs

LEMMA AnswerKeepsType ==
  ASSUME TypeOK, NEW r \in Requests, NEW code \in {201, 400, 409}, Answer(r, code),
         UNCHANGED <<client, sent, ledgerVars>>
  PROVE  TypeOK'
  BY DEF TypeOK, Answer, ledgerVars

\* Any answer but an acknowledgement keeps the invariant.
LEMMA RefusalKeeps ==
  ASSUME IInv, NEW r \in Requests, NEW code \in {400, 409}, Answer(r, code),
         handler[r] \in {"posted", "endorsing", "submitted"},
         UNCHANGED <<client, sent, ledgerVars>>
  PROVE  IInv'
<1>1. TypeOK'
  BY AnswerKeepsType DEF IInv
<1>2. Bodies' /\ ChainTrue' /\ OneWriter'
  <2>1. /\ handler'[r] = "answered"
        /\ \A q \in Requests \ {r} : handler'[q] = handler[q]
        /\ UNCHANGED <<client, sent, inFlight, chain>>
    BY DEF IInv, TypeOK, Answer, ledgerVars
  <2> QED
    BY <2>1, HandlerMoves
<1>3. ReadAbsent'
  BY DEF IInv, ReadAbsent, Answer
<1>4. AcksBacked'
  <2>1. /\ status'[r] # 201
        /\ \A q \in Requests \ {r} : handler'[q] = handler[q] /\ status'[q] = status[q]
    BY DEF IInv, TypeOK, Answer
  <2> QED
    BY <2>1, NoAck DEF ledgerVars
<1> QED
  BY <1>1, <1>2, <1>3, <1>4 DEF IInv

LEMMA CheckKeeps ==
  ASSUME IInv, NEW r \in Requests, Check(r)
  PROVE  IInv'
<1>1. CASE Body(r).digest = Body(r).event
  <2>1. /\ handler[r] = "posted"
        /\ handler' = [handler EXCEPT ![r] = "endorsing"]
        /\ UNCHANGED <<client, sent, status, readSets, inFlight, chain, height>>
    BY <1>1 DEF Check, ledgerVars
  <2>2. TypeOK'
    BY <2>1 DEF IInv, TypeOK
  <2>3. /\ handler'[r] = "endorsing"
        /\ status'[r] # 201
        /\ \A q \in Requests \ {r} : handler'[q] = handler[q] /\ status'[q] = status[q]
    BY <2>1 DEF IInv, TypeOK, AcksBacked
  <2>4. Bodies' /\ ChainTrue' /\ OneWriter'
    BY <1>1, <2>1, <2>3, HandlerMoves
  <2>5. ReadAbsent'
    BY <2>1 DEF IInv, ReadAbsent
  <2>6. AcksBacked'
    BY <2>1, <2>3, NoAck
  <2> QED
    BY <2>2, <2>4, <2>5, <2>6 DEF IInv
<1>2. CASE Body(r).digest # Body(r).event
  BY <1>2, RefusalKeeps DEF Check
<1> QED
  BY <1>1, <1>2

LEMMA EndorseKeeps ==
  ASSUME IInv, NEW r \in Requests, NEW peer \in Peers, Endorse(r, peer)
  PROVE  IInv'
<1> DEFINE version == Version(Key(r), height[peer])
<1>1. CASE CreateEvent(version)
  <2>1. /\ handler[r] = "endorsing"
        /\ version = {}
        /\ readSets' = [readSets EXCEPT ![r][peer] = {version}]
        /\ UNCHANGED <<client, sent, handler, status, inFlight, chain, height>>
    BY <1>1 DEF Endorse, CreateEvent, ledgerVars
  <2>2. readSets' = [readSets EXCEPT ![r][peer] = {{}}]
    BY <2>1
  <2>3. readSets' \in [Requests -> [Peers -> SUBSET SUBSET Nat]]
    BY <2>2 DEF IInv, TypeOK
  <2>4. TypeOK'
    BY <2>1, <2>3 DEF IInv, TypeOK
  <2>5. ReadAbsent'
    BY <2>2 DEF IInv, TypeOK, ReadAbsent
  <2>6. Bodies' /\ AcksBacked'
    BY <2>1 DEF IInv, Bodies, Body, AcksBacked, CommittedAs
  <2>7. ChainTrue' /\ OneWriter'
    BY <2>1, ChainKept
  <2> QED
    BY <2>4, <2>5, <2>6, <2>7 DEF IInv
<1>2. CASE ~CreateEvent(version)
  BY <1>2, RefusalKeeps DEF Endorse
<1> QED
  BY <1>1, <1>2

LEMMA BroadcastKeeps ==
  ASSUME IInv, NEW r \in Requests, Broadcast(r)
  PROVE  IInv'
<1> DEFINE agreed == \A peer \in Peers : readSets[r][peer] = readSets[r][GatewayPeer]
<1>1. CASE agreed
  <2>1. /\ handler[r] = "endorsing"
        /\ handler' = [handler EXCEPT ![r] = "submitted"]
        /\ inFlight' = inFlight \cup {r}
        /\ UNCHANGED <<client, sent, status, readSets, chain, height>>
    BY <1>1 DEF Broadcast
  <2>2. TypeOK'
    BY <2>1 DEF IInv, TypeOK
  <2>3. Body(r).digest = Body(r).event
    BY <2>1 DEF IInv, Bodies
  <2>4. /\ handler'[r] = "submitted"
        /\ status'[r] # 201
        /\ \A q \in Requests \ {r} : handler'[q] = handler[q] /\ status'[q] = status[q]
    BY <2>1 DEF IInv, TypeOK, AcksBacked
  <2>5. Bodies' /\ ChainTrue' /\ OneWriter'
    BY <2>1, <2>3, <2>4, HandlerMoves
  <2>6. ReadAbsent'
    BY <2>1 DEF IInv, ReadAbsent
  <2>7. AcksBacked'
    BY <2>1, <2>4, NoAck
  <2> QED
    BY <2>2, <2>5, <2>6, <2>7 DEF IInv
<1>2. CASE ~agreed
  BY <1>2, RefusalKeeps DEF Broadcast, ledgerVars
<1> QED
  BY <1>1, <1>2

\* The one place where a request is acknowledged.
LEMMA CommitStatusKeeps ==
  ASSUME IInv, NEW r \in Requests, CommitStatus(r)
  PROVE  IInv'
<1>1. PICK i \in 1 .. height[GatewayPeer] :
        chain[i].request = r /\ Answer(r, StatusOf(chain[i]))
  BY DEF CommitStatus
<1>2. handler[r] = "submitted" /\ UNCHANGED <<client, sent, ledgerVars>>
  BY DEF CommitStatus
<1>3. CASE chain[i].valid
  <2>1. /\ handler' = [handler EXCEPT ![r] = "answered"]
        /\ status' = [status EXCEPT ![r] = 201]
        /\ UNCHANGED <<client, sent, readSets, inFlight, chain, height>>
    BY <1>1, <1>2, <1>3 DEF Answer, StatusOf, ledgerVars
  <2>2. TypeOK'
    BY <2>1 DEF IInv, TypeOK
  <2>3. Bodies' /\ ChainTrue' /\ OneWriter'
    <3>1. /\ handler'[r] = "answered"
          /\ \A q \in Requests \ {r} : handler'[q] = handler[q]
      BY <2>1 DEF IInv, TypeOK
    <3> QED
      BY <1>2, <2>1, <3>1, HandlerMoves
  <2>4. ReadAbsent'
    BY <2>1 DEF IInv, ReadAbsent
  <2>5. CommittedAs(i, r) /\ i \in Nat
    BY <1>1, <1>3, PeersAssumption DEF CommittedAs, IInv, TypeOK
  <2>6. \A q \in Requests :
          /\ status'[q] = (IF q = r THEN 201 ELSE status[q])
          /\ handler'[q] = (IF q = r THEN "answered" ELSE handler[q])
    BY <2>1 DEF IInv, TypeOK
  <2>7. \A j, q : CommittedAs(j, q) => CommittedAs(j, q)'
    BY <2>1 DEF CommittedAs
  <2>8. AcksBacked'
    BY <2>5, <2>6, <2>7 DEF IInv, AcksBacked
  <2> QED
    BY <2>2, <2>3, <2>4, <2>8 DEF IInv
<1>4. CASE ~chain[i].valid
  BY <1>1, <1>2, <1>4, RefusalKeeps DEF StatusOf
<1> QED
  BY <1>3, <1>4

LEMMA BreakKeeps ==
  ASSUME IInv, NEW r \in Requests, Break(r)
  PROVE  IInv'
<1>1. /\ handler[r] \in {"posted", "endorsing", "submitted"}
      /\ handler' = [handler EXCEPT ![r] = "gone"]
      /\ UNCHANGED <<client, sent, status, readSets, inFlight, chain, height>>
  BY DEF Break, ledgerVars
<1>2. TypeOK'
  BY <1>1 DEF IInv, TypeOK
<1>3. /\ handler'[r] = "gone"
      /\ status'[r] # 201
      /\ \A q \in Requests \ {r} : handler'[q] = handler[q] /\ status'[q] = status[q]
  BY <1>1 DEF IInv, TypeOK, AcksBacked
<1>4. Bodies' /\ ChainTrue' /\ OneWriter'
  BY <1>1, <1>3, HandlerMoves
<1>5. ReadAbsent'
  BY <1>1 DEF IInv, ReadAbsent
<1>6. AcksBacked'
  BY <1>1, <1>3, NoAck
<1> QED
  BY <1>2, <1>4, <1>5, <1>6 DEF IInv

\* What the chain gains by a transaction, and what a read set that saw no
\* record says of the transactions before it.
LEMMA OrderKeeps ==
  ASSUME IInv, NEW r \in Requests, Order(r)
  PROVE  IInv'
<1> DEFINE n == Len(chain)
           t == [request |-> r, event |-> Body(r).event, digest |-> Body(r).digest,
                 valid |-> readSets[r][GatewayPeer] = {Version(Key(r), n)}]
<1>1. /\ r \in inFlight
      /\ inFlight' = inFlight \ {r}
      /\ chain' = Append(chain, t)
      /\ UNCHANGED <<client, sent, handler, status, readSets, height>>
  BY DEF Order, handlerVars
<1>2. /\ handler[r] # "idle"
      /\ Body(r).digest = Body(r).event
      /\ Body(r).event \in Events
  BY <1>1, BodyFacts DEF IInv, Bodies
<1>3. /\ n \in Nat
      /\ DOMAIN chain = 1 .. n
      /\ chain \in Seq(TransactionType)
      /\ \A i \in 1 .. n : chain[i].request \in Requests
  BY ChainFacts DEF IInv, TypeOK
<1>4. t \in TransactionType
  BY <1>2 DEF TransactionType
<1>5. t.request = r /\ t.event = Body(r).event /\ t.digest = t.event
  BY <1>2
<1>6. t.valid => \A i \in 1 .. n : ~(chain[i].valid /\ chain[i].event.id = t.event.id)
  <2>1. t.valid => {Version(Key(r), n)} \subseteq {{}}
    BY PeersAssumption DEF IInv, ReadAbsent
  <2>2. t.valid => Version(Key(r), n) = {}
    BY <2>1
  <2> QED
    BY <2>2 DEF Version, Key
<1> HIDE DEF t
<1>7. /\ chain' \in Seq(TransactionType)
      /\ Len(chain') = n + 1
      /\ DOMAIN chain' = 1 .. (n + 1)
      /\ \A i \in 1 .. n : chain'[i] = chain[i]
      /\ chain'[n + 1] = t
  BY <1>1, <1>3, <1>4
<1>8. \A i \in 1 .. (n + 1) : i \in 1 .. n \/ i = n + 1
  BY <1>3
<1>9. TypeOK'
  <2>1. height \in [Peers -> 0 .. (n + 1)]
    BY <1>3 DEF IInv, TypeOK
  <2> QED
    BY <1>1, <1>7, <2>1 DEF IInv, TypeOK
<1>10. \A q \in Requests : Body(q)' = Body(q)
  BY <1>1 DEF Body
<1>11. Bodies' /\ ReadAbsent'
  BY <1>1, <1>10 DEF IInv, Bodies, ReadAbsent
<1>12. ChainTrue'
  BY <1>1, <1>2, <1>3, <1>5, <1>7, <1>8, <1>10 DEF IInv, ChainTrue
<1>13. OneWriter'
  BY <1>3, <1>6, <1>7, <1>8 DEF IInv, OneWriter
<1>14. AcksBacked'
  <2>1. ASSUME NEW i \in Nat, NEW q \in Requests, CommittedAs(i, q)
        PROVE  CommittedAs(i, q)'
    <3>1. i \in 1 .. n
      BY <1>3, <2>1, PeersAssumption DEF CommittedAs, IInv, TypeOK
    <3> QED
      BY <1>1, <1>7, <2>1, <3>1 DEF CommittedAs
  <2> QED
    BY <1>1, <2>1 DEF IInv, AcksBacked
<1> QED
  BY <1>9, <1>11, <1>12, <1>13, <1>14 DEF IInv

LEMMA CommitKeeps ==
  ASSUME IInv, NEW peer \in Peers, Commit(peer)
  PROVE  IInv'
<1>1. /\ height[peer] < Len(chain)
      /\ height' = [height EXCEPT ![peer] = height[peer] + 1]
      /\ UNCHANGED <<client, sent, handler, status, readSets, inFlight, chain>>
  BY DEF Commit, handlerVars
<1>2. Len(chain) \in Nat /\ \A p \in Peers : height[p] \in 0 .. Len(chain)
  BY ChainFacts DEF IInv, TypeOK
<1>3. height' \in [Peers -> 0 .. Len(chain)]
  BY <1>1, <1>2 DEF IInv, TypeOK
<1>4. TypeOK'
  BY <1>1, <1>3 DEF IInv, TypeOK
<1>5. Bodies' /\ ReadAbsent'
  BY <1>1 DEF IInv, Bodies, Body, ReadAbsent
<1>6. ChainTrue' /\ OneWriter'
  BY <1>1, ChainKept
<1>7. AcksBacked'
  <2>1. height'[GatewayPeer] >= height[GatewayPeer] /\ height'[GatewayPeer] \in Nat
    BY <1>1, <1>2, PeersAssumption DEF IInv, TypeOK
  <2>2. ASSUME NEW i \in Nat, NEW q \in Requests, CommittedAs(i, q)
        PROVE  CommittedAs(i, q)'
    BY <1>1, <1>2, <2>1, <2>2, PeersAssumption DEF CommittedAs
  <2> QED
    BY <1>1, <2>2 DEF IInv, AcksBacked
<1> QED
  BY <1>4, <1>5, <1>6, <1>7 DEF IInv

LEMMA IInvNext == IInv /\ [Next]_vars => IInv'
<1> SUFFICES ASSUME IInv, [Next]_vars PROVE IInv'
  OBVIOUS
<1>1. ASSUME NEW r \in Requests, NEW body \in Submissions, Post(r, body) PROVE IInv'
  BY <1>1, PostKeeps
<1>2. ASSUME NEW r \in Requests, Client(r) PROVE IInv'
  BY <1>2, ClientKeeps
<1>3. ASSUME NEW r \in Requests, Handler(r) PROVE IInv'
  <2>1. CASE Check(r)
    BY <2>1, CheckKeeps
  <2>2. CASE \E peer \in Peers : Endorse(r, peer)
    BY <2>2, EndorseKeeps
  <2>3. CASE Broadcast(r)
    BY <2>3, BroadcastKeeps
  <2>4. CASE CommitStatus(r)
    BY <2>4, CommitStatusKeeps
  <2>5. CASE Timeout(r)
    BY <2>5, RefusalKeeps DEF Timeout, Timed
  <2> QED
    BY <1>3, <2>1, <2>2, <2>3, <2>4, <2>5 DEF Handler
<1>4. ASSUME NEW r \in Requests, Break(r) PROVE IInv'
  BY <1>4, BreakKeeps
<1>5. ASSUME NEW r \in Requests, Order(r) PROVE IInv'
  BY <1>5, OrderKeeps
<1>6. ASSUME NEW peer \in Peers, Commit(peer) PROVE IInv'
  BY <1>6, CommitKeeps
<1>7. CASE UNCHANGED vars
  <2>1. UNCHANGED <<client, sent, handler, status, readSets, inFlight, chain, height>>
    BY <1>7 DEF vars
  <2>2. TypeOK' /\ ReadAbsent'
    BY <2>1 DEF IInv, TypeOK, ReadAbsent
  <2>3. \A q \in Requests : Body(q)' = Body(q)
    BY <2>1 DEF Body
  <2>4. Bodies'
    BY <2>1, <2>3 DEF IInv, Bodies
  <2>5. ChainTrue' /\ OneWriter'
    BY <2>1, ChainKept
  <2>6. AcksBacked'
    BY <2>1 DEF IInv, AcksBacked, CommittedAs
  <2> QED
    BY <2>2, <2>4, <2>5, <2>6 DEF IInv
<1> QED
  BY <1>1, <1>2, <1>3, <1>4, <1>5, <1>6, <1>7 DEF Next

LEMMA Inductive == Spec => []IInv
  BY IInvInit, IInvNext, PTL DEF Spec

\* The transaction behind an acknowledgement.
LEMMA AckedFacts ==
  ASSUME IInv, NEW r \in Acknowledged
  PROVE  \E i \in DOMAIN chain :
           /\ CommittedAs(i, r)
           /\ chain[i].event.id = Key(r)
           /\ Accepts(r, chain[i])
<1>1. r \in Requests /\ \E i \in Nat : CommittedAs(i, r)
  BY DEF Acknowledged, IInv, AcksBacked
<1>2. PICK i \in Nat : CommittedAs(i, r)
  BY <1>1
<1>3. i \in DOMAIN chain
  BY <1>2, ChainFacts, PeersAssumption DEF CommittedAs, IInv, TypeOK
<1>4. chain[i].event = Body(r).event /\ chain[i].digest = Body(r).event
  BY <1>2, <1>3 DEF CommittedAs, IInv, ChainTrue
<1> QED
  BY <1>2, <1>3, <1>4 DEF Accepts, Key

\* A valid transaction is the version of its key, wherever it is committed.
LEMMA OnlyVersion ==
  ASSUME IInv, NEW i \in DOMAIN chain, chain[i].valid,
         NEW peer \in Peers
  PROVE  LET version == Version(chain[i].event.id, height[peer])
         IN  /\ version \subseteq {i}
             /\ i \in 1 .. height[peer] => version = {i}
             /\ version # {} => Latest(chain[i].event.id, height[peer]) = chain[i]
<1> DEFINE version == Version(chain[i].event.id, height[peer])
<1>1. height[peer] \in 0 .. Len(chain) /\ DOMAIN chain = 1 .. Len(chain) /\ Len(chain) \in Nat
  BY ChainFacts DEF IInv, TypeOK
<1>2. version \subseteq {i}
  BY <1>1 DEF Version, IInv, OneWriter
<1>3. i \in 1 .. height[peer] => version = {i}
  BY <1>2 DEF Version
<1>4. ASSUME version # {}
      PROVE  Latest(chain[i].event.id, height[peer]) = chain[i]
  <2>1. version = {i} /\ i \in Nat
    BY <1>1, <1>2, <1>4
  <2>2. (CHOOSE k \in version : \A j \in version : j <= k) = i
    BY <2>1
  <2> QED
    BY <2>2 DEF Latest
<1> QED
  BY <1>2, <1>3, <1>4

\* Requests, transactions and peers always have their types.
THEOREM TypeCorrect == Spec => []TypeOK
<1>1. IInv => TypeOK
  BY DEF IInv
<1> QED
  BY <1>1, Inductive, PTL

\* Of all posts of an event id at most one is acknowledged.
THEOREM OneAckPerEvent == Spec => []AcksOnce
<1>1. IInv => AcksOnce
  <2> SUFFICES ASSUME IInv, NEW r1 \in Acknowledged, NEW r2 \in Acknowledged,
                      Key(r1) = Key(r2)
               PROVE  r1 = r2
    BY DEF AcksOnce
  <2>1. PICK i \in DOMAIN chain : CommittedAs(i, r1) /\ chain[i].event.id = Key(r1)
    BY AckedFacts
  <2>2. PICK j \in DOMAIN chain : CommittedAs(j, r2) /\ chain[j].event.id = Key(r2)
    BY AckedFacts
  <2>3. i = j
    BY <2>1, <2>2 DEF CommittedAs, IInv, OneWriter
  <2> QED
    BY <2>1, <2>2, <2>3 DEF CommittedAs
<1> QED
  BY <1>1, Inductive, PTL

\* An acknowledged event is at the gateway's peer, and no peer ever has
\* another record under its id.
THEOREM AckedForGood == Spec => []AckedStays
<1>1. IInv => AckedStays
  <2> SUFFICES ASSUME IInv, NEW r \in Acknowledged
               PROVE  /\ Serves(GatewayPeer, r)
                      /\ \A peer \in Peers : Version(Key(r), height[peer]) # {} =>
                           Serves(peer, r) /\ Accepts(r, Latest(Key(r), height[peer]))
    BY DEF AckedStays
  <2>1. PICK i \in DOMAIN chain :
          CommittedAs(i, r) /\ chain[i].event.id = Key(r) /\ Accepts(r, chain[i])
    BY AckedFacts
  <2>2. ASSUME NEW peer \in Peers, Version(Key(r), height[peer]) # {}
        PROVE  Serves(peer, r) /\ Accepts(r, Latest(Key(r), height[peer]))
    <3>1. Latest(Key(r), height[peer]) = chain[i]
      BY <2>1, <2>2, OnlyVersion DEF CommittedAs
    <3> QED
      BY <2>1, <2>2, <3>1 DEF Serves, CommittedAs
  <2>3. Version(Key(r), height[GatewayPeer]) # {}
    BY <2>1, OnlyVersion, PeersAssumption DEF CommittedAs
  <2> QED
    BY <2>2, <2>3, PeersAssumption
<1> QED
  BY <1>1, Inductive, PTL

-----------------------------------------------------------------------------
(***************************************************************************)
(* The refinement of EventStore.                                           *)
(***************************************************************************)

Holders == [id \in Ids |-> Holder(id)]

LEMMA InitRefines == Init => Store!Init
<1> SUFFICES ASSUME Init PROVE Store!Init
  OBVIOUS
<1>1. \A id \in Ids : Holder(id) = {}
  BY DEF Init, Holder, Version
<1>2. Acknowledged = {}
  BY DEF Init, Acknowledged
<1> QED
  BY <1>1, <1>2 DEF Store!Init

\* As long as the chain is not extended, the holders stay.
LEMMA HoldersKept == UNCHANGED chain => UNCHANGED Holders
  BY DEF Holders, Holder, Version

\* A valid transaction takes an id that nobody holds, another one none.
LEMMA OrderRefines ==
  ASSUME IInv, NEW r \in Requests, Order(r)
  PROVE  \/ Key(r) \in Ids /\ Store!Record(Key(r), r)
         \/ UNCHANGED <<Holders, Acknowledged>>
<1> DEFINE n == Len(chain)
           valid == readSets[r][GatewayPeer] = {Version(Key(r), n)}
           t == [request |-> r, event |-> Body(r).event, digest |-> Body(r).digest,
                 valid |-> valid]
<1>1. /\ r \in inFlight
      /\ chain' = Append(chain, t)
      /\ UNCHANGED <<status, sent>>
  BY DEF Order, handlerVars
<1>2. /\ Body(r).event \in Events
      /\ Body(r).digest \in Events
      /\ Key(r) \in Ids
  BY <1>1, BodyFacts DEF IInv, Bodies
<1>3. n \in Nat /\ DOMAIN chain = 1 .. n /\ chain \in Seq(TransactionType)
  BY ChainFacts DEF IInv, TypeOK
<1>4. t \in TransactionType
  BY <1>2 DEF TransactionType
<1>5. t.request = r /\ t.event.id = Key(r) /\ t.valid = valid
  BY DEF Key
<1>6. UNCHANGED Acknowledged
  BY <1>1 DEF Acknowledged
<1> HIDE DEF t
<1>7. /\ Len(chain') = n + 1
      /\ \A i \in 1 .. n : chain'[i] = chain[i]
      /\ chain'[n + 1] = t
  BY <1>1, <1>3, <1>4
<1>8. \A i \in 1 .. (n + 1) : i \in 1 .. n \/ i = n + 1
  BY <1>3
<1>9. ASSUME NEW id \in Ids
      PROVE  Version(id, Len(chain))' =
               Version(id, n) \cup (IF valid /\ id = Key(r) THEN {n + 1} ELSE {})
  <2>1. Version(id, Len(chain))' =
          {i \in 1 .. (n + 1) : chain'[i].valid /\ chain'[i].event.id = id}
    BY <1>7 DEF Version
  <2>2. \A i \in 1 .. n : i \in Version(id, Len(chain))' <=> i \in Version(id, n)
    BY <1>3, <1>7, <2>1 DEF Version
  <2>3. n + 1 \in Version(id, Len(chain))' <=> t.valid /\ t.event.id = id
    BY <1>3, <1>7, <2>1
  <2>4. n + 1 \in Version(id, Len(chain))' <=> valid /\ id = Key(r)
    BY <1>5, <2>3
  <2>5. Version(id, n) \subseteq 1 .. n
    BY DEF Version
  <2> HIDE DEF valid
  <2> QED
    BY <1>3, <1>8, <2>1, <2>2, <2>4, <2>5
<1>10. ASSUME NEW id \in Ids
       PROVE  Holder(id)' =
                Holder(id) \cup (IF valid /\ id = Key(r) THEN {r} ELSE {})
  <2>1. Holder(id)' = {chain'[i].request : i \in Version(id, Len(chain))'}
    BY <1>7 DEF Holder, Version
  <2>2. \A i \in Version(id, n) : chain'[i] = chain[i]
    BY <1>7 DEF Version
  <2>3. Holder(id) = {chain[i].request : i \in Version(id, n)}
    BY DEF Holder
  <2> HIDE DEF valid
  <2>4. CASE valid /\ id = Key(r)
    <3>1. Version(id, Len(chain))' = Version(id, n) \cup {n + 1}
      BY <1>9, <2>4
    <3>2. chain'[n + 1].request = r
      BY <1>5, <1>7
    <3> QED
      BY <2>1, <2>2, <2>3, <2>4, <3>1, <3>2
  <2>5. CASE ~(valid /\ id = Key(r))
    <3>1. Version(id, Len(chain))' = Version(id, n)
      BY <1>9, <2>5
    <3> QED
      BY <2>1, <2>2, <2>3, <2>5, <3>1
  <2> QED
    BY <2>4, <2>5
<1>11. CASE valid
  <2>1. {Version(Key(r), n)} \subseteq {{}}
    BY <1>11, PeersAssumption DEF IInv, ReadAbsent
  <2>2. Holder(Key(r)) = {}
    BY <2>1 DEF Holder
  <2>3. \A id \in Ids : Holder(id)' = IF id = Key(r) THEN {r} ELSE Holder(id)
    BY <1>10, <1>11, <2>2
  <2>4. Holders' = [Holders EXCEPT ![Key(r)] = {r}]
    BY <1>2, <2>3 DEF Holders
  <2> QED
    BY <1>2, <1>6, <2>2, <2>4 DEF Store!Record, Holders
<1>12. CASE ~valid
  BY <1>6, <1>10, <1>12 DEF Holders
<1> QED
  BY <1>11, <1>12

\* The gateway acknowledges the holder of an id.
LEMMA CommitStatusRefines ==
  ASSUME IInv, NEW r \in Requests, CommitStatus(r)
  PROVE  \/ \E id \in Ids : Store!Acknowledge(id, r)
         \/ UNCHANGED <<Holders, Acknowledged>>
<1>1. PICK i \in 1 .. height[GatewayPeer] :
        chain[i].request = r /\ Answer(r, StatusOf(chain[i]))
  BY DEF CommitStatus
<1>2. handler[r] = "submitted" /\ UNCHANGED chain
  BY DEF CommitStatus, ledgerVars
<1>3. UNCHANGED Holders
  BY <1>2, HoldersKept
<1>4. r \notin Acknowledged
  BY <1>2 DEF Acknowledged, IInv, AcksBacked
<1>5. status' = [status EXCEPT ![r] = StatusOf(chain[i])]
  BY <1>1 DEF Answer
<1>6. CASE chain[i].valid
  <2>1. Acknowledged' = Acknowledged \cup {r}
    BY <1>5, <1>6 DEF Acknowledged, StatusOf, IInv, TypeOK
  <2>2. i \in DOMAIN chain
    BY ChainFacts, PeersAssumption DEF IInv, TypeOK
  <2>3. chain[i].event.id = Key(r) /\ Key(r) \in Ids
    BY <1>1, <1>2, <2>2, BodyFacts DEF IInv, ChainTrue, Key
  <2>4. i \in Version(Key(r), Len(chain))
    BY <1>6, <2>2, <2>3, ChainFacts DEF Version, IInv
  <2>5. r \in Holders[Key(r)]
    BY <1>1, <2>3, <2>4 DEF Holders, Holder
  <2>6. Store!Acknowledge(Key(r), r)
    BY <1>3, <1>4, <2>1, <2>5 DEF Store!Acknowledge, Holders
  <2> QED
    BY <2>3, <2>6
<1>7. CASE ~chain[i].valid
  BY <1>3, <1>4, <1>5, <1>7 DEF Acknowledged, StatusOf, IInv, TypeOK
<1> QED
  BY <1>6, <1>7

\* A refusal is not seen by the store.
LEMMA RefusalHidden ==
  ASSUME IInv, NEW r \in Requests, handler[r] # "answered", UNCHANGED chain,
         UNCHANGED status \/ Answer(r, 400) \/ Answer(r, 409)
  PROVE  UNCHANGED <<Holders, Acknowledged>>
<1>1. r \notin Acknowledged
  BY DEF Acknowledged, IInv, AcksBacked
<1>2. UNCHANGED Acknowledged
  BY <1>1 DEF Acknowledged, Answer, IInv, TypeOK
<1> QED
  BY <1>2, HoldersKept

LEMMA NextRefines ==
  IInv /\ [Next]_vars => Store!Next \/ UNCHANGED <<Holders, Acknowledged>>
<1> SUFFICES ASSUME IInv, [Next]_vars
             PROVE  Store!Next \/ UNCHANGED <<Holders, Acknowledged>>
  OBVIOUS
<1>1. ASSUME UNCHANGED <<chain, status>>
      PROVE  UNCHANGED <<Holders, Acknowledged>>
  BY <1>1, HoldersKept DEF Acknowledged
<1>2. ASSUME NEW r \in Requests, NEW body \in Submissions, Post(r, body)
      PROVE  UNCHANGED <<Holders, Acknowledged>>
  BY <1>1, <1>2 DEF Post, ledgerVars
<1>3. ASSUME NEW r \in Requests, Client(r)
      PROVE  UNCHANGED <<Holders, Acknowledged>>
  BY <1>1, <1>3 DEF Client, Receive, GiveUp, ReadBack, handlerVars, ledgerVars
<1>4. ASSUME NEW r \in Requests, Handler(r)
      PROVE  Store!Next \/ UNCHANGED <<Holders, Acknowledged>>
  <2>1. CASE Check(r)
    BY <2>1, RefusalHidden DEF Check, ledgerVars
  <2>2. CASE \E peer \in Peers : Endorse(r, peer)
    BY <2>2, RefusalHidden DEF Endorse, ledgerVars
  <2>3. CASE Broadcast(r)
    BY <2>3, RefusalHidden DEF Broadcast
  <2>4. CASE CommitStatus(r)
    BY <2>4, CommitStatusRefines DEF Store!Next
  <2>5. CASE Timeout(r)
    BY <2>5, RefusalHidden DEF Timeout, Timed, ledgerVars
  <2> QED
    BY <1>4, <2>1, <2>2, <2>3, <2>4, <2>5 DEF Handler
<1>5. ASSUME NEW r \in Requests, Break(r)
      PROVE  UNCHANGED <<Holders, Acknowledged>>
  BY <1>1, <1>5 DEF Break, ledgerVars
<1>6. ASSUME NEW r \in Requests, Order(r)
      PROVE  Store!Next \/ UNCHANGED <<Holders, Acknowledged>>
  BY <1>6, OrderRefines DEF Store!Next
<1>7. ASSUME NEW peer \in Peers, Commit(peer)
      PROVE  UNCHANGED <<Holders, Acknowledged>>
  BY <1>1, <1>7 DEF Commit, handlerVars
<1>8. CASE UNCHANGED vars
  BY <1>1, <1>8 DEF vars
<1> QED
  BY <1>2, <1>3, <1>4, <1>5, <1>6, <1>7, <1>8 DEF Next

\* The ledger implements the map that is written once per id.
THEOREM Refinement == Spec => ImplementsStore
<1>1. IInv /\ [Next]_vars => [Store!Next]_<<Holders, Acknowledged>>
  BY NextRefines
<1> QED
  BY <1>1, InitRefines, Inductive, PTL DEF Spec, ImplementsStore, Store!Spec, Holders

=============================================================================
