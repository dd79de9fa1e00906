# Verification of the EUDR/EPCIS proving pipeline

TLA+ models, TLC runs and TLAPS proofs for the pipeline in this repository:
Fabric ledger ingest, SP1 policy leaf proofs, recursive epoch aggregates and
the Solidity contracts that anchor them. Paths below are relative to the
repository.

## 1. The system

| component | state it keeps | operations | hard parts |
|---|---|---|---|
| Policy leaf program, `crates/sp1-e2e/policy/src/lib.rs`, `program/` | none | `evaluate` (C1 geofence, C2 credential, C3 thresholds and time, C4 signature and role, C5 nullifier) | anyone may prove, on any root, at any time; boundary cases of the geofence |
| Epoch program, `policy/src/epoch.rs`, `epoch-program/` | the loop of `evaluate` | one aggregate of up to 8 leaves or aggregates | keys of the children are inputs; sums and bounds through nesting |
| `PolicyRegistry.sol` | allowed root pairs | `setPolicyRoots` | revocation between a proof and its transaction |
| `EpochAnchor.sol`, `EpochAggregateAnchor.sol` | nullifier root, anchored epochs | `verifyAndAnchor` | submission order, stale roots, replay |
| `VeCroTokenAdaptedAnchor.sol`, `ShipmentHashAnchor.sol` | tokens, shipment digests | `verifyAndMint`, `anchor` | replay, zero digests |
| Issuer registry, `policy/src/registry.rs` | lot ownership catalog | `snapshot`, `encode_catalog`, `decode_catalog` | atomic rejection, restarts |
| Nullifier map, `SparseNullifierMap` in `lib.rs` | tree nodes | `empty_path`, `insert`, `root` | agreement with the contract's root |
| E4/E3 cell, `script/src/bin/e4_real_cell.rs` | stop flag, window, two channels, run accounting | `produce`, `run`, `run_baseline`, `schedule` | 32 threads, reordering, deadline, failures, joins; shipments that do not divide |
| E2 benchmark, `bin/e2_real_benchmark.rs`, `queue.rs` | bounded queue, counters | producer, consumer, terminal record | saturation, one row per lot, stop and join |
| Orchestration, `script/src/lib.rs`, `aggregation_archive.rs` | archived witnesses and paths | leaf proofs, reduction tree, path recording | order of leaves across levels, host ahead of the chain |
| Fabric chaincode and gateway, `infra/fabric`, client `http.rs` | ledger keys | create, read | concurrent creates, commit status timeouts |
| Anchor server, `contracts/test/anvil_sp1_anchor_server.mjs` | contracts in use, nonce | deploy, anchor, mint, reset | module variables read again after an await |
| Disclosure, `crates/disclosure` | none | `open_bundle`, `verify_openings`, `verify_on_chain` | parts that must belong together; a chain that moves between the reads |
| E1 benchmark, `crates/e1-bench` | traces, output file, the panic hook | witnesses, traces and constraints of C1 to C5, runner, recursive wrapper | padding and boundary cases, workers, kills, one hook for all threads |
| E2 synthetic benchmark, `crates/e2-bench` | none | synthetic lots, simulated timeline | lot sizes |
| `crates/epcis-mapper` | none | document conversion | none that state can go wrong in |
| Scripts: `e4_run.py`, `hpc_run.py`, `local_watchdog.py`, planners, analyzers | result ledgers | run, resume, merge | crash and resume of a campaign |

How they interact: `e4_real_cell` posts events to the Fabric gateway, reads
them back, proves each lot as a leaf on the root its own nullifier map gives,
aggregates the leaves of an epoch and sends the aggregate to the anchor server,
which sends a transaction to the contract. The contract reads the registry in
the same transaction. A holder of an archive makes a view of some events of a
lot, and a verifier checks it against the chain. The E1 benchmark is a program
of its own that proves the same five statements with other circuits.

What makes them correct: a lot is accounted for at most once on chain; what is
anchored was proved by the right program under a policy allowed at that moment;
counts are exact; a run delivers its schedule in order, ends, and says truly how
it ended; a view is accepted exactly when it tells the truth about an anchored
lot; a circuit has no proof of a false statement and one of every true one.

## 2. Modules

```
PolicyLeaf <- PolicyRegistry <- EpochAnchor              -> NullifierLedger
     ^               ^               ^
     |               |               +-- IssuedLots  (with IssuerRegistry)
     |               +--------- EpochAggregateAnchor     -> NullifierLedger
     |               +--------- VeCroTokenAdaptedAnchor  -> NullifierLedger
     +--- EpochAggregate <------------+ (extended by EpochAggregateAnchor)
LeafSchedule <- OrderedIngest -> LeafStream
E2Pipeline
FabricLedger -> EventStore
EpochTree <- EpochArchive <- ArchivedRun <- ViewVerify
   ^         PublicChain <- AnchorServer <--+    |
   +-------- Disclosure <------------------------+
Geofence <- GeofenceAir <- E1Prover;  LotAirs <- GeofenceAir
Geofence <- GeofenceWalk
E1Prover, GeofenceWalk, LotCuts             (run side by side)
E1Runner
AnchorLemmas <- EpochAggregateProofs, VeCroTokenProofs
AnchorLemmas, IssuedLots <- EpochAnchorProofs
OrderedIngest, LotCuts, GeofenceWalk <- CellProofs
E2Pipeline, E1Runner, E1Prover <- BenchmarkProofs
FabricLedgerProofs, ViewVerifyProofs
                             (each extends the module it is named for)
```
`<-` is EXTENDS, `->` is refinement.

Contracts, programs and issuer:

* **PolicyLeaf** models `evaluate` as a relation. A digest that commits to data
  is the data: a nullifier root is the set of nullifiers used in its tree, a
  certificate root its set of credentials. So hash collisions and forged
  signatures do not exist, and Groth16 and SP1 recursion are taken as sound; all
  else about proofs is open, `LeafOutputs` being every output anyone can prove.
  A batch carries the outcome of the per-event checks as facts.
* **PolicyRegistry** is the contract, one action.
* **EpochAnchor** has one action per transaction, `VerifyAndAnchor` with the
  contract's guards and `SetPolicy`. Reverting transactions change nothing and
  are no steps. `log` is the sequence of emitted events.
* **EpochAggregate** models `epoch::evaluate`, an iteration of its loop per step
  (`FirstChild`, `NextChild`), ending in `CommitNode` or `AbortNode`. The keys
  are chosen by whoever proves, and `ForeignProofs` are proofs of other builds.
* **EpochAggregateAnchor** composes prover, registry and contract.
* **VeCroTokenAdaptedAnchor** mints a token per leaf, several per epoch. Its
  submitter states no expectations, so the guards differ from EpochAnchor's.
* **IssuerRegistry** models `registry.rs`: `Snapshot` with its rejections, the
  catalog file (`Encode`, `Decode`, `Save`) and `Restart` from it. A restart
  loses what was not written; `forgotten` records those lots. **IssuedLots**
  composes it with EpochAnchor under the assumption that the owner allows only
  certificate roots of snapshots that were issued (`SetIssued`), as the run
  harnesses do; nothing on chain enforces that.
* **NullifierLedger** is what the three anchors promise: transitions under fresh
  tags that spend fresh nullifiers.

Runs and ledger:

* **OrderedIngest** models the threads of `e4_real_cell`: `pc`/`at` for the
  workers of `produce`, `collector` for its receive loop and `wait_for_window`'s
  counter, `consumer` for the loops of `run` (`config.mode` proposed or vecro)
  and `run_baseline` (baseline). `config` is the command line. A step ends at the
  next access to shared state. The deadline is the action `Expire`. Of the events
  of a leaf, the last one stands for all: pacing, posting and failing are the
  same for each. Of shipments the model keeps where they end. `faults`, `cutBy`
  and `posted` are for the properties only.
* **LeafSchedule**, **LeafStream**: the message order of a run, and the promise
  to the consumer: that order, one message at a time, then a status.
* **LotCuts** cuts the schedule of a run into shipments and leaves (`schedule`,
  `shipment_sizes`) and the arrivals of the synthetic benchmark into lots
  (`accumulate_lots`). Arrivals are numbers of events.
* **E2Pipeline** models one seed of `e2_real_benchmark`: the producer thread
  (`Post`, `ReadBack`, `SendBeforeDeadline`, `CountQueued`), the main loop
  (`Receive`, `Prove`, `Anchor`, `WriteRow`) and the end of the run (`Join`,
  `WriteUnfinished`, `WriteTerminal`). `stats` are the counters that both threads
  update under a mutex; a counter is updated in a step of its own, as in the
  code.
* **FabricLedger** models a post from the client's `post_event` through the
  gateway's `createEvent` and the chaincode's `CreateEvent` to the read-back.
  `handler` is the goroutine of a request, which outlives its client. Fabric is
  external: peers endorse on their own height, transactions get one order or are
  lost, and one is valid if the key it read was not written since. **EventStore**
  is the promise: a map written once per id, acknowledged to its writer only.

From a proof to a view that is verified:

* **EpochTree** holds the trees a policy proof commits to, with real paths and
  siblings (events of a lot, credentials, the host's sparse nullifier map), and
  the public values of leaves and nodes. Here a digest is the tuple of what was
  hashed, so two digests are equal exactly when their inputs are.
* **EpochArchive** is the host's side: `ProveLeaf` per lot, then the reduction
  over groups of `MaxFanIn`, which appends a level to the path of every leaf
  below it (`AppendLevel`, `ProveNode`).
* **PublicChain** is an Ethereum node as the repository uses it, external but for
  the contract's `VerifyAndAnchor` and `SetPolicy`: one sending account, its
  transactions mined in order, a block at a time, gas estimated before sending,
  the last block replaced at most `MaxReorgs` times.
* **AnchorServer** is `/e3/reset` and `/e3/anchor`, one action from await to
  await (`ResetRequest`, `VerifierDeployed`, `AnchorDeployed`; `AnchorRequest`,
  `ReceiptArrives`, `RootArrives`, `AddressArrives`); `handlers` are the locals
  of each suspended handler, `epochAnchor` and `verifier` the module's variables.
  The verifier is kept by `??=` over resets.
* **ArchivedRun** composes them: a run of the host (`HostResets` ...
  `NextEpoch`), another client that resets the same server, and the owner, who
  revokes the policy once.
* **Disclosure** is `lib.rs` of the disclosure crate: which selections parse, the
  bundle `view-open` makes (`OpenOk`, `Bundle`) and what `verify_openings` checks.
* **ViewVerify** is `verify_on_chain`, one action per RPC (`StartView`,
  `ReadReceipt`, `ReadBlock`, `ReadTx`, `ReadAnchor`, `ReadPolicy`). The
  comparison of the transaction's calldata with the receipt's log is in `ReadTx`.

The E1 benchmark:

* **Geofence** is `validate_polygon` and `is_strictly_outside` on points of a
  lattice. **GeofenceWalk** walks a point around a polygon, one lattice step at a
  time, to compare the ray count with what a boundary is.
* **GeofenceAir** is circuit C1 and **LotAirs** are C2 to C5: the witness checks,
  the rows the trace builders write, padding included, and the constraints on
  first, last, every and neighbouring rows. **E1Prover** proves a job row by row
  (`BuildWitness`, `CheckRow`), with the tamperings of the crate's tests.
* **E1Runner** is `run_benchmark` with its workers, sorting, flushing and kills,
  and `prove_recursive_wrapper_with_depth`, whose steps take, silence and restore
  the panic hook of the process.

Definitions whose comment begins with `Mutant` are faulty variants of the
definition below them. They are used by nothing; each one shows that a property
notices the fault.

## 3. Runs

| run | shows | bounds |
|---|---|---|
| `epoch_anchor` | any leaf proofs in any order: epochs once even with a zero digest, refinement of the ledger, which spends each nullifier once | 2 lots x 2 keys, 3 epochs, 7 batches, 3 policies, non-empty initial root |
| `epoch_aggregate` | nested aggregates, two root pairs, an older leaf build and two aggregates of an older epoch build: genuine leaves, exact counts, policy allowed at anchoring | 3 lots, 2 epochs, 6 batches, fan-in 3, 2 aggregates, u64 of 128 so that `checked_mul` fails on 3 lots |
| `issued_lots` | snapshots agree on keys over restarts, refused requests leave nothing behind, the catalog can be read back, and a lot is anchored once | 3 lots x 2 keys, a catalog of 2 lots, 6 requests |
| `vecro_token` | several leaves per epoch: no batch and no nullifier minted twice | 2 lots x 2 keys, 2 epochs, 5 batches, 2 policies |
| `ordered_ingest` | order, window, honest status, quiet after report, termination, for three command lines: proposed and paced with a deadline, vecro and baseline accelerated without | 5 leaves in epochs of 2 and 3, 3 workers, window 4, queue 1 |
| `e2_pipeline` | failures at every stage, lost receipts, a full queue: the records pass the audit of `e2_real_analyze.py`, the terminal status is true, the host keeps in step with the chain, the run ends | 5 lots of 2 events, queue of 3 |
| `fabric_ledger` | concurrent and repeated posts, timeouts, lost transactions, dying handlers: an acknowledged record stays, posts end, refinement of the store | 2 requests, 2 ids, 3 events of which two share an id, one body with a wrong digest, 2 peers |
| `view_verify` | an archived run, a second client that resets the server, a revocation, a replaced block, and views as made or altered: paths lead to the anchored root, a reply names the right contract, exactly the true views are accepted | epochs of 3 and 1 lots of 2 or 3 events, fan-in 2, 5 transactions, 2 of them in a block, one replaced block, one view |
| `e1_prover` | no false statement has a proof and every true one has, but for points level with an edge in C1; the geofence answer changes exactly at the boundary; lots are cut to fit | points on 5 x 5, polygons of up to 5 vertices, lots of 2 and 3 events of at most 4, trees of 2 to 4 places; all triangles and most quadrilaterals of 3 x 3; cuts with the real sizes and 0 to 140 events |
| `e1_runner` | the file is the beginning of one run's grid, success is the whole of it, the wrapper covers the five circuits, the hook is put back unless steps overlap | 2 lot sizes, 2 seeds, 2 circuits, up to 2 workers, 2 starts |
| `infra_cuts`, `c1_level` | two disagreements of the code with the repository's words, see section 6 | 3 leaves, 2 workers; as `e1_prover` |

Why the bounds are enough. The anchors compare one root, one epoch and one
policy per transaction; two conflicting transitions plus one in between (3
epochs) exhaust the order in which they can disagree, and the proofs of section
5 lift the results to any sizes. In an aggregate, two nodes give nesting and
fan-in 3 a middle child. `MaxAggregates` bounds the proofs that exist, not the
transactions. A catalog limit below the number of lots makes the limit refuse a
request that is otherwise fine. In the ingest, fewer workers than leaves gives a
worker a second assignment, a window below the number of leaves makes waiting
happen, a queue of 1 makes the collector block in the middle of an epoch, and
two epochs put an EpochEnd in the middle of the stream. 32 and 64 of the code
keep the relation workers <= window. In E2, a queue of 3 for 5 lots fills while
the main thread is busy, so that lots are dropped for saturation both before and
after others got through. In Fabric, conflicts are between two transactions on
one key; any number of requests is covered by proof, and progress of a request
does not depend on others.

For views, three lots and fan-in 2 give a tree with a short last group and paths
of different lengths, the second epoch starts from a root that is not empty and
is a single leaf, and two lots of the first have paths of the same form to mix.
Five transactions are the deployments of the verifier and of two anchors and the
two epochs. To keep the run small, blocks are replaced and a view begins
only when the host's run is over, one view is made, since views share nothing,
and the world stops when it is decided. Until then resets, blocks, a revocation
and a replaced block may come between any two of its reads.

In `e1_prover` the points of the grid are inside, outside, on edges, on vertices
and level with each kind of edge; five vertices leave polygons with and without
padding. The widths `OrientBits` and `CompareBits` are as tight for the grid as
56 and 29 bits are for degrees times a million: the largest value that occurs
just fits. The least height of a trace (`MinRows`) is reached, exceeded and met.
The walks use all shapes up to symmetry that the exemptions of `NoCrossing` can
tell apart: shared vertices, collinear neighbours, crossings and notches.

Fairness. `OrderedIngest!FairSpec` and `E2Pipeline!Fairness`: weak fairness of
each thread. Threads are scheduled by the operating system, and each blocking
call ends: HTTP requests have read and write timeouts (180 s and 30 s in
`http.rs`), proving terminates, and the send to E2's queue has a deadline. The
wall-time deadline of E4 need not come: `config.deadline` is FALSE in two of the
three command lines, and `Expire` has no fairness. `FabricLedger!FairSpec`: weak
fairness of clients and handlers, whose every wait has a timeout (`http.rs`, and
137-145 of `gateway/main.go`); nothing is assumed of peers and orderers. The
anchors have no liveness property, since nobody must submit, and a view or a
reply may wait for a chain that need not go on.

`OrderedIngest` and `E2Pipeline` have a final self-loop `Finished` for the end
of `main`. Deadlock is not checked in `fabric_ledger`, `view_verify`,
`e1_prover`, `c1_level` and `e1_runner`: there the system rests when nobody
posts, when all is verified, when a job is done, when the program may not be
started again.

## 4. Properties

Each is stated in words where it is defined.

* Anchors: `EpochsOnce`, `BatchesOnce` and the refinement `ImplementsLedger`,
  which says of every anchor's state that a nullifier is spent once; for
  aggregates `CountsExact`, `LeavesGenuine` and `AnchoredOnlyWhileAllowed`.
  `SpentOnce`, `Accounted` and `StaleRootsStayStale` are proved only.
* Issuer: `IssuedAgree` (one key per lot over restarts), `BackedBySnapshot` (a
  refused request leaves no binding), `Restorable` (what is written can be
  read), and with the anchor `LotsAnchoredOnce`. Lots whose binding was never
  written before a restart are excepted: their owner is lost.
* E4 ingest: `OnFabric` (nothing half-posted handed on), `AheadBound` (buffers
  stay within the window), `HonestStatus`, `QuietAfterReport` and the refinement
  `ImplementsStream`: nothing skipped, repeated or overtaken, and the run ends.
  `LotsFit` of the cuts: every lot is of a size that a policy proof takes.
* E2: `AuditAccepts` (the records add up the way the analyzer demands),
  `TerminalTrue`, `ChainInStep` (lots are anchored in order with all their events
  on Fabric, and the rows are at most the one lot behind the chain that is in
  work or lost its receipt), `Ends`.
* Fabric: `AckedStays`, `PostsEnd`, `ImplementsStore`; `AcksOnce` is proved only.
  The store allows an id to be held by a request that was refused: a commit
  status that times out is answered with 409 although the transaction may still
  get in, and a retry then gets 409 for ever. E2 gives every run event ids of its
  own (`run_id`); those of E4 depend on the seed only (`e4_real_cell.rs:805`), so
  a seed that is run again needs a fresh ledger.
* Archived run: `RootsAreTree` (the sparse map's root is the full tree's),
  `HostInStep` (the host's map is never ahead of the chain by an epoch that
  failed), `ReplyTrue` (a 201 names the contract that the transaction went to,
  although a reset may change the server's variable between the awaits: the
  checks of calldata and event in the handler are needed for it),
  `PathsAuthenticate`.
* Views: `AcceptedIsTrue` (parts of different lots, epochs or trees do not pass
  together) and `HonestAccepted`. The latter speaks of views of transactions
  whose block is not replaced and whose policy is not revoked later in that same
  block: the policy is read at the end of the anchoring block, so such a view is
  refused although its policy was allowed when the transaction ran.
* E1 circuits: `NoFalseProof`, `TrueIsProved`; `FollowsBoundary` and `OrderFree`
  for the geofence rule they take for granted. They are about the traces the
  builders write, honest or tampered with as the tests do, not about every trace
  that satisfies the constraints.
* E1 runner: `OnePrefixOfGrid`, `SuccessIsWhole`, `CoversAll` and
  `HookRestored`. When two threads wrap at the same time, one may take the hook
  that the other has silenced and put that back for good; panics are then silent
  for the rest of the process. `HookRestored` excepts that case, which takes the
  `recursion` feature and more than one job.

## 5. Proofs

Checked by TLAPS for every value of the constants, under the assumptions named
in the modules:

* anchors and aggregation: batches and policies well typed, initial root and
  zero digest typed, fan-in and u64 bound sensible, program keys different and
  not those of foreign builds, foreign values decoded;
* ledger, ingest and pipeline: requests and events well typed, the gateway's peer
  a peer, schedules, workers, windows and queues not empty, epochs that end where
  shipments end;
* trees, archive and views: clients and schedule (`ClientsAssumption`), tree
  depths at least one (`EpochTreeAssumption`), one owner and key per lot in the
  issuer's snapshot (`OwnershipAssumption`), a fan-in of two or more and lots
  whose events and credentials fit their trees, with different nullifiers
  (`PathsAssumption`, `TasksAssumption`), and what the presets of `view-open`
  select (`PresetsAssumption`);
* cuts and circuits: bounds that leave room to split a lot (`CutsAssumption`),
  lots of one event or more, depths and ranges that are numbers, a threshold that
  is in range (`LotLengthAssumption`, `SparseAssumption`, `RangeAssumption`), words
  of a point that are two and not the event's first (`EventWordAssumption`), bits
  enough for what two points of the box differ by and for its area
  (`WidthAssumption`: 2^29 exceeds the 360 million millionths of a degree of
  longitude, 2^56 their product with the 180 million of latitude), and jobs of the
  shape their types and constructors give them: a polygon that
  `SimplePolygon::new` accepts, numbers that are numbers, a spoilt secret that
  differs from the secret (`E1ProverAssumption`).

* **AnchorLemmas**: what a leaf output is (`LeafOutputFacts`), that appending a
  transition that starts at the current root keeps the log a chain
  (`AppendTransition`), and that a log in chain order spends nothing twice
  (`OrderedSpendsOnce`).
* **EpochAnchorProofs**: type correctness, `SpentOnce`, `Accounted`,
  `EpochsOnce`, `StaleRootsStayStale`, and refinement of NullifierLedger.
  `SpentOnce` is not inductive: nothing in it says that the current root holds
  what was spent. The invariant `IInv` adds that the log is a chain of growing
  roots ending in the current one (`Chained`), that an earlier transition's new
  root is contained in every later old one (`OrderedIn`), and that the mappings
  agree with the log.
  The second half is about the issuer, alone and with the contract.
  `IssuedAgree` relates snapshots to each other; the invariant `IssuerInv`
  relates each of them, and the written catalog, to what the issuer remembers now
  (`Backs`), so that a restart from the catalog cannot contradict them.
  `BackedBySnapshot` needs the catalog too: after a restart every binding comes
  from it. That it can be read back (`Restorable`) is a count: snapshot and reader
  each check a limit of their own, and what is written is within both. For a lot to be
  anchored once (`LotsAnchoredOnce`), `CertifiedInv` adds that the nullifiers in
  the log and the allowed policies come from issued snapshots; then two leaves of
  a lot have the same key, hence the same nullifier, and `NoDoubleSpend` of
  EpochAnchor, a part of the composition, excludes that.
* **EpochAggregateProofs**: type correctness, `SpentOnce`, `CountsExact`,
  `LeavesGenuine`, `AnchoredOnlyWhileAllowed` and refinement. The invariant is
  about proofs before it is about the chain: an aggregate that reports the two
  right keys is sound (`Sound`: roots grow, lots is the number of nullifiers it
  adds, each of them has a genuine leaf for its epoch and policy, events within
  bounds), and so is the half-built node. It is needed for aggregates with the
  right keys only; those over foreign children are unconstrained, and the keys
  on chain keep them out.
* **VeCroTokenProofs**: `SpentOnce`, `BatchesOnce` and refinement, with the
  chain invariant of AnchorLemmas and the token of every log entry minted.
* **FabricLedgerProofs**: type correctness, `AcksOnce`, `AckedStays` and
  refinement of EventStore, for any number of requests and peers. The argument:
  every endorsement of the chaincode has read that there is no record
  (`ReadAbsent`), so a transaction that passes validation is the first of its id
  in the chain (`OneWriter`), and an acknowledgement rests on such a transaction
  at the gateway's peer (`AcksBacked`).
* **CellProofs** is about a cell of E3 and E4: its lots, the geofence its leaf
  asks, and its ordered ingest. For the ingest: type correctness, `OnFabric`,
  `AheadBound`, `HonestStatus`, `QuietAfterReport`, and the safety half of the refinement of
  LeafStream (its initial state and steps), for any schedule, number of workers,
  window and capacity of the queue. The invariant follows a leaf from its worker
  to the consumer: `WorkerInv` (a worker keeps to its residue class and, past
  `wait_for_window`, to the window), `WaitingInv` and `OnceInv` (what is in the
  results channel or the collector's map is there once, is within the window and
  not yet handed on), `HandedInv` (what is handed on was posted), `StreamInv`
  (handled, in work, queued and due messages make up the schedule) and `CountInv`.
  `AheadBound` is then a matter of counting: what is buffered are different
  leaves, all between the collector's and the window's end. For `HonestStatus`,
  `CauseInv` keeps the reason of every flag that is up, and `FaultInv` says that a
  leaf that could not be posted holds its worker for good. So an ok run, which
  handled all leaves, had no fault; and a run that meets no fault and no deadline
  loses no leaf (`ArrivedInv`), which leaves it no way to end but ok.

  For the cuts, `LotsFit`: what is left of a shipment is always nothing or at
  least a lot (`CutsInv`), since a cut that would leave less takes less itself.
  That the sizes add up is an induction over the list of shipments, done with a
  set of numbers as below (`Induction`, `Recursion`).

  For the geofence, `OrderFree` and `FollowsBoundary`, for any polygons and any
  number of vertices. Both rest on orientations: that of three points is
  antisymmetric (`OrientationTurns`), and an end of a segment that lies on the
  line of another, but not on that other one, has its two ends on one side
  (`SameSide`); so segments have no direction (`SegmentTurns`). For `OrderFree`,
  a polygon and its rotation or reversal have the same edges under a bijection
  that keeps edges apart (`Redraws`), and areas that are equal up to sign, as sums
  that begin elsewhere or run backwards (`SumTurned`, `SumReversed`). For
  `FollowsBoundary`, look at one edge and two neighbouring points: how many it
  crosses of the two rays and of the way between them is odd exactly if one of its
  ends lies between the rays (`EdgeCounts`, with the signs in `SignsUp`). Round
  the polygon every vertex is an end twice, so the three counts add up to an even
  number (`OddTogether`). `WalkAssumption` says that walks begin below all
  vertices of the polygons they go around.
* **BenchmarkProofs**, for E2: type correctness, `ChainInStep`, `AuditAccepts`
  and `TerminalTrue`, for any number of lots and events and any capacity.
  `ProducerInv` says where the counters of the producer stand at each of its
  places and which lots have failed there; `MainInv` relates queue, rows and chain
  to the schedule. A counter that two threads move, and steps that update it late,
  make equalities hold at some places only, which is why these parts go by place.
  The i-th lot of the chain is at least i and at most i plus the dropped ones:
  with that no induction over the chain is needed to show that the rows are in
  step with it. That one row per lot is written is shown by mapping rows to lots
  one to one. `LosslessInv` is for the status: while nothing but the queue has
  failed, each lot that was sent is dropped, queued, in work or has its row.
  For E1: `CoversAll`, `HookRestored`, `SuccessIsWhole` and `OnePrefixOfGrid`, for
  any sizes, seeds, circuits, workers and lots. `WrapperInv` counts: while one
  wrapper at most is between taking and restoring the panic hook, the hook of the
  process is the silent one exactly while that one runs; and the layers folded
  so far are the first circuits in order. `RunnerInv` says how many jobs each
  worker has finished and that what the file holds, and what is still buffered,
  are jobs of the current run. Rows of one seed are a block of the grid, and
  `GridInv` places them by the arithmetic of indexes: the file is whole blocks,
  and then a part of one block only if a single worker writes row by row. With
  several workers a block is written after a sort (`runner.rs:154-163`). That this
  puts each row at its job's place needs that no circuit is listed twice
  (`Unrepeated`) or that one worker runs; the sort is proved to be a permutation
  that moves nothing then.

  For the circuits, `NoFalseProof`, for lots, polygons, padding, depths and ranges
  of any size. `ProverInv` says no more than that a proof has passed every row of
  its witness; what a row then says of the lot is a lemma for each circuit.
  `SoundC1`: each event and each edge of the padded polygon has two rows in the
  trace (`RowsOfEdge`); a point on an edge makes the constraint on a zero
  orientation fail, a crossing of the circuit is one of the policy
  (`EdgeAgrees`), edges of length zero are never crossed (`PaddedEdges`), and the
  parity in the row of the last edge is that of all crossings, so that a proof
  means `StrictlyOutside` (`OutsideByRows`). `SoundC2` and `SoundC5` show that no
  spoilt path, index, leaf or root passes, from what the nodes at the bottom and
  at the top are; `SoundC3` reads ranges and growing times off the rows, `SoundC4`
  the actor.

  The other direction is `TrueIsProved`, with `FailInv`: what has failed had no
  witness or a row that does not hold. `CompleteC1` to `CompleteC5` show that a
  true statement has a witness and that every row of its trace holds, the padded
  rows too. For C1 a row is the first or the second of an edge of an event
  (`RowHasPlace`), and what it holds follows from that (`FirstOf`, `SecondOf`). Its
  orientation fits its bits because twice the area of a triangle is at most that of
  a box around it (`HalfABox`); a point outside touches no edge unless it is level
  with one (`NoTouch`, the only place that needs the exception); sponges,
  counters and parity carry over to the next row (`WithinEdge`, `ToNextEdge`).
  C2 and C5 climb from a place to the root by halves and remainders (`Halving`,
  `PathIsUp`); the nullifier's index is the sum of its bits (`DigitsAre`), and
  using its place changes no node beside its path (`OffThePath`).
* **ViewVerifyProofs**: from the server's replies to views, in five parts.

  *Replies.* `ReplyTrue`, for any clients, schedules, policies, block sizes and
  reorganisations. A handler sends its transaction to the contract that the
  server's variable holds, and compares with the variable again after three
  awaits. The invariant that makes this sound is `DeployInv`: each deployment is
  awaited by one handler, which sets the variable once, so a contract that has
  left the variable never comes back (no ABA). `AnchoringInv`: by the time the
  address is asked, it is the transaction's contract that is asked or that
  contract is gone from the variable, and then the comparison with the event's
  contract fails.

  *Trees.* `RootsAreTree` and `PathsAuthenticate`. `MapInv`: each node that the
  host's sparse map keeps is the node of the whole tree at that place, and a place
  it leaves out stands over no used one. That a path folds to the root is an
  induction over its height. The library's induction theorems cannot be used (they
  take an operator), so `Induction` states it for a *set* of numbers: one that
  holds 0 and with a number the next one is all of Nat. For the reduction,
  `ArchiveInv`: the nodes of a level and of the next one part the leaves among
  themselves (`Apart`, `Grouping`), each leaf's levels so far lead to the node it
  is under (`Carried`), and the groups that are left bound the levels to come
  (`Room`), which a verifier limits.

  *The host in step.* `HostInStep`: `StateOk` and `BlockOk` say what the blocks and
  the states of the chain hold, back to where a reorganisation can return; nothing
  that was anchored is pending while the host proves, and what a suspended handler
  knows of its contract stays true (`Held`, `Posted`) even if another client
  resets the server, because that contract has then left the variable for good.

  *Views.* `HonestAccepted`: every preset opens every archived lot and
  `view-verify` accepts it. `KeysInv` (contracts are deployed with the keys of
  the run), `CoverInv` (a mined transaction is in one block), `AnchoredInv` (the
  transaction of an archived path carries the root the path leads to), and
  `ViewInv` (what the view has read so far is what it should). A credential's path
  and an event's path open by the same induction; ascending selections are shown
  by `AscendingOk`.

  *Accepted is true.* `AcceptedIsTrue`, for any bundle that `Presented` can hold:
  arbitrary `Altered` and `ForeignParts`, not only those of MCViewVerify. A node
  is `Made` if it lies in a set each member of which is the leaf of a witness or
  the evaluation of members of that set. `MadeInv`: the nodes of the tree and what
  a transaction for a contract carries are made. A bundle's top level has the
  commitment of what is anchored; going down its levels, the bundle's children and
  those the node was made of stay in agreement (`Agree`: one commitment, one
  epoch), so at the bottom there is the leaf of a witness (`LeafBelow`), with all
  its words but the nullifier. That word is in no commitment
  (`epoch.rs:204-206`), which is why `TrueOf` does not
  speak of it. A digest that opens belongs to a leaf of the tree it opens under
  (`FoldedFrom`), so events are the witness's, and credentials are the issuer's
  own for that lot (`OwnershipAssumption`). `AcceptInv` says what a view has
  checked at each of its reads.

Only model-checked is liveness: `PostsEnd`, `Ends`, and that a stream ends (the liveness half of
  `ImplementsStream`); it needs fairness and ENABLED.

## 6. Findings

* `infra_cuts`: `scripts/e4_run.py:16-17` says "If wall-time is hit, the run is
  marked 'saturated' (never dropped/replaced). Other infra cuts -> 'censored'."
  A worker raises the stop flag before it sends its error. A collector that
  handles another worker's leaf in between leaves its loop on the flag, and the
  error is lost. If the deadline passes while workers are joined, `produce`
  returns Ok and the run is `saturated` though Fabric cut it.
* `c1_level`: `templates.rs:275` says that C1 "proves every private WGS-84 event
  point is strictly outside a private simple polygon". The constraint on a zero
  orientation (`templates.rs:1362`) drops the test of the longitudes for
  horizontal edges, and so for the edges of length zero that pad a polygon. A
  point that is outside but level with such an edge makes the prover fail.
  `TrueIsProved` holds for all other points.

## 7. Plan

Done, with proofs: the anchors, the aggregation, the token contract, the issuer
alone and with an anchor, Fabric with its gateway, the ordered ingest and the
cuts of E4, the E2 pipeline, the E1 runner, the geofence rule, the soundness and
completeness of the E1 circuits, the anchor server with the archived run, and the verification of
views.
Model-checked only: liveness.

Left to model: the client of FabricLedger under OrderedIngest and E2Pipeline, so
that `OnFabric` rests on EventStore; the second half of the anchor server's
endpoints, which have the form of the first.

Not modelled:

* byte codecs and ABI layout (fixed offsets, covered by unit tests), logging and
  JSON output;
* `ShipmentHashAnchor.sol`: one mapping written once per key. Its zero digest
  leaves the key unset; the digests sent to it are SHA-256 hashes;
* the EPCIS document mapper, a conversion without state, and `e3_epoch_gate`,
  which takes two lots straight through the calls that `e4_real_cell` makes;
* the timeline of `e2-bench` (arithmetic over measured times) and its L1
  adapters (delays);
* the STARK provers and the vendored verifier contracts, taken as sound. In C1
  the end of an edge in its first row is not tied to the vertex of the next row
  by the model, which writes both from one polygon as the builder does;
* the campaign scripts: file ledgers around whole programs, statistics, plans.
