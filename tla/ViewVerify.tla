------------------------------ MODULE ViewVerify ------------------------------
(***************************************************************************)
(* view-verify on a bundle of an archived run: verify_on_chain checks the  *)
(* openings and then reads the chain, one RPC at a time, at the block of   *)
(* the anchoring transaction (disclosure/src/rpc.rs).                      *)
(***************************************************************************)
EXTENDS ArchivedRun, Disclosure

CONSTANTS
  Presets,         \* the selections views are made with
  Altered(_),      \* what a bundle may be changed to on its way
  ForeignParts(_)  \* the sets of parts that may come from another lot's bundle

\* The most leaves that a tree of that many levels of nodes is made over.
LeavesUnder ==
  LET under[k \in Nat] == IF k = 0 THEN 1 ELSE MaxFanIn * under[k - 1]
  IN under

\* No path of a run is longer than a verifier takes.
ASSUME PathsAssumption ==
  /\ MaxLevels \in Nat \ {0}
  /\ \A e \in DOMAIN Tasks : Len(Tasks[e]) <= LeavesUnder[MaxLevels]

\* Events are numbered from zero.
ASSUME PresetsAssumption == \A f \in Presets : f.ranges \subseteq Nat \X Nat

VARIABLE view  \* where verify_on_chain is, its arguments and what it has read

vars == <<runVars, view>>

NoView == [at |-> "none"]

\* Trust is prepared from a deployment: a contract and a verifier of this run.
Deployed(code) ==
  {i \in DOMAIN sent : sent[i].kind = "deploy" /\ sent[i].code = code}

\* The bundles view-open makes of the archive's i-th lot.
BundlesOf(i) ==
  LET input == witnesses[i]
      count == Len(input.events)
  IN {Bundle(input, input.lot, Selection(fields, count), archive[i]) :
        fields \in {f \in Presets :
          /\ FieldsOk(f, count)
          /\ OpenOk(input, input.lot, Selection(f, count), archive[i])}}

Honest == UNION {BundlesOf(i) : i \in DOMAIN archive}

\* Bundles whose parts do not all come from one view-open.
Mixed(one, other) ==
  {[part \in DOMAIN one |-> IF part \in foreign THEN other[part] ELSE one[part]] :
     foreign \in ForeignParts(DOMAIN one)}
Presented ==
  Honest \cup UNION {Altered(b) : b \in Honest}
    \cup UNION {Mixed(b[1], b[2]) :
                  b \in {c \in Honest \X Honest :
                           c[1].lot # c[2].lot /\ Len(c[1].events) = Len(c[2].events)}}

-----------------------------------------------------------------------------

RootOf(bundle) ==
  AuthenticatedRoot(bundle.authentication.levels, TrustedLeafKey, TrustedAggregateKey)

\* The history part: is this a bundle that should verify?
Expected(bundle, anchor, contractVerifier) ==
  LET tx == bundle.authentication.tx
  IN /\ bundle \in Honest
     /\ tx \in 1 .. Mined
     /\ Receipt(tx).status
     /\ sent[tx].to = anchor
     /\ sent[anchor].verifier = contractVerifier
     /\ ThePolicy \in chain[BlockOf(tx)].state.allowed

\* verify_openings and the trusted policies; then the first RPC.  Bound of the
\* model: one view, and only when the run is over.
StartView ==
  /\ view = NoView
  /\ RunOver
  /\ \E bundle \in Presented :
       /\ Decodes(bundle)
       /\ OpeningsOk(bundle, TrustedLeafKey, TrustedAggregateKey)
       /\ \E anchor \in Deployed("anchor"), v \in Deployed("verifier") :
            view' = [at |-> "receipt", bundle |-> bundle, anchor |-> anchor,
                     verifier |-> v, block |-> 0, hash |-> <<>>,
                     expected |-> Expected(bundle, anchor, v), reorgs |-> reorgs]
  /\ UNCHANGED runVars

GoesOn(ok, next) == view' = [view EXCEPT !.at = IF ok THEN next ELSE "rejected"]

\* eth_getTransactionReceipt, its log compared with the authenticated root.
ReadReceipt ==
  LET tx == view.bundle.authentication.tx
      ok == /\ tx \in 1 .. Mined
            /\ Receipt(tx).status
            /\ Receipt(tx).to = view.anchor
  IN /\ view.at = "receipt"
     /\ IF ok THEN view' = [view EXCEPT !.at = "block", !.block = Receipt(tx).block,
                                        !.hash = Receipt(tx).hash]
              ELSE GoesOn(FALSE, "block")
     /\ UNCHANGED runVars

\* eth_getBlockByNumber: the block is still canonical.
ReadBlock ==
  /\ view.at = "block"
  /\ GoesOn(view.block <= Len(chain) /\ chain[view.block].hash = view.hash, "tx")
  /\ UNCHANGED runVars

\* The call carries the whole authenticated root, and the log of it does.
ValuesAreRoot(tx) ==
  sent[tx].values = RootOf(view.bundle)

\* eth_getTransactionByHash
ReadTx ==
  LET tx == view.bundle.authentication.tx
  IN /\ view.at = "tx"
     /\ GoesOn(/\ tx \in 1 .. Mined
               /\ Receipt(tx).hash = view.hash
               /\ sent[tx].to = view.anchor
               /\ ValuesAreRoot(tx), "anchor")
     /\ UNCHANGED runVars

\* The state the node has for a block number by now.
StateAt(block) == IF block <= Len(chain) THEN chain[block].state
                                         ELSE [contracts |-> {}, allowed |-> {}]

\* eth_getCode and the getters of the anchor.
ReadAnchor ==
  LET state == StateAt(view.block)
  IN /\ view.at = "anchor"
     /\ GoesOn(/\ HasCode(state, view.anchor)
               /\ Contract(state, view.anchor).leafKey = TrustedLeafKey
               /\ Contract(state, view.anchor).aggregateKey = TrustedAggregateKey
               /\ Contract(state, view.anchor).verifier = view.verifier, "policy")
     /\ UNCHANGED runVars

\* Mutant: the policy is read at the latest block.
PolicyAllowedNow == ThePolicy \in Latest.allowed

\* allowedPolicies at the anchoring block.
PolicyAllowed == ThePolicy \in StateAt(view.block).allowed

ReadPolicy ==
  /\ view.at = "policy"
  /\ GoesOn(PolicyAllowed, "accepted")
  /\ UNCHANGED runVars

ViewNext ==
  \/ StartView
  \/ ReadReceipt
  \/ ReadBlock
  \/ ReadTx
  \/ ReadAnchor
  \/ ReadPolicy

Init == RunInit /\ view = NoView

\* Bound of the model: the rest of the world stops with the view.
Next ==
  \/ HostNext /\ UNCHANGED view
  \/ view.at \notin {"accepted", "rejected"} /\ EnvironmentNext /\ UNCHANGED view
  \/ ViewNext

Spec == Init /\ [][Next]_vars

-----------------------------------------------------------------------------

\* Each leaf's archived path leads to the root that the epoch is anchored with:
\* the groups that the proofs are made in and the levels that are written down
\* meanwhile are of the same tree, also where a level's last group is a short one.
PathsAuthenticate ==
  tree.root # <<>> =>
    LET before == Len(witnesses) - Len(tree.paths)
    IN \A i \in DOMAIN tree.paths :
         /\ AuthenticationOk(LeafPublicValues(witnesses[before + i]), tree.paths[i],
                             LeafKey, AggregateKey)
         /\ AuthenticatedRoot(tree.paths[i], LeafKey, AggregateKey) = tree.root[1]

\* What a view says of this witness, in the leaf's public values and in its opened
\* events, polygon and credential.  Of the values the nullifier is left out: no
\* commitment of a node has it.  A credential may be in several slots.
TrueOf(bundle, input) ==
  /\ bundle.lot = input.lot
  /\ \A word \in DOMAIN LeafPublicValues(input) \ {"nullifier"} :
       bundle.leaf[word] = LeafPublicValues(input)[word]
  /\ \A i \in DOMAIN bundle.events :
       LET opening == bundle.events[i]
       IN /\ opening.index < Len(input.events)
          /\ opening.bytes = input.events[opening.index + 1].bytes
  /\ \A i \in DOMAIN bundle.polygon : bundle.polygon[i].vertices = input.polygon
  /\ \A i \in DOMAIN bundle.credential :
       LET credential == bundle.credential[i]
           event == input.events[credential.eventIndex + 1]
       IN /\ credential.owner = input.owner
          /\ credential.actor = event.bytes.actor
          /\ credential.slot \in SlotsFor(event.bytes, input.owner, input.key)

\* A view that is accepted tells the truth about one proved lot, of the epoch
\* that its transaction anchored in the trusted contract: parts of different
\* lots, epochs or trees do not pass together, whatever happened on the chain
\* between the reads.
AcceptedIsTrue ==
  view.at = "accepted" =>
    LET tx == view.bundle.authentication.tx
    IN /\ \E i \in DOMAIN witnesses :
            /\ TrueOf(view.bundle, witnesses[i])
            /\ sent[tx].values.epoch = witnesses[i].epoch
       /\ sent[tx].to = view.anchor
       /\ reorgs = 0 => tx \in chain[BlockOf(tx)].successes

\* Every preset opens every archived lot.  A view as view-open made it, of a
\* transaction that is mined in the trusted contract, is accepted as long as no
\* block is replaced meanwhile, also when the policy was revoked in a later block.
HonestAccepted ==
  /\ view.at = "rejected" /\ view.expected => reorgs # view.reorgs
  /\ host.at = "done" /\ view = NoView =>
       \A i \in DOMAIN witnesses : \A fields \in Presets :
         LET input == witnesses[i]
             count == Len(input.events)
         IN FieldsOk(fields, count) =>
              OpenOk(input, input.lot, Selection(fields, count), archive[i])

=============================================================================
