----------------------------- MODULE ArchivedRun -----------------------------
(***************************************************************************)
(* A run of the E4 host with a private archive: it proves the lots of each *)
(* epoch, posts the root to the anchor server and archives the paths with  *)
(* the transaction, while another client resets the same server and the    *)
(* registry's owner revokes the policy.                                    *)
(***************************************************************************)
EXTENDS EpochArchive, AnchorServer

CONSTANTS
  Host, Other  \* the clients of the server

ASSUME ClientsAssumption ==
  Host \in Clients /\ Other \in Clients /\ Host # Other

VARIABLES
  host,    \* where the host is, its epoch, and the contract it was told of
  archive  \* lot-N-authentication.json, in the order of witnesses

runVars == <<archiveVars, chainVars, serverVars, host, archive>>

ThePolicy == <<CertificateRoot, PolygonCommitment(Polygon, PolygonNonce)>>

RunInit ==
  /\ ArchiveInit /\ ChainInit /\ ServerInit
  /\ host = [at |-> "start", epoch |-> 1, anchor |-> None]
  /\ archive = <<>>

-----------------------------------------------------------------------------

HostAt(place) == host.at = place
HostGoes(place) == host' = [host EXCEPT !.at = place]

HostResets ==
  /\ HostAt("start")
  /\ ResetRequest(Host, MapRoot(nullifiers))
  /\ HostGoes("resetting")
  /\ UNCHANGED <<archiveVars, archive>>

HostWasReset ==
  /\ HostAt("resetting")
  /\ handlers[Host].at = "replied"
  /\ host' = [host EXCEPT !.at = "leaves", !.anchor = handlers[Host].anchor]
  /\ Forget(Host)
  /\ UNCHANGED <<archiveVars, chainVars, epochAnchor, verifier, archive>>

HostProvesLeaf ==
  /\ HostAt("leaves")
  /\ Len(leaves) < Len(Tasks[host.epoch])
  /\ ProveLeaf(Tasks[host.epoch][Len(leaves) + 1])
  /\ UNCHANGED <<chainVars, serverVars, host, archive>>

HostEndsEpoch ==
  /\ HostAt("leaves")
  /\ Len(leaves) = Len(Tasks[host.epoch])
  /\ StartTree
  /\ HostGoes("tree")
  /\ UNCHANGED <<chainVars, serverVars, archive>>

HostProvesNode ==
  /\ HostAt("tree")
  /\ ProveNode
  /\ UNCHANGED <<chainVars, serverVars, host, archive>>

HostPosts ==
  /\ HostAt("tree")
  /\ tree.root # <<>>
  /\ AnchorRequest(Host, host.epoch, tree.root[1].old, tree.root[1])
  /\ HostGoes("posted")
  /\ UNCHANGED <<archiveVars, archive>>

\* What the host makes of the reply to an epoch: it goes on only after a 201
\* with the root of its own map.
Acknowledged ==
  /\ handlers[Host].status = 201
  /\ handlers[Host].root = MapRoot(nullifiers)

EpochDone(anchor) ==
  host' = [at |-> IF host.epoch = Len(Tasks) THEN "done" ELSE "leaves",
           epoch |-> IF host.epoch = Len(Tasks) THEN host.epoch ELSE host.epoch + 1,
           anchor |-> anchor]

\* Mutant: a refused epoch is skipped.
NextEpochAnyway ==
  /\ EpochDone(IF Acknowledged THEN handlers[Host].anchor ELSE host.anchor)
  /\ UNCHANGED archive

NextEpoch ==
  IF Acknowledged
    THEN /\ EpochDone(handlers[Host].anchor)
         /\ archive' = archive \o [i \in DOMAIN tree.paths |->
                                    [tx |-> handlers[Host].tx, levels |-> tree.paths[i]]]
    ELSE /\ HostGoes("failed")
         /\ UNCHANGED archive

HostHasReply ==
  /\ HostAt("posted")
  /\ handlers[Host].at = "replied"
  /\ NextEpoch
  /\ tree' = NoTree
  /\ Forget(Host)
  /\ UNCHANGED <<nullifiers, witnesses, leaves, chainVars, epochAnchor, verifier>>

\* A host that fails otherwise, in a proof or because the server is silent, takes
\* no further step; the handler of its last request does.
HostNext ==
  \/ HostResets
  \/ HostWasReset
  \/ HostProvesLeaf
  \/ HostEndsEpoch
  \/ HostProvesNode
  \/ HostPosts
  \/ HostHasReply

-----------------------------------------------------------------------------

\* Another run of the host begins on the same server.
OtherResets ==
  /\ ResetRequest(Other, MapRoot(EmptyMap))
  /\ UNCHANGED <<archiveVars, host, archive>>

\* The registry's owner revokes the policy, once.
OwnerRevokes ==
  /\ CanSend
  /\ \A i \in DOMAIN sent : sent[i].kind # "policy"
  /\ Send(SetPolicy(ThePolicy, FALSE))
  /\ UNCHANGED <<archiveVars, chain, reorgs, serverVars, host, archive>>

RunOver == host.at \in {"done", "failed"}

\* Bound of the model: blocks are replaced only when the run is over.
EnvironmentNext ==
  \/ OtherResets
  \/ OwnerRevokes
  \/ MineBlock /\ UNCHANGED <<archiveVars, serverVars, host, archive>>
  \/ RunOver /\ Reorg /\ UNCHANGED <<archiveVars, serverVars, host, archive>>
  \/ ServerNext /\ UNCHANGED <<archiveVars, host, archive>>

\* Whoever reads or writes one of them, the host's map is the tree in which the
\* places of the lots it has proved are used, and no others.
RootsAreTree ==
  MapRoot(nullifiers) =
    FullRoot({NullifierIndex(witnesses[i].lot, witnesses[i].key) : i \in DOMAIN witnesses})

\* While the host works on the lots of an epoch, the contract it was last told of
\* stands at the root the epoch starts from: what the host marks as used before
\* an epoch is anchored never gets ahead of the chain by an epoch that failed.
HostInStep ==
  host.at = "leaves" =>
    LET before == {NullifierIndex(witnesses[i].lot, witnesses[i].key) :
                     i \in 1 .. Len(witnesses) - Len(leaves)}
    IN Contract(Latest, host.anchor).root = FullRoot(before)

\* An epoch that a 201 reports is in the contract the reply names: the
\* transaction is for that contract, and the root is the one it proves,
\* although the server's variable may name other contracts on the way.
ReplyTrue ==
  \A c \in Clients :
    LET reply == handlers[c]
    IN reply.at = "replied" /\ reply.status = 201 /\ "tx" \in DOMAIN reply =>
         /\ sent[reply.tx].to = reply.anchor
         /\ sent[reply.tx].values.new = reply.root

=============================================================================
