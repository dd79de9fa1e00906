----------------------------- MODULE MCViewVerify -----------------------------
(***************************************************************************)
(* Two epochs of three and one lots, proved in nodes of at most two.       *)
(***************************************************************************)
EXTENDS ViewVerify

Event(lot, epoch, number) ==
  [lot |-> lot, epoch |-> epoch, number |-> number, certificate |-> lot,
   actor |-> "farm", role |-> "inspector"]

Lot(id, epoch, count) ==
  [id |-> id, epoch |-> epoch, key |-> id, owner |-> "owner", nonce |-> id,
   events |-> [i \in 1 .. count |-> Event(id, epoch, i)]]

MCTasks == <<<<Lot("a", 1, 3), Lot("b", 1, 3), Lot("c", 1, 2)>>, <<Lot("d", 2, 2)>>>>

MCCredentials ==
  LET lots == MCTasks[1] \o MCTasks[2]
  IN [i \in DOMAIN lots |->
        [event |-> lots[i].events[1], owner |-> lots[i].owner,
         keyCommitment |-> KeyCommitment(lots[i].key)]]

MCNullifierIndex(lot, key) ==
  CASE lot = "a" -> 2 [] lot = "b" -> 1 [] lot = "c" -> 3 [] lot = "d" -> 0

MCPresets == {Preset(name) : name \in {"regulator", "certifier"}}

\* What tests/openings.rs does to a bundle, a level left out or put on top, another
\* nullifier in the leaf and its level, and another transaction.
MCAltered(bundle) ==
  LET levels == bundle.authentication.levels
      event == bundle.events[1]
      onTop == [leafKey |-> TrustedLeafKey, aggregateKey |-> TrustedAggregateKey,
                index |-> 1, children |-> <<Child("aggregate", RootOf(bundle))>>]
  IN {[bundle EXCEPT !.events[1].index = (event.index + 1) % bundle.leaf.count],
      [bundle EXCEPT !.events[1].bytes.number = 9],
      [bundle EXCEPT !.events[1].salt = EventSalt(event.salt[2], event.index + 1)],
      [bundle EXCEPT !.leaf.nullifier = 9,
         !.authentication.levels[1].children[levels[1].index].values.nullifier = 9],
      [bundle EXCEPT !.authentication.levels = Append(levels, onTop)],
      [bundle EXCEPT !.authentication.levels = SubSeq(levels, 1, Len(levels) - 1)],
      [bundle EXCEPT !.authentication.levels[1].index = 3 - @],
      [bundle EXCEPT !.polygon = [i \in DOMAIN @ |-> [@[i] EXCEPT !.nonce = "other"]]],
      [bundle EXCEPT !.credential[1].eventIndex = @ + 1],
      [bundle EXCEPT !.credential[1].slot = (@ + 1) % 4],
      [bundle EXCEPT !.credential[1].owner = "other"]}
     \cup {[bundle EXCEPT !.authentication.tx = tx] :
             tx \in DOMAIN sent \ {bundle.authentication.tx}}

\* Up to two parts come from the other bundle.
MCForeignParts(parts) == {s \in SUBSET parts : Cardinality(s) \in 1 .. 2 /\ "polygon" \notin s}

MCPolicies == {ThePolicy}

=============================================================================
