---------------------------- MODULE AnchorLemmas ----------------------------
(***************************************************************************)
(* Lemmas used for every anchor contract: about the outputs of the leaf    *)
(* program, and about logs of root transitions.                            *)
(***************************************************************************)
EXTENDS PolicyLeaf, TLAPS

\* What a leaf output states: the types of its fields, and that it marks its
\* nullifier used in a root where it was not.
LEMMA LeafOutputFacts ==
  ASSUME NEW v \in LeafOutputs
  PROVE  /\ v \in LeafType
         /\ v.nullifier \notin v.old
         /\ v.new = v.old \cup {v.nullifier}
<1>1. PICK batch \in Batches, key \in Keys, old \in Roots, policy \in Policies :
        /\ Evaluates(batch, key, old, policy)
        /\ v = PolicyPublicValues(batch, key, old, policy)
  BY DEF LeafOutputs
<1>2. batch \in BatchType
  BY PolicyLeafAssumption
<1>3. <<batch.lot, key>> \in Nullifiers /\ <<batch.lot, key>> \notin old
  BY <1>1, <1>2 DEF BatchType, Nullifiers, Evaluates
<1>4. old \cup {<<batch.lot, key>>} \in Roots
  BY <1>3 DEF Roots
<1>5. /\ batch.epoch \in Epochs
      /\ batch.digest \in Digests
      /\ batch.count \in Nat
  BY <1>2 DEF BatchType
<1> QED
  BY <1>1, <1>3, <1>4, <1>5
     DEF PolicyPublicValues, LeafType, RequiredRole, MaxAllowedReading

-----------------------------------------------------------------------------

\* Entering a transition that starts at the current root keeps the chain, and
\* with it the order of the roots and the account of what was spent.  This is
\* the step of verifyAndAnchor in both anchor contracts.
LEMMA AppendTransition ==
  ASSUME NEW T, NEW log \in Seq(T), NEW t, NEW first, NEW last,
         ChainIn(log, first, last), OrderedIn(log, last),
         AccountedIn(log, first, last),
         t.old = last, t.old \subseteq t.new, t.new # t.old
  PROVE  /\ ChainIn(Append(log, t), first, t.new)
         /\ OrderedIn(Append(log, t), t.new)
         /\ AccountedIn(Append(log, t), first, t.new)
<1> DEFINE next == Append(log, t)
           n == Len(log)
<1>1. /\ n \in Nat
      /\ DOMAIN log = 1 .. n
      /\ DOMAIN next = 1 .. (n + 1)
      /\ Len(next) = n + 1
      /\ next # <<>>
      /\ \A i \in 1 .. n : next[i] = log[i]
      /\ next[n + 1] = t
  OBVIOUS
<1>2. Spent(t) # {} /\ t.new = last \cup Spent(t)
  BY DEF Spent
<1> HIDE DEF next, n
<1>3. last = IF n = 0 THEN first ELSE log[n].new
  BY <1>1 DEF ChainIn, n
<1>4. ChainIn(next, first, t.new)
  <2>1. ASSUME NEW i \in 1 .. n
        PROVE  /\ next[i].old = IF i = 1 THEN first ELSE next[i - 1].new
               /\ next[i].old \subseteq next[i].new
               /\ Spent(next[i]) # {}
    <3>1. i # 1 => i - 1 \in 1 .. n
      BY <1>1
    <3> QED
      BY <1>1, <3>1 DEF ChainIn
  <2>2. next[n + 1].old = IF n + 1 = 1 THEN first ELSE next[n].new
    BY <1>1, <1>3
  <2>3. \A i \in 1 .. (n + 1) : i \in 1 .. n \/ i = n + 1
    BY <1>1
  <2>4. n + 1 - 1 = n
    BY <1>1
  <2> QED
    BY <1>1, <1>2, <2>1, <2>2, <2>3, <2>4 DEF ChainIn
<1>5. OrderedIn(next, t.new)
  <2>1. \A i \in 1 .. n : next[i].new \subseteq last
    BY <1>1 DEF OrderedIn
  <2>2. ASSUME NEW i \in 1 .. (n + 1), NEW j \in 1 .. (n + 1), i < j
        PROVE  next[i].new \subseteq next[j].old
    <3>1. i \in 1 .. n
      BY <1>1, <2>2
    <3>2. CASE j = n + 1
      BY <1>1, <2>1, <3>1, <3>2
    <3>3. CASE j \in 1 .. n
      BY <1>1, <2>2, <3>1, <3>3 DEF OrderedIn
    <3> QED
      BY <1>1, <3>2, <3>3
  <2>3. \A i \in 1 .. (n + 1) : next[i].new \subseteq t.new
    BY <1>1, <2>1
  <2> QED
    BY <1>1, <2>2, <2>3 DEF OrderedIn
<1>6. AccountedIn(next, first, t.new)
  <2>1. UNION {Spent(next[i]) : i \in 1 .. (n + 1)}
          = (UNION {Spent(log[i]) : i \in 1 .. n}) \cup Spent(t)
    <3>1. \A i \in 1 .. (n + 1) : i \in 1 .. n \/ i = n + 1
      BY <1>1
    <3>2. n + 1 \in 1 .. (n + 1) /\ \A i \in 1 .. n : i \in 1 .. (n + 1)
      BY <1>1
    <3> QED
      BY <1>1, <3>1, <3>2
  <2> QED
    BY <1>1, <1>2, <2>1 DEF AccountedIn
<1> QED
  BY <1>4, <1>5, <1>6 DEF next

\* In an ordered log no nullifier is spent twice.
LEMMA OrderedSpendsOnce ==
  ASSUME NEW T, NEW log \in Seq(T), NEW last, OrderedIn(log, last)
  PROVE  SpentOnceIn(log)
<1> SUFFICES ASSUME NEW i \in DOMAIN log, NEW j \in DOMAIN log, i # j
             PROVE  Spent(log[i]) \cap Spent(log[j]) = {}
  BY DEF SpentOnceIn
<1>1. i < j \/ j < i
  BY DOMAIN log = 1 .. Len(log), Len(log) \in Nat
<1>2. CASE i < j
  BY <1>2 DEF OrderedIn, Spent
<1>3. CASE j < i
  BY <1>3 DEF OrderedIn, Spent
<1> QED
  BY <1>1, <1>2, <1>3

\* The empty log.
LEMMA EmptyChain ==
  ASSUME NEW first
  PROVE  ChainIn(<<>>, first, first) /\ OrderedIn(<<>>, first)
           /\ AccountedIn(<<>>, first, first)
BY DEF ChainIn, OrderedIn, AccountedIn

=============================================================================
